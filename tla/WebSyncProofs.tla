--------------------------- MODULE WebSyncProofs ---------------------------
(***************************************************************************)
(* What WebSync guarantees for every set of rooms, identifiers and values, *)
(* and for every number of writes, drops, lost and overtaken announcements *)
(* and resyncs: the state keeps its shape, and a page at rest shows what   *)
(* is stored, but for what the hooks and the server are known to lose.     *)
(***************************************************************************)
EXTENDS WebSync, SequenceTheorems, TLAPS

\* A new generation is on its way, which fetches the list anew.
Reloading ==
  \/ bumped \/ ~up \/ outstanding # {}
  \/ \E n \in DOMAIN wire : wire[n] = Resync

\* The n-th frame on its way is an event that changed what is stored under id.
Tells(n, id) == n \in DOMAIN wire /\ wire[n] # Resync /\ wire[n].id = id /\ wire[n].kind # "other"

Pending(id) == \E n \in DOMAIN wire : Tells(n, id)

\* What is stored under id has yet to be announced.
Untold(id) == Tell(unsent, id)

\* An event says what is stored, or is known not to.
Honest(e, id) == e.value = data[id] \/ e.late

\* An open socket has asked for every room or is in it; a closed one carries
\* nothing, and no event comes from a room that is not joined.
Connected ==
  /\ sock \in Nat
  /\ up => Rooms \subseteq asked \cup joined
  /\ ~up => asked = {} /\ joined = {} /\ acks = {} /\ wire = << >>
  /\ asked \cap acks = {}
  /\ Source \notin joined => \A n \in DOMAIN wire : wire[n] = Resync

\* The value an event carries is one its kind can have.
Meant(e) ==
  /\ e.kind = "changed" => e.value \in Values
  /\ e.kind = "deleted" => e.value = Absent

Meaning ==
  /\ \A u \in unsent : Meant(u.event)
  /\ \A n \in DOMAIN wire : wire[n] # Resync => Meant(wire[n])
  /\ latest # None => Meant(latest)
  /\ fresh => latest # None
  /\ hook # "tracker" => fetch = None

Shape == TypeOK /\ Connected /\ Meaning

\* The last of the frames on id carries what is stored, if that is announced.
WireTells ==
  \A id \in Ids, n \in DOMAIN wire :
    Tells(n, id) /\ (\A m \in DOMAIN wire : m > n => ~Tells(m, id)) =>
      Honest(wire[n], id) \/ Untold(id)

ToRender(id) == fresh /\ latest.id = id /\ Followed(latest)

\* So does the event that waits to be rendered, if no other comes.
LatestTells ==
  ~Reloading => \A id \in Ids \ excused :
    ToRender(id) /\ ~Pending(id) /\ ~Untold(id) => Honest(latest, id)

Fetching(id) == fetch # None /\ fetch.id = id

\* Whatever arrives next, what is stored under id ends up on the page.
Arriving(id) ==
  /\ Fetching(id) => fetch.got \in {None, data[id]}
  /\ \A n \in DOMAIN lists : lists[n] # None => lists[n][id] = data[id]
  /\ lists = << >> => shown[id] = data[id] \/ (Fetching(id) /\ data[id] # Absent)

Settling ==
  ~Reloading => \A id \in Ids \ excused : Untold(id) \/ Pending(id) \/ ToRender(id) \/ Arriving(id)

\* The inductive invariant.
Inv == Shape /\ WireTells /\ LatestTells /\ Settling

----------------------------------------------------------------------------
(***************************************************************************)
(* The list of at most one request, without it, is empty.                  *)
(***************************************************************************)
LEMMA WithoutIsEmpty ==
  ASSUME TypeOK, NEW n \in DOMAIN lists
  PROVE  /\ Without(n) = << >> /\ DOMAIN lists = {1} /\ n = 1
<1>1. lists \in Seq(Lists \cup {None}) /\ Len(lists) <= 1
  BY DEF TypeOK
<1>2. Len(lists) = 1 /\ n = 1 /\ DOMAIN lists = {1}
  <2>1. DOMAIN lists = 1 .. Len(lists) /\ Len(lists) \in Nat
    BY <1>1
  <2>2. n \in 1 .. Len(lists)
    BY <2>1
  <2>3. n = 1 /\ Len(lists) = 1
    BY <1>1, <2>1, <2>2
  <2> QED
    BY <2>1, <2>3
<1>3. SubSeq(lists, 1, 0) = << >> /\ SubSeq(lists, 2, 1) = << >>
  BY SubSeqEmpty
<1>4. Without(n) = SubSeq(lists, 1, 0) \o SubSeq(lists, 2, 1)
  BY <1>2 DEF Without
<1>5. << >> \o << >> = << >>
  OBVIOUS
<1> QED
  BY <1>2, <1>3, <1>4, <1>5

(***************************************************************************)
(* A write waits to be announced, by an event that means what it says.     *)
(***************************************************************************)
LEMMA ChangeIs ==
  ASSUME Shape, NEW id \in Ids, NEW kind \in Kinds, NEW value \in Values \cup {Absent},
         Change(id, kind, value), NEW e, e = [id |-> id, kind |-> kind, value |-> value, late |-> FALSE]
  PROVE  /\ e \in Events /\ Meant(e)
         /\ data' = [data EXCEPT ![id] = value] /\ data' \in Lists
         /\ kind = "other" => data' = data
         /\ \E u : unsent' = unsent \cup {u} /\ u.event = e
         /\ UNCHANGED << hook, gap, troubles, socket, outstanding, page, view >>
<1>1. e \in Events
  BY DEF Events
<1>2. data' = [data EXCEPT ![id] = value] /\ data \in Lists
  BY DEF Change, Shape, TypeOK
<1>3. data' \in Lists
  BY <1>2 DEF Lists
<1>4. kind = "other" => data' = data
  BY <1>2 DEF Change, Lists
<1>5. Meant(e)
  BY DEF Change, Meant
<1>6. \E u : unsent' = unsent \cup {u} /\ u.event = e
  <2>1. unsent' = unsent \cup {[no |-> changes', event |-> e]}
    BY DEF Change
  <2>2. [no |-> changes', event |-> e].event = e
    OBVIOUS
  <2> QED
    BY <2>1, <2>2, Zenon
<1>7. UNCHANGED << hook, gap, troubles, socket, outstanding, page, view >>
  BY DEF Change
<1> QED
  BY <1>1, <1>2, <1>3, <1>4, <1>5, <1>6, <1>7

(***************************************************************************)
(* What is announced is an event that means what it says.                  *)
(***************************************************************************)
LEMMA AnnouncedIs ==
  ASSUME Shape, NEW u \in unsent, Announce(u)
  PROVE  \E e \in Events :
           /\ e # Resync /\ Meant(e)
           /\ e.id = u.event.id /\ e.kind = u.event.kind /\ e.value = u.event.value
           /\ e.late = Outdated(u.event, unsent \ {u})
           /\ wire' = IF gap THEN IF up THEN << Resync >> ELSE wire
                      ELSE IF Source \in joined THEN Append(wire, e) ELSE wire
           /\ wire' \in Seq(Events \cup {Resync})
<1> DEFINE e == [u.event EXCEPT !.late = Outdated(u.event, unsent \ {u})]
<1>1. u.event \in Events /\ Meant(u.event)
  BY DEF Shape, TypeOK, Meaning
<1>2. Outdated(u.event, unsent \ {u}) \in BOOLEAN
  BY DEF Outdated, Stale, Tell
<1>3. /\ e \in Events
      /\ e.id = u.event.id /\ e.kind = u.event.kind /\ e.value = u.event.value
      /\ e.late = Outdated(u.event, unsent \ {u})
  BY <1>1, <1>2 DEF Events
<1>4. wire' = IF gap THEN IF up THEN << Resync >> ELSE wire
              ELSE IF Source \in joined THEN Append(wire, e) ELSE wire
  BY DEF Announce
<1> HIDE DEF e
<1>5. e # Resync /\ Meant(e)
  BY <1>1, <1>3, WebAssumption DEF Meant
<1>6. wire' \in Seq(Events \cup {Resync})
  <2>1. wire \in Seq(Events \cup {Resync}) /\ << Resync >> \in Seq(Events \cup {Resync})
    BY DEF Shape, TypeOK
  <2>2. Append(wire, e) \in Seq(Events \cup {Resync})
    BY <1>3, <2>1
  <2> QED
    BY <1>4, <2>1, <2>2
<1> QED
  BY <1>3, <1>4, <1>5, <1>6

(***************************************************************************)
(* A loss leaves the frames on their way, and marks some of them.          *)
(***************************************************************************)
LEMMA LossIs ==
  ASSUME Shape, NEW u \in unsent, Lose(u)
  PROVE  /\ DOMAIN wire' = DOMAIN wire /\ wire' \in Seq(Events \cup {Resync})
         /\ wire = << >> => wire' = << >>
         /\ Unheard(u) \subseteq Ids
         /\ \A n \in DOMAIN wire :
              /\ wire'[n] = Resync <=> wire[n] = Resync
              /\ wire[n] # Resync =>
                   /\ wire'[n].id = wire[n].id /\ wire'[n].kind = wire[n].kind /\ wire'[n].value = wire[n].value
                   /\ wire'[n].late = (wire[n].late \/ (wire[n].id \in Unheard(u) /\ Stale(wire[n])))
<1>1. /\ wire' = [n \in DOMAIN wire |-> Belated(wire[n], Unheard(u))]
      /\ wire \in Seq(Events \cup {Resync})
  BY DEF Lose, Shape, TypeOK
<1>2. Unheard(u) \subseteq Ids
  BY DEF Unheard, Shape, TypeOK, Events
<1>3. ASSUME NEW n \in DOMAIN wire
      PROVE  /\ wire'[n] \in Events \cup {Resync}
             /\ wire'[n] = Resync <=> wire[n] = Resync
             /\ wire[n] # Resync =>
                  /\ wire'[n].id = wire[n].id /\ wire'[n].kind = wire[n].kind /\ wire'[n].value = wire[n].value
                  /\ wire'[n].late = (wire[n].late \/ (wire[n].id \in Unheard(u) /\ Stale(wire[n])))
  <2>1. wire'[n] = Belated(wire[n], Unheard(u)) /\ wire[n] \in Events \cup {Resync}
    BY <1>1
  <2>2. CASE wire[n] # Resync /\ wire[n].id \in Unheard(u) /\ Stale(wire[n])
    <3>1. wire'[n] = [wire[n] EXCEPT !.late = TRUE] /\ wire[n] \in Events
      BY <2>1, <2>2 DEF Belated
    <3>2. /\ wire'[n] \in Events /\ wire'[n].late = TRUE
          /\ wire'[n].id = wire[n].id /\ wire'[n].kind = wire[n].kind /\ wire'[n].value = wire[n].value
      BY <3>1 DEF Events
    <3> QED
      BY <2>2, <3>2, WebAssumption
  <2>3. CASE ~(wire[n] # Resync /\ wire[n].id \in Unheard(u) /\ Stale(wire[n]))
    <3>1. wire'[n] = wire[n]
      BY <2>1, <2>3 DEF Belated
    <3>2. wire[n] # Resync => wire[n].late \in BOOLEAN
      BY <2>1 DEF Events
    <3> QED
      BY <2>1, <2>3, <3>1, <3>2
  <2> QED
    BY <2>2, <2>3
<1>4. DOMAIN wire' = DOMAIN wire
  BY <1>1
<1>5. wire' \in Seq(Events \cup {Resync}) /\ Len(wire') = Len(wire)
  <2>1. DOMAIN wire = 1 .. Len(wire) /\ Len(wire) \in Nat
    BY <1>1
  <2>2. wire' = [n \in 1 .. Len(wire) |-> Belated(wire[n], Unheard(u))]
    BY <1>1, <2>1
  <2>3. \A n \in 1 .. Len(wire) : Belated(wire[n], Unheard(u)) \in Events \cup {Resync}
    BY <1>1, <1>3, <2>1
  <2> QED
    BY <2>1, <2>2, <2>3
<1>6. wire = << >> => wire' = << >>
  <2>1. wire = << >> => Len(wire') = 0
    BY <1>5
  <2> QED
    BY <1>5, <2>1, EmptySeq
<1> QED
  BY <1>2, <1>3, <1>4, <1>5, <1>6

(***************************************************************************)
(* A write keeps the shape.                                                *)
(***************************************************************************)
LEMMA ChangeShape ==
  ASSUME Shape, NEW id \in Ids, NEW kind \in Kinds, NEW value \in Values \cup {Absent},
         Change(id, kind, value)
  PROVE  Shape'
<1>1. PICK e : e = [id |-> id, kind |-> kind, value |-> value, late |-> FALSE]
  OBVIOUS
<1>2. /\ e \in Events /\ Meant(e) /\ data' \in Lists
      /\ \E u : unsent' = unsent \cup {u} /\ u.event = e
      /\ UNCHANGED << hook, gap, troubles, socket, outstanding, page, view >>
  BY <1>1, ChangeIs
<1>3. \A u \in unsent' : u.event \in Events /\ Meant(u.event)
  BY <1>2 DEF Shape, TypeOK, Meaning
<1>4. TypeOK' /\ Connected' /\ Meaning'
  BY <1>2, <1>3 DEF Shape, TypeOK, Connected, Meaning, Meant, socket, page, view
<1> QED
  BY <1>4 DEF Shape

(***************************************************************************)
(* An announcement appends such an event, or calls for a resync.           *)
(***************************************************************************)
LEMMA AnnounceShape ==
  ASSUME Shape, NEW u \in unsent, Announce(u)
  PROVE  Shape'
<1>1. PICK e \in Events :
        /\ e # Resync /\ Meant(e)
        /\ wire' = IF gap THEN IF up THEN << Resync >> ELSE wire
                   ELSE IF Source \in joined THEN Append(wire, e) ELSE wire
        /\ wire' \in Seq(Events \cup {Resync})
  BY AnnouncedIs
<1>2. /\ unsent' = unsent \ {u} /\ gap' = FALSE
      /\ UNCHANGED << hook, data, changes, troubles, sock, up, asked, joined, acks, outstanding, page, view >>
  BY DEF Announce
<1>3. TypeOK'
  BY <1>1, <1>2 DEF Shape, TypeOK, page, view
<1>4. Connected' /\ \A n \in DOMAIN wire' : wire'[n] # Resync => Meant(wire'[n])
  <2>1. CASE gap /\ up
    <3>1. wire' = << Resync >>
      BY <1>1, <2>1
    <3>2. \A n \in DOMAIN wire' : wire'[n] = Resync
      BY <3>1
    <3> QED
      BY <1>2, <2>1, <3>2 DEF Shape, Connected
  <2>2. CASE ~gap /\ Source \in joined
    <3>1. wire' = Append(wire, e) /\ wire \in Seq(Events \cup {Resync})
      BY <1>1, <2>2 DEF Shape, TypeOK
    <3>2. \A n \in DOMAIN wire' : wire'[n] = e \/ (n \in DOMAIN wire /\ wire'[n] = wire[n])
      BY <3>1
    <3>3. up
      BY <2>2 DEF Shape, Connected
    <3> QED
      BY <1>1, <1>2, <2>2, <3>2, <3>3 DEF Shape, Connected, Meaning
  <2>3. CASE (gap /\ ~up) \/ (~gap /\ Source \notin joined)
    <3>1. wire' = wire
      BY <1>1, <2>3
    <3> QED
      BY <1>2, <3>1 DEF Shape, Connected, Meaning
  <2> QED
    BY <2>1, <2>2, <2>3
<1>5. Meaning'
  BY <1>2, <1>4 DEF Shape, Meaning, Meant, page, view
<1> QED
  BY <1>3, <1>4, <1>5 DEF Shape

(***************************************************************************)
(* A loss keeps the shape of the frames that are on their way.             *)
(***************************************************************************)
LEMMA LoseShape ==
  ASSUME Shape, NEW u \in unsent, Lose(u)
  PROVE  Shape'
<1>1. /\ unsent' = unsent \ {u} /\ gap' \in {gap, TRUE} /\ excused' = excused \cup Unheard(u)
      /\ UNCHANGED << hook, data, changes, sock, up, asked, joined, acks, outstanding, page,
                      lists, fetch, shown >>
  BY DEF Lose
<1>2. /\ DOMAIN wire' = DOMAIN wire /\ wire' \in Seq(Events \cup {Resync})
      /\ wire = << >> => wire' = << >>
      /\ Unheard(u) \subseteq Ids
      /\ \A n \in DOMAIN wire :
           /\ wire'[n] = Resync <=> wire[n] = Resync
           /\ wire[n] # Resync => wire'[n].kind = wire[n].kind /\ wire'[n].value = wire[n].value
  BY LossIs
<1>3. TypeOK'
  BY <1>1, <1>2 DEF Shape, TypeOK, page
<1>4. Connected'
  BY <1>1, <1>2 DEF Shape, Connected
<1>5. \A n \in DOMAIN wire' : wire'[n] # Resync => Meant(wire'[n])
  BY <1>2 DEF Shape, Meaning, Meant
<1>6. Meaning'
  BY <1>1, <1>5 DEF Shape, Meaning, Meant, page
<1> QED
  BY <1>3, <1>4, <1>6 DEF Shape

(***************************************************************************)
(* The steps of the socket keep the shape.                                 *)
(***************************************************************************)
LEMMA SocketShape ==
  ASSUME Shape, FallBehind \/ Drop \/ Rejoin \/ \E r \in Rooms : ServeJoin(r) \/ ReceiveAck(r)
  PROVE  Shape'
<1>1. UNCHANGED << hook, data, unsent, gap, latest, fresh, view >>
  BY DEF FallBehind, Drop, Rejoin, ServeJoin, ReceiveAck, server, page
<1>2. wire' \in {wire, << >>, << Resync >>}
  BY DEF FallBehind, Drop, Rejoin, ServeJoin, ReceiveAck
<1>3. wire' \in Seq(Events \cup {Resync}) /\ (\A n \in DOMAIN wire' : wire'[n] # Resync => Meant(wire'[n]))
  <2>1. CASE wire' = wire
    BY <2>1 DEF Shape, TypeOK, Meaning
  <2>2. CASE wire' = << >>
    BY <2>2
  <2>3. CASE wire' = << Resync >>
    BY <2>3
  <2> QED
    BY <1>2, <2>1, <2>2, <2>3
<1>4. Meaning'
  BY <1>1, <1>3 DEF Shape, Meaning, Meant, view
<1>5. CASE FallBehind
  <2>1. /\ UNCHANGED << sock, up, asked, joined, acks, outstanding, bumped >>
        /\ wire # << >> /\ wire' = << Resync >>
    BY <1>5 DEF FallBehind, page
  <2>2. \A n \in DOMAIN wire' : wire'[n] = Resync
    BY <2>1
  <2>3. TypeOK' /\ Connected'
    BY <1>1, <1>3, <2>1, <2>2 DEF Shape, TypeOK, Connected, view
  <2> QED
    BY <1>4, <2>3 DEF Shape
<1>6. CASE Drop
  <2>1. /\ up' = FALSE /\ asked' = {} /\ joined' = {} /\ acks' = {} /\ wire' = << >>
        /\ UNCHANGED << sock, outstanding, bumped >>
    BY <1>6 DEF Drop, page
  <2>2. TypeOK' /\ Connected'
    <3>1. \A n \in DOMAIN wire' : wire'[n] = Resync
      BY <2>1
    <3> QED
      BY <1>1, <1>3, <2>1, <3>1 DEF Shape, TypeOK, Connected, view
  <2> QED
    BY <1>4, <2>2 DEF Shape
<1>7. CASE Rejoin
  <2>1. /\ ~up /\ up' = TRUE /\ sock' = sock + 1 /\ asked' = Rooms
        /\ outstanding' = {<< sock', r >> : r \in Rooms}
        /\ UNCHANGED << joined, acks, wire, bumped >>
    BY <1>7 DEF Rejoin, Reset, page
  <2>2. joined = {} /\ acks = {} /\ wire = << >> /\ sock \in Nat
    BY <2>1 DEF Shape, Connected
  <2>3. outstanding' \subseteq (1..sock') \X Rooms
    BY <2>1, <2>2
  <2>4. TypeOK' /\ Connected'
    BY <1>1, <1>3, <2>1, <2>2, <2>3 DEF Shape, TypeOK, Connected, view
  <2> QED
    BY <1>4, <2>4 DEF Shape
<1>8. ASSUME NEW r \in Rooms, ServeJoin(r)
      PROVE  Shape'
  <2>1. /\ r \in asked /\ asked' = asked \ {r} /\ joined' = joined \cup {r} /\ acks' = acks \cup {r}
        /\ UNCHANGED << sock, up, wire, outstanding, bumped >>
    BY <1>8 DEF ServeJoin, page
  <2>2. TypeOK' /\ Connected'
    BY <1>1, <1>3, <2>1 DEF Shape, TypeOK, Connected, view
  <2> QED
    BY <1>4, <2>2 DEF Shape
<1>9. ASSUME NEW r \in Rooms, ReceiveAck(r)
      PROVE  Shape'
  <2>1. /\ r \in acks /\ acks' = acks \ {r} /\ outstanding' = outstanding \ {<< sock, r >>}
        /\ bumped' \in BOOLEAN
        /\ UNCHANGED << sock, up, asked, joined, wire >>
    BY <1>9 DEF ReceiveAck, Acknowledge, Shape, TypeOK
  <2>2. r \notin asked
    BY <2>1 DEF Shape, Connected
  <2>3. up' => \A q \in asked' \cup acks' : << sock', q >> \in outstanding'
    BY <2>1, <2>2 DEF Shape, TypeOK
  <2>4. TypeOK' /\ Connected'
    BY <1>1, <1>3, <2>1, <2>3 DEF Shape, TypeOK, Connected, view
  <2> QED
    BY <1>4, <2>4 DEF Shape
<1> QED
  BY <1>5, <1>6, <1>7, <1>8, <1>9

(***************************************************************************)
(* The frames arrive in order.                                             *)
(***************************************************************************)
LEMMA TailIs ==
  ASSUME Shape, wire # << >>
  PROVE  /\ Head(wire) = wire[1] /\ 1 \in DOMAIN wire /\ Head(wire) \in Events \cup {Resync}
         /\ Tail(wire) \in Seq(Events \cup {Resync})
         /\ \A n \in DOMAIN Tail(wire) : n + 1 \in DOMAIN wire /\ Tail(wire)[n] = wire[n + 1]
         /\ \A n \in DOMAIN wire : n # 1 => n - 1 \in DOMAIN Tail(wire) /\ Tail(wire)[n - 1] = wire[n]
         /\ DOMAIN wire \subseteq Nat \ {0} /\ DOMAIN Tail(wire) \subseteq Nat \ {0}
<1>1. wire \in Seq(Events \cup {Resync})
  BY DEF Shape, TypeOK
<1> QED
  BY <1>1

(***************************************************************************)
(* Receiving a frame keeps the shape.                                      *)
(***************************************************************************)
LEMMA ReceiveShape ==
  ASSUME Shape, ReceiveResync \/ ReceiveEvent
  PROVE  Shape'
<1>1. /\ wire # << >> /\ wire' = Tail(wire)
      /\ UNCHANGED << hook, server, troubles, sock, up, asked, joined, acks, outstanding, lists, fetch, shown >>
  BY DEF ReceiveResync, ReceiveEvent, view
<1>2. /\ wire' \in Seq(Events \cup {Resync})
      /\ \A n \in DOMAIN wire' : wire'[n] # Resync => Meant(wire'[n])
  BY <1>1, TailIs DEF Shape, Meaning
<1>3. CASE ReceiveResync
  <2>1. bumped' = TRUE /\ UNCHANGED << latest, fresh, excused >>
    BY <1>3 DEF ReceiveResync, view
  <2>2. TypeOK' /\ Connected' /\ Meaning'
    BY <1>1, <1>2, <2>1 DEF Shape, TypeOK, Connected, Meaning, Meant, server
  <2> QED
    BY <2>2 DEF Shape
<1>4. CASE ReceiveEvent
  <2>1. /\ Head(wire) # Resync /\ latest' = Head(wire) /\ fresh' = TRUE /\ bumped' = bumped
        /\ excused' = excused \cup {e.id : e \in {x \in {latest} : fresh /\ Followed(x)}}
                              \cup {e.id : e \in {x \in {latest'} : x.kind = "reordered"}}
    BY <1>4 DEF ReceiveEvent
  <2>2. latest' \in Events /\ latest' # None /\ Meant(latest')
    <3>1. latest' \in Events /\ Meant(latest')
      BY <1>1, <2>1, TailIs DEF Shape, Meaning
    <3> QED
      BY <3>1, WebAssumption
  <2>3. fresh => latest \in Events
    BY DEF Shape, TypeOK, Meaning
  <2>4. excused' \subseteq Ids
    BY <2>1, <2>2, <2>3 DEF Events, Shape, TypeOK
  <2>5. TypeOK' /\ Connected' /\ Meaning'
    BY <1>1, <1>2, <2>1, <2>2, <2>4 DEF Shape, TypeOK, Connected, Meaning, Meant, server
  <2> QED
    BY <2>5 DEF Shape
<1> QED
  BY <1>3, <1>4

(***************************************************************************)
(* The requests for the list keep the shape.                               *)
(***************************************************************************)
LEMMA ListShape ==
  ASSUME Shape, NEW n \in DOMAIN lists, ServeList(n) \/ ReceiveList(n) \/ FailList(n)
  PROVE  Shape'
<1>1. UNCHANGED << hook, server, socket, outstanding, page, fetch >>
  BY DEF ServeList, ReceiveList, FailList
<1>2. Without(n) = << >> /\ DOMAIN lists = {1} /\ n = 1 /\ lists \in Seq(Lists \cup {None}) /\ Len(lists) <= 1
  BY WithoutIsEmpty DEF Shape, TypeOK
<1>3. lists' \in Seq(Lists \cup {None}) /\ Len(lists') <= 1
  <2>1. CASE ServeList(n)
    <3>1. PICK listed : lists' = [lists EXCEPT ![n] = [id \in Ids |-> IF id \in listed THEN data[id] ELSE Absent]]
      BY <2>1 DEF ServeList
    <3>2. [id \in Ids |-> IF id \in listed THEN data[id] ELSE Absent] \in Lists \cup {None}
      BY DEF Shape, TypeOK, Lists
    <3>3. lists' \in Seq(Lists \cup {None}) /\ Len(lists') = Len(lists)
      BY <1>2, <3>1, <3>2, ExceptSeq
    <3> QED
      BY <1>2, <3>3
  <2>2. CASE ReceiveList(n) \/ FailList(n)
    <3>1. lists' = << >>
      BY <1>2, <2>2 DEF ReceiveList, FailList
    <3> QED
      BY <3>1
  <2> QED
    BY <2>1, <2>2
<1>4. shown' \in Lists /\ excused' \subseteq Ids
  <2>1. shown \in Lists /\ excused \subseteq Ids
    BY DEF Shape, TypeOK
  <2>2. lists[n] \in Lists \cup {None}
    BY <1>2, ElementOfSeq
  <2> QED
    BY <2>1, <2>2 DEF ServeList, ReceiveList, FailList, Stored
<1>5. TypeOK' /\ Connected' /\ Meaning'
  BY <1>1, <1>3, <1>4 DEF Shape, TypeOK, Connected, Meaning, Meant, server, socket, page
<1> QED
  BY <1>5 DEF Shape

(***************************************************************************)
(* The request for an item keeps the shape.                                *)
(***************************************************************************)
LEMMA ItemShape ==
  ASSUME Shape, ServeItem \/ ReceiveItem \/ FailItem
  PROVE  Shape'
<1>1. UNCHANGED << hook, server, socket, outstanding, page, lists >>
  BY DEF ServeItem, ReceiveItem, FailItem
<1>2. fetch # None /\ fetch \in Fetches /\ hook = "tracker"
  BY DEF ServeItem, ReceiveItem, FailItem, Shape, TypeOK, Meaning
<1>3. fetch.id \in Ids /\ fetch.got \in Values \cup {Absent, None} /\ data[fetch.id] \in Values \cup {Absent}
  BY <1>2 DEF Fetches, Shape, TypeOK, Lists
<1>4. fetch' \in Fetches \cup {None}
  <2>1. ServeItem => fetch' = [fetch EXCEPT !.got = data[fetch.id]]
    BY DEF ServeItem
  <2>2. ReceiveItem \/ FailItem => fetch' = None
    BY DEF ReceiveItem, FailItem
  <2>3. [fetch EXCEPT !.got = data[fetch.id]] \in Fetches
    BY <1>2, <1>3 DEF Fetches
  <2> QED
    BY <2>1, <2>2, <2>3
<1>5. shown' \in Lists
  <2>1. CASE shown' = shown
    BY <2>1 DEF Shape, TypeOK
  <2>2. CASE shown' = [shown EXCEPT ![fetch.id] = fetch.got] /\ fetch.got # None
    BY <1>3, <2>2 DEF Shape, TypeOK, Lists
  <2> QED
    BY <2>1, <2>2 DEF ServeItem, ReceiveItem, FailItem
<1>6. excused' \subseteq Ids
  BY <1>3 DEF ServeItem, ReceiveItem, FailItem, Shape, TypeOK
<1>7. TypeOK' /\ Connected' /\ Meaning'
  BY <1>1, <1>2, <1>4, <1>5, <1>6 DEF Shape, TypeOK, Connected, Meaning, Meant, server, socket, page
<1> QED
  BY <1>7 DEF Shape

----------------------------------------------------------------------------
(***************************************************************************)
(* What a render does: a new generation asks for the list anew; an event   *)
(* is applied, or its item is asked for; what is outrun is excused.        *)
(***************************************************************************)
LEMMA RenderIs ==
  ASSUME Shape, Render, NEW acts, acts = (fresh /\ Followed(latest))
  PROVE  /\ bumped' = FALSE /\ fresh' = FALSE
         /\ UNCHANGED << hook, server, socket, outstanding, latest >>
         /\ fresh => latest \in Events /\ Meant(latest)
         /\ bumped => lists' = << None >>
         /\ ~bumped => lists' = lists /\ fresh
         /\ hook # "tracker" \/ ~fresh => fetch' = fetch
         /\ hook = "tracker" /\ fresh /\ acts /\ latest.kind = "changed" =>
              fetch' = [id |-> latest.id, got |-> None]
         /\ hook = "tracker" /\ fresh /\ ~(acts /\ latest.kind = "changed") => fetch' = None
         /\ ~bumped /\ ~(acts /\ (latest.kind = "deleted" \/ hook # "tracker")) => shown' = shown
         /\ ~bumped /\ acts /\ (latest.kind = "deleted" \/ hook # "tracker") =>
              shown' = [shown EXCEPT ![latest.id] = latest.value]
         /\ ~bumped => excused \subseteq excused'
         /\ ~(fresh /\ bumped) /\ fetch # None => fetch.id \in excused'
         /\ acts /\ (Overwriting(lists') \/ (latest.late /\ lists' = << >>)) => latest.id \in excused'
         /\ fetch' \in Fetches \cup {None} /\ shown' \in Lists /\ excused' \subseteq Ids
<1> DEFINE tracked == hook = "tracker"
           before  == IF bumped /\ tracked THEN Nothing ELSE shown
           gone    == acts /\ latest.kind = "deleted"
<1>1. /\ bumped \/ fresh
      /\ bumped' = FALSE /\ fresh' = FALSE
      /\ lists' = IF bumped THEN << None >> ELSE lists
      /\ shown' = IF ~acts THEN before
                  ELSE IF gone \/ ~tracked THEN [before EXCEPT ![latest.id] = latest.value]
                  ELSE before
      /\ fetch' = IF ~tracked \/ ~fresh THEN fetch
                  ELSE IF acts /\ ~gone THEN [id |-> latest.id, got |-> None] ELSE None
      /\ excused' = (IF bumped THEN {} ELSE excused)
                      \cup (IF fresh /\ bumped THEN {} ELSE IF fresh \/ bumped THEN Outrun ELSE {})
                      \cup (IF acts /\ (Overwriting(lists') \/ (latest.late /\ lists' = << >>))
                            THEN {latest.id} ELSE {})
      /\ UNCHANGED << hook, server, troubles, socket, outstanding, latest >>
  BY DEF Render, Reload
<1>2. fresh => latest \in Events /\ Meant(latest)
  BY DEF Shape, TypeOK, Meaning
<1>3. acts => latest.kind \in {"changed", "deleted"} /\ latest.id \in Ids /\ latest.value \in Values \cup {Absent}
  BY <1>2 DEF Followed, Events
<1>4. before \in Lists
  BY DEF Nothing, Lists, Shape, TypeOK
<1>5. shown' \in Lists
  <2>1. acts => [before EXCEPT ![latest.id] = latest.value] \in Lists
    BY <1>3, <1>4 DEF Lists
  <2> HIDE DEF before, gone, tracked
  <2> QED
    BY <1>1, <1>4, <2>1
<1>6. fetch' \in Fetches \cup {None}
  <2>1. acts => [id |-> latest.id, got |-> None] \in Fetches
    BY <1>3 DEF Fetches
  <2> QED
    BY <1>1, <2>1 DEF Shape, TypeOK
<1>7. fetch # None => fetch.id \in Ids /\ Outrun = {fetch.id}
  BY DEF Shape, TypeOK, Outrun, Fetches
<1>8. Outrun \subseteq Ids
  BY <1>7 DEF Outrun
<1>9. excused' \subseteq Ids
  BY <1>1, <1>3, <1>8 DEF Shape, TypeOK
<1>10. ~(fresh /\ bumped) /\ fetch # None => fetch.id \in excused'
  BY <1>1, <1>7
<1>11. /\ ~bumped => excused \subseteq excused'
       /\ acts /\ (Overwriting(lists') \/ (latest.late /\ lists' = << >>)) => latest.id \in excused'
  BY <1>1
<1>12. /\ ~bumped /\ ~(acts /\ (latest.kind = "deleted" \/ hook # "tracker")) => shown' = shown
       /\ ~bumped /\ acts /\ (latest.kind = "deleted" \/ hook # "tracker") =>
            shown' = [shown EXCEPT ![latest.id] = latest.value]
  BY <1>1
<1>13. /\ hook # "tracker" \/ ~fresh => fetch' = fetch
       /\ hook = "tracker" /\ fresh /\ acts /\ latest.kind = "changed" =>
            fetch' = [id |-> latest.id, got |-> None]
       /\ hook = "tracker" /\ fresh /\ ~(acts /\ latest.kind = "changed") => fetch' = None
  BY <1>1, <1>3
<1>14. (bumped => lists' = << None >>) /\ (~bumped => lists' = lists /\ fresh)
  BY <1>1
<1>15. bumped' = FALSE /\ fresh' = FALSE /\ UNCHANGED << hook, server, socket, outstanding, latest >>
  BY <1>1
<1> QED
  BY <1>2, <1>5, <1>6, <1>9, <1>10, <1>11, <1>12, <1>13, <1>14, <1>15

(***************************************************************************)
(* Rendering keeps the shape.                                              *)
(***************************************************************************)
LEMMA RenderShape ==
  ASSUME Shape, Render
  PROVE  Shape'
<1>1. PICK acts : acts = (fresh /\ Followed(latest))
  OBVIOUS
<1>2. /\ bumped' = FALSE /\ fresh' = FALSE
      /\ UNCHANGED << hook, server, socket, outstanding, latest >>
      /\ (bumped => lists' = << None >>) /\ (~bumped => lists' = lists)
      /\ (hook # "tracker" => fetch' = fetch)
      /\ fetch' \in Fetches \cup {None} /\ shown' \in Lists /\ excused' \subseteq Ids
  BY <1>1, RenderIs
<1>3. lists' \in Seq(Lists \cup {None}) /\ Len(lists') <= 1
  <2>1. CASE bumped
    BY <1>2, <2>1
  <2>2. CASE ~bumped
    BY <1>2, <2>2 DEF Shape, TypeOK
  <2> QED
    BY <2>1, <2>2
<1>4. TypeOK' /\ Connected' /\ Meaning'
  BY <1>2, <1>3 DEF Shape, TypeOK, Connected, Meaning, Meant, server, socket
<1> QED
  BY <1>4 DEF Shape

(***************************************************************************)
(* The shape holds at the start.                                           *)
(***************************************************************************)
LEMMA ShapeAtStart == Init => Shape
<1> SUFFICES ASSUME Init
             PROVE  Shape
  OBVIOUS
<1>1. Nothing \in Lists
  BY DEF Nothing, Lists
<1>2. /\ data \in Lists /\ shown \in Lists
      /\ up = FALSE /\ bumped = FALSE /\ fresh = FALSE /\ sock = 0
      /\ asked = {} /\ joined = {} /\ acks = {} /\ outstanding = {} /\ excused = {}
      /\ unsent = {} /\ gap = FALSE
      /\ wire = << >> /\ lists = << >> /\ latest = None /\ fetch = None
  BY <1>1 DEF Init
<1>3. TypeOK
  <2>1. << >> \in Seq(Events \cup {Resync}) /\ << >> \in Seq(Lists \cup {None}) /\ Len(<< >>) <= 1
    OBVIOUS
  <2>2. wire \in Seq(Events \cup {Resync}) /\ lists \in Seq(Lists \cup {None}) /\ Len(lists) <= 1
    BY <1>2, <2>1
  <2>3. /\ asked \cup joined \cup acks \subseteq Rooms /\ acks \subseteq joined
        /\ outstanding \subseteq (1..sock) \X Rooms /\ excused \subseteq Ids
    BY <1>2
  <2> QED
    BY <1>2, <2>2, <2>3 DEF TypeOK
<1>4. Connected
  BY <1>2 DEF Connected
<1>5. Meaning
  BY <1>2 DEF Meaning
<1> QED
  BY <1>3, <1>4, <1>5 DEF Shape

(***************************************************************************)
(* Every step keeps it.                                                    *)
(***************************************************************************)
LEMMA ShapeKept == Shape /\ [Next]_vars => Shape'
<1> SUFFICES ASSUME Shape, [Next]_vars
             PROVE  Shape'
  OBVIOUS
<1>1. ASSUME UNCHANGED vars
      PROVE  Shape'
  BY <1>1 DEF Shape, TypeOK, Connected, Meaning, Meant, vars, server, socket, page, view
<1> QED
  BY <1>1, ChangeShape, AnnounceShape, LoseShape, SocketShape, ReceiveShape, ListShape, ItemShape, RenderShape DEF Next, Settle

----------------------------------------------------------------------------
(***************************************************************************)
(* When no generation is on its way, every room is joined and what is sent *)
(* to them is on the wire.                                                 *)
(***************************************************************************)
LEMMA StillIs ==
  ASSUME Shape, ~Reloading
  PROVE  up /\ ~bumped /\ outstanding = {} /\ Source \in joined /\ (\A n \in DOMAIN wire : wire[n] # Resync)
<1>1. up /\ ~bumped /\ outstanding = {} /\ (\A n \in DOMAIN wire : wire[n] # Resync)
  BY DEF Reloading, Shape, TypeOK
<1>2. asked = {}
  BY <1>1 DEF Shape, TypeOK
<1>3. Source \in joined
  BY <1>1, <1>2, WebAssumption DEF Shape, Connected
<1> QED
  BY <1>1, <1>3

(***************************************************************************)
(* A write is untold at first.                                             *)
(***************************************************************************)
LEMMA ChangeKept ==
  ASSUME Inv, NEW id \in Ids, NEW kind \in Kinds, NEW value \in Values \cup {Absent},
         Change(id, kind, value)
  PROVE  WireTells' /\ LatestTells' /\ Settling'
<1>1. PICK e : e = [id |-> id, kind |-> kind, value |-> value, late |-> FALSE]
  OBVIOUS
<1>2. /\ e.id = id /\ e.kind = kind /\ e.value = value
      /\ data' = [data EXCEPT ![id] = value] /\ data \in Lists
      /\ kind = "other" => data' = data
      /\ \E u : unsent' = unsent \cup {u} /\ u.event = e
      /\ UNCHANGED << hook, gap, troubles, socket, outstanding, page, view >>
  BY <1>1, ChangeIs DEF Inv, Shape, TypeOK
<1>3. UNCHANGED << wire, up, joined, outstanding, bumped, latest, fresh, lists, fetch, shown, excused >>
  BY <1>2 DEF socket, page, view
<1>4. data'[id] = value /\ \A x \in Ids : x # id \/ kind = "other" => data'[x] = data[x]
  BY <1>2 DEF Lists
<1>5. \A x \in Ids : ~Untold(x)' => data'[x] = data[x] /\ ~Untold(x)
  <2>1. ASSUME NEW x \in Ids, ~Untold(x)'
        PROVE  data'[x] = data[x]
    BY <1>2, <1>4, <2>1 DEF Untold, Tell
  <2> QED
    BY <1>2, <2>1 DEF Untold, Tell
<1>6. \A n, x : Tells(n, x)' <=> Tells(n, x)
  BY <1>3 DEF Tells
<1>7. WireTells'
  BY <1>3, <1>5, <1>6 DEF Inv, WireTells, Honest
<1>8. Reloading' <=> Reloading
  BY <1>3 DEF Reloading
<1>9. \A x : (Pending(x)' <=> Pending(x)) /\ (ToRender(x)' <=> ToRender(x))
  BY <1>3, <1>6 DEF Pending, ToRender, Followed
<1>10. LatestTells'
  BY <1>3, <1>5, <1>8, <1>9 DEF Inv, LatestTells, Honest
<1>11. \A x \in Ids : data'[x] = data[x] /\ Arriving(x) => Arriving(x)'
  BY <1>3 DEF Arriving, Fetching
<1>12. Settling'
  BY <1>3, <1>5, <1>8, <1>9, <1>11 DEF Inv, Settling
<1> QED
  BY <1>7, <1>10, <1>12

(***************************************************************************)
(* An announcement is on its way to the page, unless a generation is.      *)
(***************************************************************************)
LEMMA AnnounceKept ==
  ASSUME Inv, NEW u \in unsent, Announce(u)
  PROVE  WireTells' /\ LatestTells' /\ Settling'
<1>1. PICK e \in Events :
        /\ e # Resync
        /\ e.id = u.event.id /\ e.kind = u.event.kind /\ e.value = u.event.value
        /\ e.late = Outdated(u.event, unsent \ {u})
        /\ wire' = IF gap THEN IF up THEN << Resync >> ELSE wire
                   ELSE IF Source \in joined THEN Append(wire, e) ELSE wire
  BY AnnouncedIs DEF Inv
<1>2. /\ unsent' = unsent \ {u} /\ wire \in Seq(Events \cup {Resync})
      /\ UNCHANGED << data, up, joined, outstanding, bumped, latest, fresh, lists, fetch, shown, excused >>
  BY DEF Announce, page, view, Inv, Shape, TypeOK
<1>3. \A x : x # e.id \/ e.kind = "other" => (Untold(x) <=> Untold(x)')
  BY <1>1, <1>2 DEF Untold, Tell
<1>4. CASE gap /\ up
  <2>1. wire' = << Resync >>
    BY <1>1, <1>4
  <2>2. 1 \in DOMAIN wire' /\ wire'[1] = Resync /\ \A n \in DOMAIN wire' : wire'[n] = Resync
    BY <2>1
  <2>3. Reloading' /\ WireTells'
    BY <2>2 DEF Reloading, WireTells, Tells
  <2> QED
    BY <2>3 DEF LatestTells, Settling
<1>5. CASE (gap /\ ~up) \/ (~gap /\ Source \notin joined)
  <2>1. wire' = wire /\ \A n \in DOMAIN wire : wire[n] = Resync
    BY <1>1, <1>5 DEF Inv, Shape, Connected
  <2>2. Reloading
    BY <1>5, StillIs DEF Inv, Reloading
  <2>3. Reloading' /\ WireTells'
    BY <1>2, <2>1, <2>2 DEF Reloading, WireTells, Tells
  <2> QED
    BY <2>3 DEF LatestTells, Settling
<1>6. CASE ~gap /\ Source \in joined
  <2>1. wire' = Append(wire, e)
    BY <1>1, <1>6
  <2>2. PICK k : k = Len(wire) + 1
    OBVIOUS
  <2>3. /\ k \in DOMAIN wire' /\ wire'[k] = e
        /\ \A n \in DOMAIN wire : n \in DOMAIN wire' /\ wire'[n] = wire[n] /\ n < k
        /\ \A n \in DOMAIN wire' : n = k \/ n \in DOMAIN wire
    BY <1>2, <2>1, <2>2
  <2>4. \A n \in DOMAIN wire, x \in Ids : Tells(n, x)' <=> Tells(n, x)
    BY <2>3 DEF Tells
  <2>5. \A x \in Ids : Tells(k, x)' <=> x = e.id /\ e.kind # "other"
    BY <1>1, <2>3 DEF Tells
  <2>6. \A x \in Ids : Pending(x) => Pending(x)'
    BY <2>3, <2>4 DEF Pending
  <2>7. \A x \in Ids : ~Pending(x)' => ~Pending(x) /\ (Untold(x) <=> Untold(x)')
    <3>1. \A x \in Ids : ~Pending(x)' => x # e.id \/ e.kind = "other"
      BY <2>3, <2>5 DEF Pending
    <3> QED
      BY <1>3, <2>6, <3>1
  <2>8. ~Reloading' => ~Reloading
    BY <1>2, <2>3 DEF Reloading
  <2>9. ASSUME NEW x \in Ids, NEW n \in DOMAIN wire', Tells(n, x)',
               \A m \in DOMAIN wire' : m > n => ~Tells(m, x)'
        PROVE  Honest(wire[n], x)' \/ Untold(x)'
    <3>1. CASE n = k
      <4>1. wire'[n] = e /\ x = e.id /\ e.kind # "other"
        BY <2>3, <2>5, <2>9, <3>1
      <4>2. CASE e.value = data[x]
        BY <1>2, <4>1, <4>2 DEF Honest
      <4>3. CASE e.value # data[x] /\ Tell(unsent \ {u}, x)
        BY <1>2, <4>3 DEF Untold, Tell
      <4>4. CASE e.value # data[x] /\ ~Tell(unsent \ {u}, x)
        BY <1>1, <4>1, <4>4 DEF Honest, Outdated, Stale
      <4> QED
        BY <4>2, <4>3, <4>4
    <3>2. CASE n # k
      <4>1. n \in DOMAIN wire /\ n < k /\ Tells(n, x) /\ wire'[n] = wire[n]
        BY <2>3, <2>4, <2>9, <3>2
      <4>2. k > n
        BY <1>2, <2>2, <4>1
      <4>3. ~Tells(k, x)'
        BY <2>3, <2>9, <4>2
      <4>4. Untold(x) <=> Untold(x)'
        BY <1>3, <2>5, <4>3
      <4>5. \A m \in DOMAIN wire : m > n => ~Tells(m, x)
        BY <2>3, <2>4, <2>9
      <4>6. Honest(wire[n], x) \/ Untold(x)
        BY <4>1, <4>5 DEF Inv, WireTells
      <4> QED
        BY <1>2, <4>1, <4>4, <4>6 DEF Honest
    <3> QED
      BY <3>1, <3>2
  <2>10. WireTells'
    BY <2>9 DEF WireTells
  <2>11. \A x \in Ids : (ToRender(x)' <=> ToRender(x)) /\ (Arriving(x)' <=> Arriving(x))
    BY <1>2 DEF ToRender, Followed, Arriving, Fetching
  <2>12. LatestTells'
    BY <1>2, <2>7, <2>8, <2>11 DEF Inv, LatestTells, Honest
  <2>13. Settling'
    BY <1>2, <2>7, <2>8, <2>11 DEF Inv, Settling
  <2> QED
    BY <2>10, <2>12, <2>13
<1> QED
  BY <1>4, <1>5, <1>6

(***************************************************************************)
(* What nobody will hear is excused, and what came before it is marked.    *)
(***************************************************************************)
LEMMA LoseKept ==
  ASSUME Inv, NEW u \in unsent, Lose(u)
  PROVE  WireTells' /\ LatestTells' /\ Settling'
<1>1. /\ unsent' = unsent \ {u} /\ excused' = excused \cup Unheard(u)
      /\ UNCHANGED << data, up, outstanding, bumped, latest, fresh, lists, fetch, shown >>
  BY DEF Lose, page
<1>2. /\ DOMAIN wire' = DOMAIN wire
      /\ \A n \in DOMAIN wire :
           /\ wire'[n] = Resync <=> wire[n] = Resync
           /\ wire[n] # Resync =>
                /\ wire'[n].id = wire[n].id /\ wire'[n].kind = wire[n].kind /\ wire'[n].value = wire[n].value
                /\ wire'[n].late = (wire[n].late \/ (wire[n].id \in Unheard(u) /\ Stale(wire[n])))
  BY LossIs DEF Inv
<1>3. \A n, x : Tells(n, x)' <=> Tells(n, x)
  BY <1>2 DEF Tells
<1>4. ASSUME NEW x, x \notin Unheard(u), Untold(x)
      PROVE  Untold(x)'
  <2>1. Tell({u}, x) \/ Tell(unsent \ {u}, x)
    BY <1>4 DEF Untold, Tell
  <2>2. Tell({u}, x) => x = u.event.id
    BY DEF Tell
  <2>3. Tell(unsent \ {u}, x)
    BY <1>4, <2>1, <2>2 DEF Unheard
  <2> QED
    BY <1>1, <2>3 DEF Untold, Tell
<1>5. ASSUME NEW x \in Ids, NEW n \in DOMAIN wire', Tells(n, x)',
             \A m \in DOMAIN wire' : m > n => ~Tells(m, x)'
      PROVE  Honest(wire[n], x)' \/ Untold(x)'
  <2>1. n \in DOMAIN wire /\ Tells(n, x) /\ wire[n] # Resync /\ wire[n].id = x /\ wire[n].kind # "other"
    BY <1>2, <1>3, <1>5 DEF Tells
  <2>2. CASE x \in Unheard(u)
    BY <1>1, <1>2, <2>1, <2>2 DEF Honest, Stale
  <2>3. CASE x \notin Unheard(u)
    <3>1. Honest(wire[n], x) \/ Untold(x)
      BY <1>2, <1>3, <1>5, <2>1 DEF Inv, WireTells
    <3> QED
      BY <1>1, <1>2, <1>4, <2>1, <2>3, <3>1 DEF Honest
  <2> QED
    BY <2>2, <2>3
<1>6. WireTells'
  BY <1>5 DEF WireTells
<1>7. Reloading' <=> Reloading
  BY <1>1, <1>2 DEF Reloading
<1>8. \A x : Pending(x)' <=> Pending(x)
  BY <1>2, <1>3 DEF Pending
<1>9. \A x : (ToRender(x)' <=> ToRender(x)) /\ (Arriving(x)' <=> Arriving(x))
  BY <1>1 DEF ToRender, Followed, Arriving, Fetching
<1>10. LatestTells'
  BY <1>1, <1>4, <1>7, <1>8, <1>9 DEF Inv, LatestTells, Honest
<1>11. Settling'
  BY <1>1, <1>4, <1>7, <1>8, <1>9 DEF Inv, Settling
<1> QED
  BY <1>6, <1>10, <1>11

(***************************************************************************)
(* The steps of the socket: what is lost is followed by a generation.      *)
(***************************************************************************)
LEMMA SocketKept ==
  ASSUME Inv, FallBehind \/ Drop \/ Rejoin \/ \E r \in Rooms : ServeJoin(r) \/ ReceiveAck(r)
  PROVE  WireTells' /\ LatestTells' /\ Settling'
<1>1. UNCHANGED << data, unsent, latest, fresh, lists, fetch, shown, excused >>
  BY DEF FallBehind, Drop, Rejoin, ServeJoin, ReceiveAck, server, page, view
<1>2. wire' \in {wire, << >>, << Resync >>}
  BY DEF FallBehind, Drop, Rejoin, ServeJoin, ReceiveAck
<1>3. WireTells'
  <2>1. CASE wire' = wire
    BY <1>1, <2>1 DEF Inv, WireTells, Tells, Honest, Untold, Tell
  <2>2. CASE wire' = << >>
    BY <2>2 DEF WireTells
  <2>3. CASE wire' = << Resync >>
    BY <2>3 DEF WireTells, Tells
  <2> QED
    BY <1>2, <2>1, <2>2, <2>3
<1>4. CASE ~(\E r \in Rooms : ServeJoin(r))
  <2>1. Reloading'
    <3>1. CASE FallBehind
      <4>1. wire' = << Resync >>
        BY <3>1 DEF FallBehind
      <4>2. 1 \in DOMAIN wire' /\ wire'[1] = Resync
        BY <4>1
      <4> QED
        BY <4>2 DEF Reloading
    <3>2. CASE Drop
      BY <3>2 DEF Drop, Reloading
    <3>3. CASE Rejoin
      <4>1. << sock', Source >> \in outstanding'
        BY <3>3, WebAssumption DEF Rejoin
      <4> QED
        BY <4>1 DEF Reloading
    <3>4. ASSUME NEW r \in Rooms, ReceiveAck(r)
          PROVE  Reloading'
      BY <3>4 DEF ReceiveAck, Acknowledge, Reloading
    <3> QED
      BY <1>4, <3>1, <3>2, <3>3, <3>4
  <2> QED
    BY <1>3, <2>1 DEF LatestTells, Settling
<1>5. ASSUME NEW r \in Rooms, ServeJoin(r)
      PROVE  LatestTells' /\ Settling'
  <2>1. UNCHANGED << up, wire, outstanding, bumped >>
    BY <1>5 DEF ServeJoin, page
  <2>2. Reloading' <=> Reloading
    BY <2>1 DEF Reloading
  <2>3. \A x \in Ids : (Pending(x)' <=> Pending(x)) /\ (ToRender(x)' <=> ToRender(x)) /\ (Arriving(x)' <=> Arriving(x))
    BY <1>1, <2>1 DEF Pending, Tells, ToRender, Followed, Arriving, Fetching
  <2>4. \A x \in Ids : (Untold(x)' <=> Untold(x)) /\ (Honest(latest, x)' <=> Honest(latest, x))
    BY <1>1 DEF Untold, Tell, Honest
  <2> QED
    BY <1>1, <2>2, <2>3, <2>4 DEF Inv, LatestTells, Settling
<1> QED
  BY <1>3, <1>4, <1>5

(***************************************************************************)
(* A frame that arrives: those behind it tell what they told.              *)
(***************************************************************************)
LEMMA TailTells ==
  ASSUME Shape, WireTells, wire # << >>, wire' = Tail(wire), data' = data, unsent' = unsent
  PROVE  /\ WireTells'
         /\ \A x : Pending(x)' => Pending(x)
         /\ \A x : Pending(x) => Pending(x)' \/ Tells(1, x)
         /\ \A x : ~Pending(x)' => \A m \in DOMAIN wire : m > 1 => ~Tells(m, x)
<1>1. /\ \A n \in DOMAIN wire' : n + 1 \in DOMAIN wire /\ wire'[n] = wire[n + 1]
      /\ \A n \in DOMAIN wire : n # 1 => n - 1 \in DOMAIN wire' /\ wire'[n - 1] = wire[n]
      /\ DOMAIN wire \subseteq Nat \ {0} /\ DOMAIN wire' \subseteq Nat \ {0}
  BY TailIs
<1>2. \A x : \A n \in DOMAIN wire' : Tells(n, x)' <=> Tells(n + 1, x)
  BY <1>1 DEF Tells
<1>3. \A x : \A m \in DOMAIN wire : m # 1 /\ Tells(m, x) => m - 1 \in DOMAIN wire' /\ Tells(m - 1, x)'
  BY <1>1 DEF Tells
<1>4. ASSUME NEW x \in Ids, NEW n \in DOMAIN wire', Tells(n, x)',
             \A m \in DOMAIN wire' : m > n => ~Tells(m, x)'
      PROVE  Honest(wire[n], x)' \/ Untold(x)'
  <2>1. n + 1 \in DOMAIN wire /\ Tells(n + 1, x) /\ wire'[n] = wire[n + 1] /\ n \in Nat \ {0}
    BY <1>1, <1>2, <1>4
  <2>2. ASSUME NEW m \in DOMAIN wire, m > n + 1, Tells(m, x)
        PROVE  FALSE
    <3>1. m \in Nat /\ m # 1 /\ m - 1 > n
      BY <1>1, <2>1, <2>2
    <3>2. m - 1 \in DOMAIN wire' /\ Tells(m - 1, x)'
      BY <1>3, <2>2, <3>1
    <3> QED
      BY <1>4, <3>1, <3>2
  <2>3. Honest(wire[n + 1], x) \/ Untold(x)
    BY <2>1, <2>2 DEF WireTells
  <2> QED
    BY <2>1, <2>3 DEF Honest, Untold, Tell
<1>5. WireTells'
  BY <1>4 DEF WireTells
<1>6. ASSUME NEW x, Pending(x)'
      PROVE  Pending(x)
  <2>1. PICK n \in DOMAIN wire' : Tells(n, x)'
    BY <1>6 DEF Pending
  <2>2. n + 1 \in DOMAIN wire /\ Tells(n + 1, x)
    BY <1>1, <1>2, <2>1
  <2> QED
    BY <2>2 DEF Pending
<1>7. ASSUME NEW x, NEW m \in DOMAIN wire, m # 1, Tells(m, x)
      PROVE  Pending(x)'
  BY <1>3, <1>7 DEF Pending
<1>8. \A x : Pending(x) => Pending(x)' \/ Tells(1, x)
  BY <1>7 DEF Pending
<1>9. \A x : ~Pending(x)' => \A m \in DOMAIN wire : m > 1 => ~Tells(m, x)
  <2>1. \A m \in DOMAIN wire : m > 1 => m # 1
    BY <1>1
  <2> QED
    BY <1>7, <2>1
<1> QED
  BY <1>5, <1>6, <1>8, <1>9

(***************************************************************************)
(* A frame received: an event waits to be rendered, and takes the place of *)
(* the one that did.                                                       *)
(***************************************************************************)
LEMMA ReceiveKept ==
  ASSUME Inv, ReceiveResync \/ ReceiveEvent
  PROVE  WireTells' /\ LatestTells' /\ Settling'
<1>1. /\ wire # << >> /\ wire' = Tail(wire)
      /\ UNCHANGED << data, unsent, up, outstanding, lists, fetch, shown >>
  BY DEF ReceiveResync, ReceiveEvent, server, view
<1>2. /\ WireTells'
      /\ \A x : Pending(x)' => Pending(x)
      /\ \A x : Pending(x) => Pending(x)' \/ Tells(1, x)
      /\ \A x : ~Pending(x)' => \A m \in DOMAIN wire : m > 1 => ~Tells(m, x)
  BY <1>1, TailTells DEF Inv
<1>3. CASE ReceiveResync
  <2>1. Reloading'
    BY <1>3 DEF ReceiveResync, Reloading
  <2> QED
    BY <1>2, <2>1 DEF LatestTells, Settling
<1>4. CASE ReceiveEvent
  <2>1. /\ wire[1] # Resync /\ 1 \in DOMAIN wire
        /\ latest' = wire[1] /\ fresh' = TRUE /\ bumped' = bumped
        /\ excused' = excused \cup {e.id : e \in {x \in {latest} : fresh /\ Followed(x)}}
                              \cup {e.id : e \in {x \in {latest'} : x.kind = "reordered"}}
    BY <1>1, <1>4, TailIs DEF ReceiveEvent, Inv
  <2>2. latest' \in Events
    BY <1>1, <2>1, TailIs DEF Inv
  <2>3. ~Reloading' => ~Reloading
    <3>1. \A n \in DOMAIN wire : n # 1 => n - 1 \in DOMAIN wire' /\ wire'[n - 1] = wire[n]
      BY <1>1, TailIs DEF Inv
    <3>2. (\E n \in DOMAIN wire : wire[n] = Resync) => \E n \in DOMAIN wire' : wire'[n] = Resync
      BY <2>1, <3>1
    <3> QED
      BY <1>1, <2>1, <3>2 DEF Reloading
  <2>4. \A x : Tells(1, x) <=> latest'.id = x /\ latest'.kind # "other"
    BY <2>1 DEF Tells
  <2>5. \A x : ToRender(x)' => Tells(1, x)
    BY <2>4 DEF ToRender, Followed
  <2>6. ASSUME NEW x \in Ids, ToRender(x)', ~Pending(x)', ~Untold(x)'
        PROVE  Honest(latest, x)'
    <3>1. Tells(1, x) /\ \A m \in DOMAIN wire : m > 1 => ~Tells(m, x)
      BY <1>2, <2>5, <2>6
    <3>2. ~Untold(x)
      BY <1>1, <2>6 DEF Untold, Tell
    <3>3. Honest(wire[1], x)
      BY <2>1, <3>1, <3>2 DEF Inv, WireTells
    <3> QED
      BY <1>1, <2>1, <3>3 DEF Honest
  <2>7. LatestTells'
    BY <2>6 DEF LatestTells
  <2>8. ASSUME NEW x \in Ids \ excused', ~Reloading', ~Untold(x)', ~Pending(x)', ~ToRender(x)'
        PROVE  Arriving(x)'
    <3>1. x \in Ids \ excused /\ ~Reloading
      BY <2>1, <2>3, <2>8
    <3>2. ~Tells(1, x)
      <4>1. latest'.id = x => latest'.kind # "reordered"
        BY <2>1, <2>8
      <4>2. latest'.kind \in {"changed", "deleted", "reordered", "other"}
        BY <2>2 DEF Events, Kinds
      <4>3. ~(latest'.id = x /\ latest'.kind \in {"changed", "deleted"})
        BY <2>1, <2>8 DEF ToRender, Followed
      <4> QED
        BY <2>4, <4>1, <4>2, <4>3
    <3>3. ~Pending(x)
      BY <1>2, <2>8, <3>2
    <3>4. ~ToRender(x)
      BY <2>1, <2>8 DEF ToRender
    <3>5. Arriving(x)
      BY <1>1, <2>8, <3>1, <3>3, <3>4 DEF Inv, Settling, Untold, Tell
    <3> QED
      BY <1>1, <3>5 DEF Arriving, Fetching
  <2>9. Settling'
    BY <2>8 DEF Settling
  <2> QED
    BY <1>2, <2>7, <2>9
<1> QED
  BY <1>3, <1>4

(***************************************************************************)
(* Steps that leave the server, the socket and the page's events alone     *)
(* have only what is arriving to keep.                                     *)
(***************************************************************************)
LEMMA ViewKept ==
  ASSUME Inv, UNCHANGED << server, socket, outstanding, page >>,
         \A x \in Ids \ excused' : x \notin excused /\ (Arriving(x) => Arriving(x)')
  PROVE  WireTells' /\ LatestTells' /\ Settling'
<1>1. UNCHANGED << data, unsent, wire, up, outstanding, bumped, latest, fresh >>
  BY DEF server, socket, page
<1>2. Reloading' <=> Reloading
  BY <1>1 DEF Reloading
<1>3. \A x : (Pending(x)' <=> Pending(x)) /\ (ToRender(x)' <=> ToRender(x)) /\ (Untold(x)' <=> Untold(x))
  BY <1>1 DEF Pending, Tells, ToRender, Followed, Untold, Tell
<1>4. WireTells'
  BY <1>1, <1>3 DEF Inv, WireTells, Tells, Honest
<1>5. LatestTells'
  BY <1>1, <1>2, <1>3 DEF Inv, LatestTells, Honest
<1>6. Settling'
  BY <1>2, <1>3 DEF Inv, Settling
<1> QED
  BY <1>4, <1>5, <1>6

(***************************************************************************)
(* The request for the list: what is answered is what is stored then, and  *)
(* later writes are pending.                                               *)
(***************************************************************************)
LEMMA ListKept ==
  ASSUME Inv, NEW n \in DOMAIN lists, ServeList(n) \/ ReceiveList(n) \/ FailList(n)
  PROVE  WireTells' /\ LatestTells' /\ Settling'
<1>1. UNCHANGED << hook, server, socket, outstanding, page, fetch >>
  BY DEF ServeList, ReceiveList, FailList
<1>2. Without(n) = << >> /\ DOMAIN lists = {1} /\ n = 1
  BY WithoutIsEmpty DEF Inv, Shape
<1>3. data' = data
  BY <1>1 DEF server
<1>4. ASSUME NEW x \in Ids \ excused'
      PROVE  x \notin excused /\ (Arriving(x) => Arriving(x)')
  <2>1. CASE ServeList(n)
    <3>1. PICK listed :
            /\ lists' = [lists EXCEPT ![n] = [id \in Ids |-> IF id \in listed THEN data[id] ELSE Absent]]
            /\ excused' = excused \cup (Stored \ listed) /\ shown' = shown
      BY <2>1 DEF ServeList
    <3>2. DOMAIN lists' = {1} /\ lists'[1] = [id \in Ids |-> IF id \in listed THEN data[id] ELSE Absent]
      BY <1>2, <3>1
    <3>5. lists'[1][x] = data[x]
      BY <1>4, <3>1, <3>2 DEF Stored
    <3>3. lists' # << >>
      BY <3>2
    <3>4. Arriving(x) => Arriving(x)'
      BY <1>1, <1>3, <3>1, <3>2, <3>3, <3>5 DEF Arriving, Fetching
    <3> QED
      BY <1>4, <3>1, <3>4
  <2>2. CASE ReceiveList(n)
    <3>1. lists[1] # None /\ shown' = lists[1] /\ lists' = << >> /\ UNCHANGED excused
      BY <1>2, <2>2 DEF ReceiveList
    <3>2. Arriving(x) => shown'[x] = data'[x]
      BY <1>2, <1>3, <3>1 DEF Arriving
    <3>3. Arriving(x) => Arriving(x)'
      BY <1>1, <1>3, <3>1, <3>2 DEF Arriving, Fetching
    <3> QED
      BY <1>4, <3>1, <3>3
  <2>3. CASE FailList(n)
    BY <1>4, <2>3 DEF FailList
  <2> QED
    BY <2>1, <2>2, <2>3
<1> QED
  BY <1>1, <1>4, ViewKept

(***************************************************************************)
(* The request for an item: so is the item that is answered.               *)
(***************************************************************************)
LEMMA ItemKept ==
  ASSUME Inv, ServeItem \/ ReceiveItem \/ FailItem
  PROVE  WireTells' /\ LatestTells' /\ Settling'
<1>1. UNCHANGED << hook, server, socket, outstanding, page, lists >>
  BY DEF ServeItem, ReceiveItem, FailItem
<1>2. fetch # None /\ fetch \in Fetches
  BY DEF ServeItem, ReceiveItem, FailItem, Inv, Shape, TypeOK
<1>3. data' = data /\ shown \in Lists /\ lists' = lists
  BY <1>1 DEF server, Inv, Shape, TypeOK
<1>4. ASSUME NEW x \in Ids \ excused'
      PROVE  x \notin excused /\ (Arriving(x) => Arriving(x)')
  <2>1. CASE ServeItem
    <3>1. fetch' = [fetch EXCEPT !.got = data[fetch.id]] /\ UNCHANGED << shown, excused >>
      BY <2>1 DEF ServeItem
    <3>2. fetch'.id = fetch.id /\ fetch'.got = data[fetch.id] /\ fetch' \in Fetches
      <4>1. data[fetch.id] \in Values \cup {Absent}
        BY <1>2 DEF Inv, Shape, TypeOK, Lists, Fetches
      <4> QED
        BY <1>2, <3>1, <4>1 DEF Fetches
    <3>3. fetch' # None
      BY <3>2, WebAssumption
    <3>4. Fetching(x)' <=> Fetching(x)
      BY <1>2, <3>2, <3>3 DEF Fetching
    <3>5. Fetching(x)' => fetch'.got = data'[x]
      BY <1>3, <3>2 DEF Fetching
    <3>6. Arriving(x) => Arriving(x)'
      BY <1>3, <3>1, <3>4, <3>5 DEF Arriving
    <3> QED
      BY <1>4, <3>1, <3>6
  <2>2. CASE ReceiveItem
    <3>1. /\ fetch.got # None /\ fetch' = None
          /\ shown' = IF fetch.got = Absent THEN shown ELSE [shown EXCEPT ![fetch.id] = fetch.got]
          /\ excused' = IF Overwriting(lists) THEN excused \cup {fetch.id} ELSE excused
      BY <2>2 DEF ReceiveItem
    <3>2. ASSUME Arriving(x)
          PROVE  lists = << >> => shown'[x] = data'[x]
      <4>1. CASE x = fetch.id
        <5>1. fetch.got = data[x]
          BY <1>2, <3>1, <3>2, <4>1 DEF Arriving, Fetching
        <5>2. CASE fetch.got = Absent
          BY <1>3, <3>1, <3>2, <5>1, <5>2 DEF Arriving
        <5>3. CASE fetch.got # Absent
          <6>1. shown' = [shown EXCEPT ![x] = data[x]]
            BY <3>1, <4>1, <5>1, <5>3
          <6> QED
            BY <1>3, <6>1 DEF Lists
        <5> QED
          BY <5>2, <5>3
      <4>2. CASE x # fetch.id
        <5>1. shown'[x] = shown[x]
          BY <1>3, <3>1, <4>2 DEF Lists
        <5> QED
          BY <1>3, <3>2, <4>2, <5>1 DEF Arriving, Fetching
      <4> QED
        BY <4>1, <4>2
    <3>3. Arriving(x) => Arriving(x)'
      BY <1>3, <3>1, <3>2 DEF Arriving, Fetching
    <3> QED
      BY <1>4, <3>1, <3>3
  <2>3. CASE FailItem
    <3>1. fetch' = None /\ excused' = excused \cup {fetch.id} /\ shown' = shown
      BY <2>3 DEF FailItem
    <3>2. ~Fetching(x)
      BY <1>4, <3>1 DEF Fetching
    <3> QED
      BY <1>3, <1>4, <3>1, <3>2 DEF Arriving, Fetching
  <2> QED
    BY <2>1, <2>2, <2>3
<1> QED
  BY <1>1, <1>4, ViewKept

(***************************************************************************)
(* A render: the event that waited is shown, or its item asked for, and a  *)
(* new generation starts from the list.                                    *)
(***************************************************************************)
LEMMA RenderKept ==
  ASSUME Inv, Render
  PROVE  WireTells' /\ LatestTells' /\ Settling'
<1>1. PICK acts : acts = (fresh /\ Followed(latest))
  OBVIOUS
<1>2. /\ bumped' = FALSE /\ fresh' = FALSE
      /\ UNCHANGED << hook, server, socket, outstanding, latest >>
      /\ fresh => latest \in Events /\ Meant(latest)
      /\ bumped => lists' = << None >>
      /\ ~bumped => lists' = lists /\ fresh
      /\ hook # "tracker" \/ ~fresh => fetch' = fetch
      /\ hook = "tracker" /\ fresh /\ acts /\ latest.kind = "changed" =>
           fetch' = [id |-> latest.id, got |-> None]
      /\ hook = "tracker" /\ fresh /\ ~(acts /\ latest.kind = "changed") => fetch' = None
      /\ ~bumped /\ ~(acts /\ (latest.kind = "deleted" \/ hook # "tracker")) => shown' = shown
      /\ ~bumped /\ acts /\ (latest.kind = "deleted" \/ hook # "tracker") =>
           shown' = [shown EXCEPT ![latest.id] = latest.value]
      /\ ~bumped => excused \subseteq excused'
      /\ ~(fresh /\ bumped) /\ fetch # None => fetch.id \in excused'
      /\ acts /\ (Overwriting(lists') \/ (latest.late /\ lists' = << >>)) => latest.id \in excused'
  BY <1>1, RenderIs DEF Inv
<1>3. UNCHANGED << data, unsent, wire, up >> /\ shown \in Lists
  BY <1>2 DEF server, socket, Inv, Shape, TypeOK
<1>4. WireTells'
  BY <1>3 DEF Inv, WireTells, Tells, Honest, Untold, Tell
<1>5. LatestTells'
  BY <1>2 DEF LatestTells, ToRender
<1>6. hook # "tracker" => fetch = None /\ fetch' = None
  BY <1>2 DEF Inv, Shape, Meaning
<1>7. \A x : (Pending(x)' <=> Pending(x)) /\ (Untold(x)' <=> Untold(x))
  BY <1>3 DEF Pending, Tells, Untold, Tell
<1>8. ASSUME bumped, NEW x \in Ids \ excused'
      PROVE  Arriving(x)'
  <2>1. DOMAIN lists' = {1} /\ lists'[1] = None /\ lists' # << >>
    BY <1>2, <1>8
  <2>2. Fetching(x)' => fetch'.got = None
    <3>1. CASE ~fresh
      BY <1>2, <1>8, <3>1 DEF Fetching
    <3>2. CASE fresh
      BY <1>2, <1>6, <3>2 DEF Fetching
    <3> QED
      BY <3>1, <3>2
  <2> QED
    BY <2>1, <2>2 DEF Arriving
<1>9. ASSUME ~bumped, ~Reloading', NEW x \in Ids \ excused', ~Pending(x)', ~Untold(x)'
      PROVE  Arriving(x)'
  <2>1. x \in Ids \ excused /\ ~Pending(x) /\ ~Untold(x) /\ lists' = lists /\ fresh
    BY <1>2, <1>7, <1>9
  <2>2. ~Reloading
    BY <1>2, <1>3, <1>9 DEF Reloading
  <2>3. ~Fetching(x)
    BY <1>2, <1>9 DEF Fetching
  <2>4. CASE ToRender(x)
    <3>1. latest.id = x /\ Honest(latest, x) /\ acts /\ latest.kind \in {"changed", "deleted"}
      BY <1>1, <2>1, <2>2, <2>4 DEF Inv, LatestTells, ToRender, Followed
    <3>2. \A n \in DOMAIN lists' : lists'[n] = None
      BY <1>2, <1>9, <3>1 DEF Overwriting
    <3>5. CASE latest.value # data[x]
      <4>1. lists' # << >>
        BY <1>2, <1>9, <3>1, <3>5 DEF Honest
      <4>2. Fetching(x)' => fetch'.got = None
        BY <1>2, <1>6, <2>1, <3>1 DEF Fetching
      <4> QED
        BY <3>2, <4>1, <4>2 DEF Arriving
    <3>3. CASE latest.value = data[x] /\ (latest.kind = "deleted" \/ hook # "tracker")
      <4>1. shown' = [shown EXCEPT ![x] = data[x]]
        BY <1>2, <1>9, <3>1, <3>3
      <4>2. shown'[x] = data'[x]
        BY <1>3, <4>1 DEF Lists
      <4>3. fetch' = None
        BY <1>2, <1>6, <2>1, <3>3
      <4> QED
        BY <3>2, <4>2, <4>3 DEF Arriving, Fetching
    <3>4. CASE latest.value = data[x] /\ latest.kind = "changed" /\ hook = "tracker"
      <4>1. fetch' = [id |-> x, got |-> None]
        BY <1>2, <2>1, <3>1, <3>4
      <4>2. data[x] # Absent
        BY <1>2, <2>1, <3>1, <3>4, WebAssumption DEF Meant
      <4>3. fetch' # None
        <5>1. fetch' \in Fetches
          BY <4>1 DEF Fetches
        <5> QED
          BY <5>1, WebAssumption
      <4>4. Fetching(x)' /\ fetch'.got = None
        BY <4>1, <4>3 DEF Fetching
      <4> QED
        BY <1>3, <3>2, <4>2, <4>4 DEF Arriving
    <3> QED
      BY <3>1, <3>3, <3>4, <3>5
  <2>5. CASE ~ToRender(x)
    <3>1. Arriving(x)
      BY <2>1, <2>2, <2>5 DEF Inv, Settling
    <3>2. acts => latest.id # x
      BY <1>1, <2>5 DEF ToRender
    <3>3. shown'[x] = shown[x]
      BY <1>2, <1>3, <1>9, <3>2 DEF Lists
    <3>4. ~Fetching(x)'
      BY <1>2, <1>6, <2>1, <3>2 DEF Fetching
    <3> QED
      BY <1>3, <2>1, <2>3, <3>1, <3>3, <3>4 DEF Arriving
  <2> QED
    BY <2>4, <2>5
<1>10. Settling'
  BY <1>8, <1>9 DEF Settling
<1> QED
  BY <1>4, <1>5, <1>10

----------------------------------------------------------------------------
(***************************************************************************)
(* The inductive invariant holds at the start: no socket is open yet.      *)
(***************************************************************************)
LEMMA AtStart == Init => Inv
<1> SUFFICES ASSUME Init
             PROVE  Inv
  OBVIOUS
<1>1. Shape
  BY ShapeAtStart
<1>2. WireTells
  BY DEF Init, WireTells
<1>3. Reloading
  BY DEF Init, Reloading
<1> QED
  BY <1>1, <1>2, <1>3 DEF Inv, LatestTells, Settling

(***************************************************************************)
(* Every step keeps it.                                                    *)
(***************************************************************************)
LEMMA EachStepKeeps == Inv /\ [Next]_vars => Inv'
<1> SUFFICES ASSUME Inv, [Next]_vars
             PROVE  Inv'
  OBVIOUS
<1>1. Shape'
  BY ShapeKept DEF Inv
<1>2. ASSUME UNCHANGED vars
      PROVE  WireTells' /\ LatestTells' /\ Settling'
  <2>1. UNCHANGED << server, socket, outstanding, page, view >> /\ data' = data
    BY <1>2 DEF vars, server
  <2>2. \A x \in Ids \ excused' : x \notin excused /\ (Arriving(x) => Arriving(x)')
    BY <2>1 DEF view, Arriving, Fetching
  <2> QED
    BY <2>1, <2>2, ViewKept
<1>3. ASSUME Next
      PROVE  WireTells' /\ LatestTells' /\ Settling'
  BY <1>3, ChangeKept, AnnounceKept, LoseKept, SocketKept, ReceiveKept, ListKept, ItemKept, RenderKept DEF Next, Settle
<1> QED
  BY <1>1, <1>2, <1>3 DEF Inv

(***************************************************************************)
(* It holds throughout.                                                    *)
(***************************************************************************)
LEMMA Holds == Spec => []Inv
<1> QED
  BY AtStart, EachStepKeeps, PTL DEF Spec

(***************************************************************************)
(* The state keeps its shape: what a socket has been asked for and has     *)
(* not processed is awaited by the page (membership.ts), at most one       *)
(* request for the list is listened to and at most one for an item.        *)
(***************************************************************************)
THEOREM PageTypeCorrect == Spec => []TypeOK
<1>1. Inv => TypeOK
  BY DEF Inv, Shape
<1> QED
  BY <1>1, Holds, PTL

(***************************************************************************)
(* At rest the page shows what is stored, but for what its hooks are known *)
(* not to keep current (useRealtime.ts, useTracker.ts, useProjects.ts), for*)
(* what is beyond the first page of a tracker's items, and for what the    *)
(* server announced out of order, or not at all: after any number of       *)
(* drops, resyncs, failures and writes.                                    *)
(***************************************************************************)
THEOREM ShownIsCurrent == Spec => []Current
<1>1. ASSUME Inv, Quiet, NEW x \in Ids \ excused
      PROVE  shown[x] = data[x]
  <2>1. ~Reloading
    BY <1>1 DEF Quiet, Reloading
  <2>2. ~Untold(x) /\ ~Pending(x) /\ ~ToRender(x) /\ ~Fetching(x) /\ lists = << >>
    BY <1>1 DEF Quiet, Untold, Tell, Pending, ToRender, Fetching
  <2>3. Arriving(x)
    BY <1>1, <2>1, <2>2 DEF Inv, Settling
  <2> QED
    BY <2>2, <2>3 DEF Arriving
<1>2. Inv => Current
  BY <1>1 DEF Current
<1> QED
  BY <1>2, Holds, PTL
=============================================================================
