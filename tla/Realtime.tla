------------------------------ MODULE Realtime ------------------------------
(***************************************************************************)
(* How a notification reaches the clients of one process: the bus with its *)
(* bounded backlog for the hub (src/services/api/internal/bus/memory.go),  *)
(* the hub's single pump, and each connection's membership and bounded     *)
(* outbound queue (realtime/hub.go, conn.go), written out by the           *)
(* goroutine that serves its socket (realtimews/handler.go).               *)
(*                                                                         *)
(* A step is what happens under one acquisition of one lock, or one        *)
(* operation on a channel.  Publishers, the pump, and per connection the   *)
(* goroutine that reads frames and the one that writes them interleave     *)
(* freely; both queues can be full.                                        *)
(***************************************************************************)
EXTENDS Integers, Sequences, FiniteSets

CONSTANTS
  Conns,      \* connections; one is never used again after it is closed
  Rooms,
  RoomLists,  \* the lists of rooms that messages are published to
  Backlog,    \* bus: how far the hub may fall behind
  Outbound,   \* how far a connection may fall behind
  Resync,     \* the entry of a queue that tells a client to fetch again
  NoJob,      \* the pump is between two messages
  NoConn,     \* the pump is between two connections
  MaxSeq      \* bound of the model: messages published in one behaviour

ASSUME RealtimeAssumption ==
  /\ RoomLists \subseteq Seq(Rooms) \ {<< >>}
  /\ Backlog \in Nat \ {0} /\ Outbound \in Nat \ {0}
  /\ MaxSeq \in Nat
  /\ Resync \notin Nat
  /\ NoJob \notin [seq : Nat, rooms : Seq(Rooms)]
  /\ NoConn \notin [conn : Conns, step : {"joined", "lock", "send", "drain"}, room : Nat]

VARIABLES
  seq,      \* bus: the number of the last message published
  backlog,  \* bus: what waits for the hub
  dropped,  \* messages the backlog had no room for, and none came after
  last,     \* hub: the number of the last message it took
  begun,    \* hub: whether it has taken one
  job,      \* pump: the message it dispatches
  gap,      \* pump: whether messages before it are missing
  left,     \* pump: the connections it has not visited yet
  at,       \* pump: the connection it visits, and how far it has got
  life,     \* connection: new, open, closed, forgotten by the hub, ended
  rooms,    \* connection: the rooms it has joined
  out,      \* connection: its queue
  due       \* what each client has to hear of: (room, message), see Publish

bus  == << seq, backlog, dropped >>
hub  == << last, begun >>
pump == << job, gap, left, at >>
conn == << life, rooms, out >>
vars == << bus, hub, pump, conn, due >>

Messages == [seq : Nat, rooms : Seq(Rooms) \ {<< >>}]
Visits   == [conn : Conns, step : {"joined", "lock", "send", "drain"}, room : Nat]

Entries(c)   == {out[c][n] : n \in DOMAIN out[c]}
Visiting(c)  == at # NoConn /\ at.conn = c

\* Messages may have been published before the hub subscribed.
Init ==
  /\ seq \in 0 .. 1 /\ backlog = << >> /\ dropped = {}
  /\ last = 0 /\ begun = FALSE
  /\ job = NoJob /\ gap = FALSE /\ left = {} /\ at = NoConn
  /\ life = [c \in Conns |-> "new"]
  /\ rooms = [c \in Conns |-> {}]
  /\ out = [c \in Conns |-> << >>]
  /\ due = [c \in Conns |-> {}]

----------------------------------------------------------------------------
\* A client that has joined a room fetches what is in it and from then on
\* has to hear of every message published to it, or be told to fetch again.
Owed(list) ==
  [c \in Conns |->
     IF life[c] # "open" THEN {}
     ELSE due[c] \cup {<< list[n], seq' >> : n \in {m \in DOMAIN list : list[m] \in rooms[c]}}]

\* A fault for the checks: a subscriber's backlog is not bounded.
FaultyPublish(list) ==
  /\ seq < MaxSeq
  /\ seq' = seq + 1
  /\ backlog' = Append(backlog, [seq |-> seq', rooms |-> list]) /\ dropped' = {}
  /\ due' = Owed(list)
  /\ UNCHANGED << hub, pump, conn >>

\* A subscriber that is too far behind misses the message; the bus goes on.
\* Only a later message that is queued makes the gap visible.
Publish(list) ==
  /\ seq < MaxSeq
  /\ seq' = seq + 1
  /\ IF Len(backlog) < Backlog
     THEN backlog' = Append(backlog, [seq |-> seq', rooms |-> list]) /\ dropped' = {}
     ELSE dropped' = dropped \cup {seq'} /\ UNCHANGED backlog
  /\ due' = Owed(list)
  /\ UNCHANGED << hub, pump, conn >>

----------------------------------------------------------------------------
\* dispatch under the hub's lock: is there a gap, and who is connected.
Take ==
  /\ job = NoJob /\ backlog # << >>
  /\ job' = Head(backlog)
  /\ gap' = (begun /\ job'.seq > last + 1)
  /\ begun' = TRUE /\ last' = job'.seq
  /\ backlog' = Tail(backlog)
  /\ left' = {c \in Conns : life[c] \in {"open", "closed"}}
  /\ UNCHANGED << seq, dropped, at, conn, due >>

\* The next connection of the snapshot: told to resync when there is a gap,
\* asked for the first room of the message otherwise.
Visit(c) ==
  /\ job # NoJob /\ at = NoConn /\ c \in left
  /\ left' = left \ {c}
  /\ at' = [conn |-> c, step |-> IF gap THEN "lock" ELSE "joined", room |-> 1]
  /\ UNCHANGED << bus, hub, job, gap, conn, due >>

Dispatched ==
  /\ job # NoJob /\ at = NoConn /\ left = {}
  /\ job' = NoJob
  /\ UNCHANGED << bus, hub, gap, left, at, conn, due >>

VisitAt(step) == at # NoConn /\ at.step = step

At(step, room) == [conn |-> at.conn, step |-> step, room |-> room]

\* A fault for the checks: the room asked for is never advanced.
FaultyJoined ==
  /\ VisitAt("joined")
  /\ at' = IF job.rooms[at.room] \in rooms[at.conn] THEN At("lock", at.room)
           ELSE IF at.room < Len(job.rooms) THEN At("joined", at.room)
           ELSE NoConn
  /\ UNCHANGED << bus, hub, job, gap, left, conn, due >>

\* joined takes and releases the connection's lock once for every room.
Joined ==
  /\ VisitAt("joined")
  /\ at' = IF job.rooms[at.room] \in rooms[at.conn] THEN At("lock", at.room)
           ELSE IF at.room < Len(job.rooms) THEN At("joined", at.room + 1)
           ELSE NoConn
  /\ UNCHANGED << bus, hub, job, gap, left, conn, due >>

\* A fault for the checks: a connection that has been closed is not noticed.
FaultyLock ==
  /\ VisitAt("lock")
  /\ at' = At(IF gap THEN "drain" ELSE "send", at.room)
  /\ UNCHANGED << bus, hub, job, gap, left, conn, due >>

\* deliver and resync hold the connection's read lock from here to the end,
\* and do nothing when it has been closed.
Lock ==
  /\ VisitAt("lock")
  /\ at' = IF life[at.conn] = "open"
           THEN At(IF gap THEN "drain" ELSE "send", at.room) ELSE NoConn
  /\ UNCHANGED << bus, hub, job, gap, left, conn, due >>

\* A fault for the checks: a message that does not fit is dropped.
FaultySend ==
  /\ VisitAt("send")
  /\ out' = IF Len(out[at.conn]) < Outbound
            THEN [out EXCEPT ![at.conn] = Append(@, job.seq)] ELSE out
  /\ at' = NoConn
  /\ UNCHANGED << bus, hub, job, gap, left, life, rooms, due >>

Send ==
  /\ VisitAt("send")
  /\ IF Len(out[at.conn]) < Outbound
     THEN out' = [out EXCEPT ![at.conn] = Append(@, job.seq)] /\ at' = NoConn
     ELSE at' = At("drain", at.room) /\ UNCHANGED out
  /\ UNCHANGED << bus, hub, job, gap, left, life, rooms, due >>

\* A fault for the checks: the queue is left as it is, and a resync that
\* does not fit is dropped.
FaultyDrain ==
  /\ VisitAt("drain")
  /\ out' = IF Len(out[at.conn]) < Outbound
            THEN [out EXCEPT ![at.conn] = Append(@, Resync)] ELSE out
  /\ at' = NoConn
  /\ UNCHANGED << bus, hub, job, gap, left, life, rooms, due >>

\* pushResync: entry by entry, while the socket's writer takes entries too,
\* and when the queue is found empty a single resync.
Drain ==
  /\ VisitAt("drain")
  /\ IF out[at.conn] # << >>
     THEN out' = [out EXCEPT ![at.conn] = Tail(@)] /\ UNCHANGED at
     ELSE out' = [out EXCEPT ![at.conn] = << Resync >>] /\ at' = NoConn
  /\ UNCHANGED << bus, hub, job, gap, left, life, rooms, due >>

----------------------------------------------------------------------------
Connect(c) ==
  /\ life[c] = "new"
  /\ life' = [life EXCEPT ![c] = "open"]
  /\ UNCHANGED << bus, hub, pump, rooms, out, due >>

\* The pump holds the connection's read lock: its writers wait.
Locked(c) == Visiting(c) /\ at.step \in {"send", "drain"}

Join(c, r) ==
  /\ life[c] = "open" /\ ~Locked(c)
  /\ rooms' = [rooms EXCEPT ![c] = @ \cup {r}]
  /\ UNCHANGED << bus, hub, pump, life, out, due >>

Leave(c, r) ==
  /\ life[c] = "open" /\ ~Locked(c)
  /\ rooms' = [rooms EXCEPT ![c] = @ \ {r}]
  /\ due' = [due EXCEPT ![c] = {d \in @ : d[1] # r}]
  /\ UNCHANGED << bus, hub, pump, life, out >>

\* The writer takes an entry and sends it.  A client told to resync fetches
\* everything it shows after this, so nothing published so far is due.
Write(c) ==
  /\ life[c] = "open" /\ out[c] # << >>
  /\ out' = [out EXCEPT ![c] = Tail(@)]
  /\ due' = [due EXCEPT ![c] = {d \in @ : Head(out[c]) # Resync /\ d[2] # Head(out[c])}]
  /\ UNCHANGED << bus, hub, pump, life, rooms >>

\* The socket is gone, or its ping went unanswered: the writer's loop ends
\* and Close runs, in three steps.  Nothing is due to a client without one.
Close(c) ==
  /\ life[c] = "open" /\ ~Locked(c)
  /\ life' = [life EXCEPT ![c] = "closed"]
  /\ due' = [due EXCEPT ![c] = {}]
  /\ UNCHANGED << bus, hub, pump, rooms, out >>

Forget(c) ==
  /\ life[c] = "closed"
  /\ life' = [life EXCEPT ![c] = "forgotten"]
  /\ UNCHANGED << bus, hub, pump, rooms, out, due >>

End(c) ==
  /\ life[c] = "forgotten"
  /\ life' = [life EXCEPT ![c] = "ended"]
  /\ UNCHANGED << bus, hub, pump, rooms, out, due >>

----------------------------------------------------------------------------
Pump ==
  \/ Take \/ Dispatched
  \/ \E c \in Conns : Visit(c)
  \/ Joined \/ Lock \/ Send \/ Drain

Serve(c) ==
  \/ Connect(c) \/ Write(c)
  \/ \E r \in Rooms : Join(c, r) \/ Leave(c, r)
  \/ Close(c) \/ Forget(c) \/ End(c)

Next ==
  \/ \E list \in RoomLists : Publish(list)
  \/ Pump
  \/ \E c \in Conns : Serve(c)

Spec == Init /\ [][Next]_vars

(***************************************************************************)
(* The pump is one goroutine that only ever waits for a lock held briefly. *)
(* A writer with something to send sends it, or finds its socket dead (a   *)
(* write or a ping fails) and closes.  Nobody has to publish, join or      *)
(* connect.                                                                *)
(***************************************************************************)
Fairness ==
  /\ WF_vars(Pump)
  /\ \A c \in Conns : WF_vars(out[c] # << >> /\ (Write(c) \/ Close(c)))

LiveSpec == Spec /\ Fairness

----------------------------------------------------------------------------
TypeOK ==
  /\ seq \in Nat /\ dropped \subseteq Nat /\ last \in Nat /\ begun \in BOOLEAN
  /\ backlog \in Seq(Messages) /\ Len(backlog) <= Backlog
  /\ job \in Messages \cup {NoJob} /\ gap \in BOOLEAN /\ left \subseteq Conns
  /\ at \in Visits \cup {NoConn}
  /\ VisitAt("joined") => job # NoJob /\ at.room \in DOMAIN job.rooms
  /\ life \in [Conns -> {"new", "open", "closed", "forgotten", "ended"}]
  /\ rooms \in [Conns -> SUBSET Rooms]
  /\ out \in [Conns -> Seq(Nat \cup {Resync})]
  /\ \A c \in Conns : Len(out[c]) <= Outbound
  /\ due \in [Conns -> SUBSET (Rooms \X Nat)]

(***************************************************************************)
(* "Dropping one message silently would leave the client wrong without     *)
(* knowing it" (conn.go).  A message that is due to a client waits for the *)
(* hub, or was dropped and a later one that waits will show the gap, or is *)
(* being dispatched and the client has yet to be visited, or is in the     *)
(* client's queue; or the client is being told, or is going to read, that  *)
(* it has to fetch again.  Except for what was dropped and nothing queued  *)
(* has come after: nothing tells of that until something is published.     *)
(***************************************************************************)
Coming(c, m) ==
  \/ m > last /\ \E n \in DOMAIN backlog : backlog[n].seq >= m
  \/ job # NoJob /\ (m = job.seq \/ gap) /\ (c \in left \/ Visiting(c))
  \/ VisitAt("drain") /\ Visiting(c)
  \/ m \in Entries(c)
  \/ Resync \in Entries(c)

NoSilentLoss == \A c \in Conns : \A d \in due[c] : d[2] \notin dropped => Coming(c, d[2])

(***************************************************************************)
(* A queue is never sent to, nor drained, once it has been closed: the     *)
(* send would panic and the drain would never see the queue empty.         *)
(***************************************************************************)
NeverUsedOnceClosed == \A c \in Conns : Locked(c) => life[c] # "ended"

(***************************************************************************)
(* pushResync "leaves a single resync": nothing superseded is in front of  *)
(* it, there is no second one behind it, and the messages that are queued  *)
(* are in the order of their publication.                                  *)
(***************************************************************************)
QueueShape ==
  \A c \in Conns : \A n \in 2 .. Len(out[c]) :
    /\ out[c][n] # Resync
    /\ out[c][n - 1] # Resync => out[c][n - 1] < out[c][n]

(***************************************************************************)
(* Every client that a message is due to hears of it, fetches again, or is *)
(* gone, if the message was queued for the hub or one after it was.        *)
(***************************************************************************)
IsDue(c, m) == \E d \in due[c] : d[2] = m

Heard == \A c \in Conns : \A m \in 1 .. MaxSeq : IsDue(c, m) /\ m \notin dropped ~> ~IsDue(c, m)
=============================================================================
