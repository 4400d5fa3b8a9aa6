--------------------------- MODULE RealtimeProofs ---------------------------
(***************************************************************************)
(* What Realtime guarantees for any number of connections and rooms and    *)
(* for queues of any length: its state keeps its shape, no queue is used   *)
(* once it is closed, and no client loses a message without being told,    *)
(* but for the last ones published while the hub was too far behind.       *)
(***************************************************************************)
EXTENDS Realtime, TLAPS

Among(r, list) == \E n \in DOMAIN list : list[n] = r

\* What the pump is about: it visits a connection of a snapshot only while it
\* dispatches, and on a gap it asks for no room.
PumpInv ==
  /\ at # NoConn => job # NoJob
  /\ VisitAt("joined") \/ VisitAt("send") => ~gap
  /\ job # NoJob => begun /\ job.seq = last

\* What waits for the hub is numbered above what it has taken.
FeedInv ==
  /\ last <= seq
  /\ \A n \in DOMAIN backlog : last < backlog[n].seq /\ backlog[n].seq <= seq
  /\ \A m, n \in DOMAIN backlog : m < n => backlog[m].seq < backlog[n].seq

\* A message is due to a client in a room of the message that the client is
\* still in, and one the visit has yet to ask for.
Waits(d) ==
  /\ d[2] <= seq
  /\ \A n \in DOMAIN backlog : backlog[n].seq = d[2] => Among(d[1], backlog[n].rooms)
  /\ ~begun => backlog # << >> /\ backlog[1].seq <= d[2]

Asked(c, d) ==
  /\ job # NoJob /\ job.seq = d[2] => Among(d[1], job.rooms)
  /\ VisitAt("joined") /\ Visiting(c) /\ job.seq = d[2] =>
       \E n \in DOMAIN job.rooms : at.room <= n /\ job.rooms[n] = d[1]

DueInv ==
  \A c \in Conns : \A d \in due[c] :
    life[c] = "open" /\ d[1] \in rooms[c] /\ Waits(d) /\ Asked(c, d)

\* What is due is ahead of the hub, or on its way from there.
Somewhere(c, m) ==
  \/ m > last
  \/ job # NoJob /\ (m = job.seq \/ gap) /\ (c \in left \/ Visiting(c))
  \/ VisitAt("drain") /\ Visiting(c)
  \/ m \in Entries(c)
  \/ Resync \in Entries(c)

NoneForgotten == \A c \in Conns : \A d \in due[c] : Somewhere(c, d[2])

\* What is due and ahead of the hub waits, or something that waits is newer,
\* but for what was dropped since anything was queued.
Ahead(m) == \E n \in DOMAIN backlog : backlog[n].seq >= m

TailInv ==
  \A c \in Conns : \A d \in due[c] : d[2] > last /\ d[2] \notin dropped => Ahead(d[2])

\* The lock the pump holds keeps the connection open.
LockInv == \A c \in Conns : Locked(c) => life[c] = "open"

\* What is queued is no newer than what the hub has come to, and older where
\* the pump has yet to go; a connection is visited once.
Ordered(q) ==
  \A n \in 2 .. Len(q) : q[n] # Resync /\ (q[n - 1] # Resync => q[n - 1] < q[n])

UpTo(q, m) == \A n \in DOMAIN q : q[n] # Resync => q[n] <= m
Under(q, m) == \A n \in DOMAIN q : q[n] # Resync => q[n] < m

Unserved(c) == job # NoJob /\ (c \in left \/ Visiting(c))

InOrder(c) ==
  /\ Ordered(out[c]) /\ UpTo(out[c], last)
  /\ Unserved(c) => Under(out[c], last)

QueueInv ==
  /\ at # NoConn => at.conn \notin left
  /\ \A c \in Conns : InOrder(c)

----------------------------------------------------------------------------
\* A new process has nothing queued, due or in dispatch.
LEMMA RealtimeInit == Init => TypeOK /\ PumpInv /\ FeedInv /\ DueInv /\ LockInv /\ NoneForgotten
<1> SUFFICES ASSUME Init PROVE TypeOK /\ PumpInv /\ FeedInv /\ DueInv /\ LockInv /\ NoneForgotten
  OBVIOUS
<1>1. TypeOK
  <2>1. \A c \in Conns : Len(out[c]) <= Outbound
    BY RealtimeAssumption DEF Init
  <2>2. seq \in Nat /\ backlog \in Seq(Messages) /\ Len(backlog) <= Backlog
    BY RealtimeAssumption DEF Init
  <2>3. ~VisitAt("joined") /\ at \in Visits \cup {NoConn} /\ job \in Messages \cup {NoJob}
    BY DEF Init, VisitAt
  <2>4. rooms \in [Conns -> SUBSET Rooms] /\ due \in [Conns -> SUBSET (Rooms \X Nat)]
    BY DEF Init
  <2>5. out \in [Conns -> Seq(Nat \cup {Resync})]
    BY DEF Init
  <2>6. life \in [Conns -> {"new", "open", "closed", "forgotten", "ended"}]
    BY DEF Init
  <2> QED
    BY <2>1, <2>2, <2>3, <2>4, <2>5, <2>6 DEF Init, TypeOK
<1>2. PumpInv
  BY DEF Init, PumpInv, VisitAt
<1>3. FeedInv
  BY DEF Init, FeedInv
<1>4. DueInv /\ NoneForgotten
  BY DEF Init, DueInv, NoneForgotten
<1>5. LockInv
  BY DEF Init, LockInv, Locked, Visiting
<1> QED
  BY <1>1, <1>2, <1>3, <1>4, <1>5

\* Every step of the bus, the pump and the connections keeps the shape.
LEMMA RealtimeTypeStep == TypeOK /\ PumpInv /\ [Next]_vars => TypeOK'
<1> SUFFICES ASSUME TypeOK, PumpInv, [Next]_vars PROVE TypeOK'
  OBVIOUS
<1> USE RealtimeAssumption
<1>1. ASSUME NEW list \in RoomLists, Publish(list) PROVE TypeOK'
  <2>1. [seq |-> seq', rooms |-> list] \in Messages
    BY <1>1 DEF Publish, Messages, TypeOK
  <2>2. backlog' \in Seq(Messages) /\ Len(backlog') <= Backlog /\ dropped' \subseteq Nat
    <3>1. CASE Len(backlog) < Backlog
      <4>1. backlog' = Append(backlog, [seq |-> seq', rooms |-> list]) /\ dropped' = {}
        BY <1>1, <3>1 DEF Publish
      <4> QED
        BY <2>1, <3>1, <4>1 DEF TypeOK
    <3>2. CASE ~(Len(backlog) < Backlog)
      <4>1. backlog' = backlog /\ dropped' = dropped \cup {seq'} /\ seq' = seq + 1
        BY <1>1, <3>2 DEF Publish
      <4> QED
        BY <4>1 DEF TypeOK
    <3> QED
      BY <3>1, <3>2
  <2>3. ASSUME NEW n \in DOMAIN list PROVE list[n] \in Rooms
    BY DEF TypeOK
  <2>4. due' \in [Conns -> SUBSET (Rooms \X Nat)]
    <3>1. \A c \in Conns : {<< list[n], seq' >> : n \in {m \in DOMAIN list : list[m] \in rooms[c]}} \subseteq Rooms \X Nat
      BY <1>1, <2>3 DEF Publish, TypeOK
    <3>2. Owed(list) \in [Conns -> SUBSET (Rooms \X Nat)]
      BY <3>1 DEF Owed, TypeOK
    <3> QED BY <3>2, <1>1 DEF Publish
  <2> QED
    BY <1>1, <2>2, <2>4 DEF Publish, TypeOK, hub, pump, conn, VisitAt
<1>2. CASE Take
  <2>1. Head(backlog) \in Messages /\ Tail(backlog) \in Seq(Messages) /\ Len(Tail(backlog)) <= Backlog
    BY <1>2 DEF Take, TypeOK
  <2>2. job' \in Messages /\ last' \in Nat
    BY <1>2, <2>1 DEF Take, TypeOK, Messages
  <2>3. ~VisitAt("joined")'
    BY <1>2 DEF Take, TypeOK, VisitAt
  <2> QED
    BY <1>2, <2>1, <2>2, <2>3 DEF Take, TypeOK, conn
<1>3. ASSUME NEW c \in Conns, Visit(c) PROVE TypeOK'
  <2>1. at' \in Visits
    BY <1>3 DEF Visit, Visits
  <2>2. job' # NoJob /\ at'.room \in DOMAIN job'.rooms
    <3>1. job \in Messages /\ job' = job /\ at'.room = 1
      BY <1>3 DEF Visit, TypeOK
    <3>2. job.rooms \in Seq(Rooms) /\ job.rooms # << >>
      BY <3>1 DEF Messages
    <3> QED BY <1>3, <3>1, <3>2 DEF Visit
  <2> QED
    BY <1>3, <2>1, <2>2 DEF Visit, TypeOK, bus, hub, conn
<1>4. CASE Dispatched
  BY <1>4 DEF Dispatched, TypeOK, bus, hub, conn, VisitAt
<1>5. CASE Joined
  BY <1>5 DEF Joined, At, TypeOK, bus, hub, conn, VisitAt, Visits
<1>6. CASE Lock
  BY <1>6 DEF Lock, At, TypeOK, bus, hub, conn, VisitAt, Visits
<1>7. CASE Send
  <2>1. at \in Visits /\ at.conn \in Conns /\ at' \in Visits \cup {NoConn} /\ ~VisitAt("joined")'
    BY <1>7 DEF Send, At, TypeOK, VisitAt, Visits
  <2>2. job \in Messages /\ job.seq \in Nat
    <3>1. job # NoJob
      BY <1>7 DEF Send, VisitAt, PumpInv
    <3> QED BY <3>1 DEF TypeOK, Messages
  <2>3. out' \in [Conns -> Seq(Nat \cup {Resync})] /\ \A c \in Conns : Len(out'[c]) <= Outbound
    <3>1. CASE Len(out[at.conn]) < Outbound
      <4>1. out' = [out EXCEPT ![at.conn] = Append(@, job.seq)]
        BY <1>7, <3>1 DEF Send
      <4>2. Append(out[at.conn], job.seq) \in Seq(Nat \cup {Resync}) /\ Len(Append(out[at.conn], job.seq)) <= Outbound
        BY <2>1, <2>2, <3>1 DEF TypeOK
      <4> QED BY <2>1, <4>1, <4>2 DEF TypeOK
    <3>2. CASE ~(Len(out[at.conn]) < Outbound)
      BY <1>7, <3>2 DEF Send, TypeOK
    <3> QED BY <3>1, <3>2
  <2>4. UNCHANGED << seq, backlog, dropped, last, begun, job, gap, left, life, rooms, due >>
    BY <1>7 DEF Send, bus, hub
  <2> QED
    BY <2>1, <2>3, <2>4 DEF TypeOK
<1>8. CASE Drain
  <2>1. at.conn \in Conns /\ at' \in Visits \cup {NoConn} /\ ~VisitAt("joined")'
    BY <1>8 DEF Drain, TypeOK, VisitAt, Visits
  <2>2. out' \in [Conns -> Seq(Nat \cup {Resync})] /\ \A c \in Conns : Len(out'[c]) <= Outbound
    <3>1. CASE out[at.conn] # << >>
      <4>1. out' = [out EXCEPT ![at.conn] = Tail(@)]
        BY <1>8, <3>1 DEF Drain
      <4>2. Tail(out[at.conn]) \in Seq(Nat \cup {Resync}) /\ Len(Tail(out[at.conn])) <= Outbound
        BY <2>1, <3>1 DEF TypeOK
      <4> QED BY <2>1, <4>1, <4>2 DEF TypeOK
    <3>2. CASE out[at.conn] = << >>
      <4>1. out' = [out EXCEPT ![at.conn] = << Resync >>]
        BY <1>8, <3>2 DEF Drain
      <4>2. << Resync >> \in Seq(Nat \cup {Resync}) /\ Len(<< Resync >>) <= Outbound
        OBVIOUS
      <4> QED BY <2>1, <4>1, <4>2 DEF TypeOK
    <3> QED BY <3>1, <3>2
  <2>3. UNCHANGED << seq, backlog, dropped, last, begun, job, gap, left, life, rooms, due >>
    BY <1>8 DEF Drain, bus, hub
  <2> QED
    BY <2>1, <2>2, <2>3 DEF TypeOK
<1>9. ASSUME NEW c \in Conns, Serve(c) PROVE TypeOK'
  <2>1. CASE Connect(c)
    BY <2>1 DEF Connect, TypeOK, bus, hub, pump, VisitAt
  <2>2. CASE Write(c)
    BY <2>2 DEF Write, TypeOK, bus, hub, pump, VisitAt
  <2>3. ASSUME NEW r \in Rooms, Join(c, r) PROVE TypeOK'
    BY <2>3 DEF Join, TypeOK, bus, hub, pump, VisitAt
  <2>4. ASSUME NEW r \in Rooms, Leave(c, r) PROVE TypeOK'
    BY <2>4 DEF Leave, TypeOK, bus, hub, pump, VisitAt
  <2>5. CASE Close(c)
    BY <2>5 DEF Close, TypeOK, bus, hub, pump, VisitAt
  <2>6. CASE Forget(c)
    BY <2>6 DEF Forget, TypeOK, bus, hub, pump, VisitAt
  <2>7. CASE End(c)
    BY <2>7 DEF End, TypeOK, bus, hub, pump, VisitAt
  <2> QED
    BY <1>9, <2>1, <2>2, <2>3, <2>4, <2>5, <2>6, <2>7 DEF Serve
<1>10. CASE UNCHANGED vars
  BY <1>10 DEF vars, bus, hub, pump, conn, TypeOK, VisitAt
<1> QED
  BY <1>1, <1>2, <1>3, <1>4, <1>5, <1>6, <1>7, <1>8, <1>9, <1>10 DEF Next, Pump

----------------------------------------------------------------------------
\* What waits for the hub is a message, with a number.
LEMMA EntryShape == TypeOK => \A n \in DOMAIN backlog : backlog[n] \in Messages /\ backlog[n].seq \in Nat
<1> SUFFICES ASSUME TypeOK, NEW n \in DOMAIN backlog PROVE backlog[n] \in Messages /\ backlog[n].seq \in Nat
  OBVIOUS
<1>1. backlog[n] \in Messages
  BY DEF TypeOK
<1> QED
  BY <1>1 DEF Messages

\* The frames of the readers and writers: none of them moves the pump or the
\* bus, and only the pump itself moves the visit.
LEMMA ServeFrame == ASSUME NEW c \in Conns, Serve(c) PROVE UNCHANGED << bus, hub, pump >>
<1>1. ASSUME NEW r \in Rooms, Join(c, r) \/ Leave(c, r) PROVE UNCHANGED << bus, hub, pump >>
  BY <1>1 DEF Join, Leave
<1> QED
  BY <1>1 DEF Serve, Connect, Write, Close, Forget, End

\* Every step keeps what the pump is about: it leaves a message only when it
\* visits nobody, and the branch it takes at Visit and Lock is gap's.
LEMMA RealtimePumpStep == TypeOK /\ PumpInv /\ [Next]_vars => PumpInv'
<1> SUFFICES ASSUME TypeOK, PumpInv, [Next]_vars PROVE PumpInv'
  OBVIOUS
<1>1. ASSUME NEW list \in RoomLists, Publish(list) PROVE PumpInv'
  BY <1>1 DEF Publish, PumpInv, VisitAt, hub, pump
<1>2. CASE Take
  BY <1>2 DEF Take, PumpInv, VisitAt
<1>3. ASSUME NEW c \in Conns, Visit(c) PROVE PumpInv'
  <2>1. at'.step = IF gap THEN "lock" ELSE "joined"
    BY <1>3 DEF Visit
  <2> QED
    BY <1>3, <2>1 DEF Visit, PumpInv, VisitAt, hub
<1>4. CASE Dispatched
  BY <1>4 DEF Dispatched, PumpInv, VisitAt, hub
<1>5. CASE Joined
  <2>1. ~gap
    BY <1>5 DEF Joined, PumpInv
  <2> QED
    BY <1>5, <2>1 DEF Joined, VisitAt, PumpInv, hub
<1>6. CASE Lock
  <2>1. CASE life[at.conn] = "open"
    <3>1. at' = At(IF gap THEN "drain" ELSE "send", at.room)
      BY <1>6, <2>1 DEF Lock
    <3>2. at'.step = IF gap THEN "drain" ELSE "send"
      BY <3>1 DEF At
    <3> QED
      BY <1>6, <3>2 DEF Lock, VisitAt, PumpInv, hub
  <2>2. CASE life[at.conn] # "open"
    BY <1>6, <2>2 DEF Lock, VisitAt, PumpInv, hub
  <2> QED BY <2>1, <2>2
<1>7. CASE Send
  <2>1. at' = NoConn \/ at' = At("drain", at.room)
    BY <1>7 DEF Send
  <2>2. ~VisitAt("joined")' /\ ~VisitAt("send")'
    BY <2>1 DEF At, VisitAt
  <2> QED
    BY <1>7, <2>2 DEF Send, VisitAt, PumpInv, hub
<1>8. CASE Drain
  <2>1. at' = at \/ at' = NoConn
    BY <1>8 DEF Drain
  <2> QED
    BY <1>8, <2>1 DEF Drain, VisitAt, PumpInv, hub
<1>9. ASSUME NEW c \in Conns, Serve(c) PROVE PumpInv'
  BY <1>9, ServeFrame DEF PumpInv, VisitAt, hub, pump
<1>10. CASE UNCHANGED vars
  BY <1>10 DEF vars, hub, pump, PumpInv, VisitAt
<1> QED
  BY <1>1, <1>2, <1>3, <1>4, <1>5, <1>6, <1>7, <1>8, <1>9, <1>10 DEF Next, Pump

\* The bus numbers what it appends above everything it has, and the hub takes
\* from the front.
LEMMA RealtimeFeedStep == TypeOK /\ FeedInv /\ [Next]_vars => FeedInv'
<1> SUFFICES ASSUME TypeOK, FeedInv, [Next]_vars PROVE FeedInv'
  OBVIOUS
<1>1. ASSUME NEW list \in RoomLists, Publish(list) PROVE FeedInv'
  <2> DEFINE m == [seq |-> seq', rooms |-> list]
  <2>1. m.seq = seq + 1 /\ last' = last /\ seq' = seq + 1 /\ seq \in Nat /\ last \in Nat /\ last <= seq
    BY <1>1 DEF Publish, hub, TypeOK, FeedInv
  <2>2. backlog' = backlog \/ backlog' = Append(backlog, m)
    BY <1>1 DEF Publish
  <2>3. \A n \in DOMAIN backlog : backlog[n].seq \in Nat
    BY EntryShape
  <2> HIDE DEF m
  <2>4. CASE backlog' = backlog
    BY <2>1, <2>3, <2>4 DEF FeedInv
  <2>5. CASE backlog' = Append(backlog, m)
    <3>1. DOMAIN backlog' = 1 .. (Len(backlog) + 1) /\ DOMAIN backlog = 1 .. Len(backlog) /\ Len(backlog) \in Nat
      BY <2>5 DEF TypeOK
    <3>2. \A n \in DOMAIN backlog' : backlog'[n] = IF n <= Len(backlog) THEN backlog[n] ELSE m
      BY <2>5, <3>1 DEF TypeOK
    <3> QED
      BY <2>1, <2>3, <3>1, <3>2 DEF FeedInv
  <2> QED BY <2>2, <2>4, <2>5
<1>2. CASE Take
  <2>1. backlog \in Seq(Messages) /\ backlog # << >> /\ backlog' = Tail(backlog) /\ seq' = seq
    BY <1>2 DEF Take, TypeOK
  <2>2. last' = backlog[1].seq
    BY <1>2, <2>1 DEF Take
  <2>3. DOMAIN backlog' = 1 .. (Len(backlog) - 1) /\ DOMAIN backlog = 1 .. Len(backlog) /\ Len(backlog) \in Nat \ {0}
    BY <2>1
  <2>4. \A n \in DOMAIN backlog' : backlog'[n] = backlog[n + 1]
    BY <2>1, <2>3
  <2> QED
    BY <2>1, <2>2, <2>3, <2>4 DEF FeedInv
<1>3. ASSUME NEW c \in Conns, Visit(c) PROVE FeedInv'
  BY <1>3 DEF Visit, FeedInv, bus, hub
<1>4. CASE Dispatched \/ Joined \/ Lock \/ Send \/ Drain
  BY <1>4 DEF Dispatched, Joined, Lock, Send, Drain, FeedInv, bus, hub
<1>5. ASSUME NEW c \in Conns, Serve(c) PROVE FeedInv'
  BY <1>5, ServeFrame DEF FeedInv, bus, hub
<1>6. CASE UNCHANGED vars
  BY <1>6 DEF vars, bus, hub, FeedInv
<1> QED
  BY <1>1, <1>2, <1>3, <1>4, <1>5, <1>6 DEF Next, Pump

\* Close waits for the lock: no step closes the connection the pump holds.
LEMMA RealtimeLockStep == TypeOK /\ LockInv /\ [Next]_vars => LockInv'
<1> SUFFICES ASSUME TypeOK, LockInv, [Next]_vars PROVE LockInv'
  OBVIOUS
<1>1. ASSUME NEW list \in RoomLists, Publish(list) PROVE LockInv'
  BY <1>1 DEF Publish, LockInv, Locked, Visiting, pump, conn
<1>2. CASE Take \/ Dispatched
  BY <1>2 DEF Take, Dispatched, LockInv, Locked, Visiting, conn
<1>3. ASSUME NEW c \in Conns, Visit(c) PROVE LockInv'
  BY <1>3 DEF Visit, LockInv, Locked, Visiting, conn
<1>4. CASE Joined
  BY <1>4 DEF Joined, At, LockInv, Locked, Visiting, VisitAt, conn
<1>5. CASE Lock
  BY <1>5 DEF Lock, At, LockInv, Locked, Visiting, VisitAt, conn
<1>6. CASE Send
  BY <1>6 DEF Send, At, LockInv, Locked, Visiting, VisitAt
<1>7. CASE Drain
  BY <1>7 DEF Drain, LockInv, Locked, Visiting, VisitAt
<1>8. ASSUME NEW c \in Conns, Serve(c) PROVE LockInv'
  <2>1. at' = at
    BY <1>8, ServeFrame DEF pump
  <2>2. \A d \in Conns : Locked(d) => life'[d] = "open"
    <3>1. CASE Connect(c) \/ Forget(c) \/ End(c)
      BY <3>1 DEF Connect, Forget, End, LockInv, TypeOK
    <3>2. CASE Close(c)
      BY <3>2 DEF Close, LockInv, TypeOK
    <3>3. CASE Write(c)
      BY <3>3 DEF Write, LockInv
    <3>4. ASSUME NEW r \in Rooms, Join(c, r) \/ Leave(c, r) PROVE life' = life
      BY <3>4 DEF Join, Leave
    <3> QED BY <1>8, <3>1, <3>2, <3>3, <3>4 DEF Serve, LockInv
  <2> QED BY <2>1, <2>2 DEF LockInv, Locked, Visiting
<1>9. CASE UNCHANGED vars
  BY <1>9 DEF vars, pump, conn, LockInv, Locked, Visiting
<1> QED
  BY <1>1, <1>2, <1>3, <1>4, <1>5, <1>6, <1>7, <1>8, <1>9 DEF Next, Pump

----------------------------------------------------------------------------
\* A publication gives a client only what it is joined for, numbered above
\* everything the hub has seen; what was due stays as it was.
LEMMA DuePublish ==
  ASSUME TypeOK, PumpInv, FeedInv, DueInv, NEW list \in RoomLists, Publish(list)
  PROVE DueInv'
<1> SUFFICES ASSUME NEW c \in Conns, NEW d \in due'[c]
    PROVE (life[c] = "open" /\ d[1] \in rooms[c] /\ Waits(d) /\ Asked(c, d))'
  BY DEF DueInv
<1> DEFINE m == [seq |-> seq', rooms |-> list]
<1>1. /\ seq' = seq + 1 /\ seq \in Nat /\ last <= seq /\ last \in Nat
      /\ m.seq = seq + 1 /\ m.rooms = list
      /\ backlog' = backlog \/ backlog' = Append(backlog, m)
      /\ backlog = << >> => backlog' = Append(backlog, m)
      /\ UNCHANGED << last, begun, job, gap, left, at, life, rooms, out >>
  <2>1. backlog = << >> => Len(backlog) < Backlog
    BY RealtimeAssumption
  <2> QED BY <2>1 DEF Publish, hub, pump, conn, TypeOK, FeedInv
<1>2. /\ backlog \in Seq(Messages) /\ DOMAIN backlog = 1 .. Len(backlog) /\ Len(backlog) \in Nat
      /\ \A n \in DOMAIN backlog : backlog[n].seq \in Nat /\ backlog[n].seq <= seq
  BY EntryShape DEF TypeOK, FeedInv
<1> HIDE DEF m
<1>3. \A n \in DOMAIN backlog' : (n \in DOMAIN backlog /\ backlog'[n] = backlog[n]) \/ backlog'[n] = m
  BY <1>1, <1>2
<1>4. backlog' # << >> /\ backlog'[1].seq = IF backlog = << >> THEN seq + 1 ELSE backlog[1].seq
  <2>1. CASE backlog = << >>
    <3>1. backlog' = << m >>
      BY <1>1, <2>1
    <3> QED BY <1>1, <2>1, <3>1
  <2>2. CASE backlog # << >>
    <3>1. 1 \in DOMAIN backlog
      BY <1>2, <2>2
    <3>2. backlog'[1] = backlog[1] /\ backlog' # << >>
      BY <1>1, <1>2, <2>2, <3>1
    <3> QED BY <2>2, <3>2
  <2> QED BY <2>1, <2>2
<1>5. d \in Owed(list)[c]
  BY DEF Publish
<1>6. life[c] = "open" /\ (d \in due[c] \/ \E n \in DOMAIN list : d = << list[n], seq' >> /\ list[n] \in rooms[c])
  BY <1>5 DEF Owed
<1>7. CASE d \in due[c]
  <2>1. life[c] = "open" /\ d[1] \in rooms[c] /\ Waits(d) /\ Asked(c, d) /\ d[2] \in Nat
    BY <1>7 DEF DueInv, TypeOK
  <2>2. Asked(c, d)'
    BY <1>1, <2>1 DEF Asked, VisitAt, Visiting, Among
  <2>3. \A n \in DOMAIN backlog' : backlog'[n].seq = d[2] => Among(d[1], backlog'[n].rooms)
    BY <1>1, <1>2, <1>3, <2>1 DEF Waits
  <2>4. d[2] <= seq' /\ (~begun => backlog'[1].seq <= d[2])
    BY <1>1, <1>2, <1>4, <2>1 DEF Waits
  <2>5. Waits(d)'
    BY <1>1, <1>4, <2>3, <2>4 DEF Waits, Among
  <2> QED BY <1>1, <2>1, <2>2, <2>5
<1>8. ASSUME NEW n \in DOMAIN list, d = << list[n], seq' >>, list[n] \in rooms[c]
      PROVE (life[c] = "open" /\ d[1] \in rooms[c] /\ Waits(d) /\ Asked(c, d))'
  <2>1. d[1] = list[n] /\ d[2] = seq + 1
    BY <1>8, <1>1
  <2>2. job # NoJob => job.seq <= seq
    BY <1>1 DEF PumpInv
  <2>3. Asked(c, d)'
    <3>1. job' # NoJob => job'.seq # d[2]
      BY <1>1, <2>1, <2>2
    <3>2. VisitAt("joined")' => job' # NoJob
      BY <1>1 DEF VisitAt, PumpInv
    <3> QED BY <3>1, <3>2 DEF Asked
  <2>4. Among(d[1], m.rooms)
    BY <1>1, <2>1 DEF Among
  <2>5. \A k \in DOMAIN backlog' : backlog'[k].seq = d[2] => Among(d[1], backlog'[k].rooms)
    BY <1>1, <1>2, <1>3, <2>1, <2>4
  <2>6. backlog'[1].seq <= d[2]
    BY <1>1, <1>2, <1>4, <2>1
  <2>7. Waits(d)'
    BY <1>1, <1>4, <2>1, <2>5, <2>6 DEF Waits, Among
  <2> QED BY <1>1, <1>6, <1>8, <2>1, <2>3, <2>7
<1> QED
  BY <1>6, <1>7, <1>8

\* The message the hub takes is the front of its backlog, for the rooms it was
\* published to.
LEMMA DueTake == ASSUME TypeOK, PumpInv, DueInv, Take PROVE DueInv'
<1> SUFFICES ASSUME NEW c \in Conns, NEW d \in due'[c]
    PROVE (life[c] = "open" /\ d[1] \in rooms[c] /\ Waits(d) /\ Asked(c, d))'
  BY DEF DueInv
<1>1. /\ backlog \in Seq(Messages) /\ backlog # << >> /\ backlog' = Tail(backlog)
      /\ job' = backlog[1] /\ begun' /\ UNCHANGED << seq, at, life, rooms, due >>
  BY DEF Take, conn, TypeOK
<1>2. life[c] = "open" /\ d[1] \in rooms[c] /\ Waits(d) /\ at' = NoConn
  BY <1>1 DEF DueInv, PumpInv, Take
<1>3. \A n \in DOMAIN backlog' : n + 1 \in DOMAIN backlog /\ backlog'[n] = backlog[n + 1]
  BY <1>1
<1>4. Waits(d)'
  BY <1>1, <1>2, <1>3 DEF Waits, Among
<1>5. 1 \in DOMAIN backlog
  BY <1>1
<1>6. Asked(c, d)'
  <2>1. job'.seq = d[2] => Among(d[1], job'.rooms)
    BY <1>1, <1>2, <1>5 DEF Waits
  <2>2. ~VisitAt("joined")'
    BY <1>2 DEF VisitAt
  <2> QED BY <2>1, <2>2 DEF Asked, Among
<1> QED
  BY <1>1, <1>2, <1>4, <1>6

\* A room the client is in is among those the visit has yet to ask for: the
\* visit starts at the first and passes only rooms it is not in.
LEMMA DueVisit ==
  ASSUME TypeOK, DueInv, NEW v \in Conns, Visit(v) PROVE DueInv'
<1> SUFFICES ASSUME NEW c \in Conns, NEW d \in due'[c]
    PROVE (life[c] = "open" /\ d[1] \in rooms[c] /\ Waits(d) /\ Asked(c, d))'
  BY DEF DueInv
<1>1. UNCHANGED << seq, backlog, begun, job, life, rooms, due >> /\ job # NoJob /\ at'.room = 1
  BY DEF Visit, bus, hub, conn
<1>2. life[c] = "open" /\ d[1] \in rooms[c] /\ Waits(d) /\ Asked(c, d)
  BY <1>1 DEF DueInv
<1>3. Waits(d)'
  BY <1>1, <1>2 DEF Waits, Among
<1>4. job.seq = d[2] => \E n \in DOMAIN job.rooms : 1 <= n /\ job.rooms[n] = d[1]
  <2>1. job.rooms \in Seq(Rooms)
    BY <1>1 DEF TypeOK, Messages
  <2>2. \A n \in DOMAIN job.rooms : 1 <= n
    BY <2>1
  <2> QED BY <1>1, <1>2, <2>2 DEF Asked, Among
<1>5. Asked(c, d)'
  BY <1>1, <1>2, <1>4 DEF Asked, Among
<1> QED
  BY <1>1, <1>2, <1>3, <1>5

\* The visit ends at the last room, or goes on to the lock, or to the next
\* room because the client is not in this one.
LEMMA DueJoined ==
  ASSUME TypeOK, DueInv, Joined,
         NEW c \in Conns, NEW d \in due[c], Visiting(c), job.seq = d[2]
  PROVE VisitAt("joined")' =>
          \E n \in DOMAIN job.rooms : at'.room <= n /\ job.rooms[n] = d[1]
<1> SUFFICES ASSUME VisitAt("joined")'
    PROVE \E n \in DOMAIN job.rooms : at'.room <= n /\ job.rooms[n] = d[1]
  OBVIOUS
<1>1. VisitAt("joined") /\ job # NoJob /\ at.conn = c /\ d[1] \in rooms[c]
  BY DEF Joined, Visiting, DueInv, TypeOK
<1>2. job.rooms[at.room] \notin rooms[c] /\ at' = At("joined", at.room + 1)
  BY <1>1 DEF Joined, At, VisitAt
<1>3. at'.room = at.room + 1
  BY <1>2 DEF At
<1>4. PICK n \in DOMAIN job.rooms : at.room <= n /\ job.rooms[n] = d[1]
  BY <1>1 DEF DueInv, Asked
<1>5. n # at.room
  BY <1>1, <1>2, <1>4
<1>6. n \in Nat /\ at.room \in Nat
  <2>1. job.rooms \in Seq(Rooms)
    BY <1>1 DEF TypeOK, Messages
  <2> QED BY <1>1, <2>1 DEF TypeOK, VisitAt, Visits
<1> QED
  BY <1>3, <1>4, <1>5, <1>6

\* The other steps of the pump: nothing becomes due, and no room is skipped.
LEMMA DuePump ==
  ASSUME TypeOK, DueInv, Dispatched \/ Joined \/ Lock \/ Send \/ Drain PROVE DueInv'
<1> SUFFICES ASSUME NEW c \in Conns, NEW d \in due'[c]
    PROVE (life[c] = "open" /\ d[1] \in rooms[c] /\ Waits(d) /\ Asked(c, d))'
  BY DEF DueInv
<1>1. UNCHANGED << seq, backlog, begun, life, rooms, due >>
  BY DEF Dispatched, Joined, Lock, Send, Drain, bus, hub, conn
<1>2. life[c] = "open" /\ d[1] \in rooms[c] /\ Waits(d) /\ Asked(c, d)
  BY <1>1 DEF DueInv
<1>3. Waits(d)'
  BY <1>1, <1>2 DEF Waits, Among
<1>4. CASE Dispatched
  <2>1. job' = NoJob /\ at' = NoConn
    BY <1>4 DEF Dispatched
  <2> QED BY <1>1, <1>2, <1>3, <2>1 DEF Asked, VisitAt
<1>5. CASE Joined
  <2>1. job' = job /\ (Visiting(c)' => Visiting(c))
    BY <1>5 DEF Joined, At, Visiting, VisitAt
  <2>2. Asked(c, d)'
    BY <1>1, <1>2, <1>5, <2>1, DueJoined DEF Asked, Among
  <2> QED BY <1>1, <1>2, <1>3, <2>2
<1>6. CASE Lock \/ Send \/ Drain
  <2>1. job' = job
    BY <1>6 DEF Lock, Send, Drain
  <2>2. ~VisitAt("joined")'
    BY <1>6 DEF Lock, Send, Drain, At, VisitAt
  <2>3. Asked(c, d)'
    BY <1>2, <2>1, <2>2 DEF Asked, Among
  <2> QED BY <1>1, <1>2, <1>3, <2>3
<1> QED
  BY <1>4, <1>5, <1>6

\* A connection's own steps only take from what is due to it, and take all of
\* a room's that it leaves and everything when it closes.
LEMMA DueServe == ASSUME TypeOK, DueInv, NEW s \in Conns, Serve(s) PROVE DueInv'
<1> SUFFICES ASSUME NEW c \in Conns, NEW d \in due'[c]
    PROVE (life[c] = "open" /\ d[1] \in rooms[c] /\ Waits(d) /\ Asked(c, d))'
  BY DEF DueInv
<1>1. UNCHANGED << seq, backlog, begun, job, at >>
  BY ServeFrame DEF bus, hub, pump
<1>2. d \in due[c] /\ life'[c] = "open" /\ d[1] \in rooms'[c]
  <2> USE DEF DueInv, TypeOK
  <2>1. CASE Connect(s) \/ Forget(s) \/ End(s)
    BY <2>1 DEF Connect, Forget, End
  <2>2. CASE Close(s)
    BY <2>2 DEF Close
  <2>3. CASE Write(s)
    <3>1. due' = [due EXCEPT ![s] = {e \in @ : Head(out[s]) # Resync /\ e[2] # Head(out[s])}]
      BY <2>3 DEF Write
    <3>2. d \in due[c]
      BY <3>1
    <3> QED BY <2>3, <3>2 DEF Write
  <2>4. ASSUME NEW r \in Rooms, Join(s, r) PROVE d \in due[c] /\ life'[c] = "open" /\ d[1] \in rooms'[c]
    BY <2>4 DEF Join
  <2>5. ASSUME NEW r \in Rooms, Leave(s, r) PROVE d \in due[c] /\ life'[c] = "open" /\ d[1] \in rooms'[c]
    <3>1. due' = [due EXCEPT ![s] = {e \in @ : e[1] # r}] /\ rooms' = [rooms EXCEPT ![s] = @ \ {r}] /\ life' = life
      BY <2>5 DEF Leave
    <3>2. d \in due[c] /\ (c = s => d[1] # r)
      BY <3>1
    <3> QED BY <3>1, <3>2
  <2> QED BY <2>1, <2>2, <2>3, <2>4, <2>5 DEF Serve
<1>3. Waits(d) /\ Asked(c, d)
  BY <1>2 DEF DueInv
<1>4. Waits(d)' /\ Asked(c, d)'
  BY <1>1, <1>3 DEF Waits, Asked, Among, VisitAt, Visiting
<1> QED
  BY <1>2, <1>4

\* Every step keeps what is due tied to the rooms of its message.
LEMMA RealtimeDueStep == TypeOK /\ PumpInv /\ FeedInv /\ DueInv /\ [Next]_vars => DueInv'
<1> SUFFICES ASSUME TypeOK, PumpInv, FeedInv, DueInv, [Next]_vars PROVE DueInv'
  OBVIOUS
<1>1. CASE UNCHANGED vars
  BY <1>1 DEF vars, bus, hub, pump, conn, DueInv, Waits, Asked, Among, VisitAt, Visiting
<1> QED
  BY <1>1, DuePublish, DueTake, DueVisit, DuePump, DueServe DEF Next, Pump

----------------------------------------------------------------------------
\* What is in a queue stays in it when an entry is added behind it; when the
\* first is taken, what differs from it stays.
LEMMA EntriesAppend ==
  ASSUME NEW S, NEW q \in Seq(S), NEW e \in S
  PROVE {Append(q, e)[n] : n \in DOMAIN Append(q, e)} = {q[n] : n \in DOMAIN q} \cup {e}
<1>1. DOMAIN Append(q, e) = 1 .. (Len(q) + 1) /\ DOMAIN q = 1 .. Len(q) /\ Len(q) \in Nat
  OBVIOUS
<1>2. \A n \in DOMAIN q : Append(q, e)[n] = q[n]
  OBVIOUS
<1>3. Append(q, e)[Len(q) + 1] = e
  OBVIOUS
<1> QED
  BY <1>1, <1>2, <1>3

LEMMA EntriesTail ==
  ASSUME NEW S, NEW q \in Seq(S), q # << >>
  PROVE {q[n] : n \in DOMAIN q} = {Tail(q)[n] : n \in DOMAIN Tail(q)} \cup {Head(q)}
<1>1. DOMAIN Tail(q) = 1 .. (Len(q) - 1) /\ DOMAIN q = 1 .. Len(q) /\ Len(q) \in Nat \ {0}
  OBVIOUS
<1>2. \A n \in DOMAIN Tail(q) : Tail(q)[n] = q[n + 1]
  OBVIOUS
<1>3. Head(q) = q[1]
  OBVIOUS
<1>4. \A n \in DOMAIN q : n = 1 \/ (n - 1 \in DOMAIN Tail(q) /\ Tail(q)[n - 1] = q[n])
  BY <1>1, <1>2
<1>5. \A n \in DOMAIN Tail(q) : n + 1 \in DOMAIN q
  BY <1>1
<1>6. \A n \in DOMAIN q : q[n] \in {Tail(q)[k] : k \in DOMAIN Tail(q)} \cup {Head(q)}
  <2> SUFFICES ASSUME NEW n \in DOMAIN q, n # 1
      PROVE q[n] \in {Tail(q)[k] : k \in DOMAIN Tail(q)}
    BY <1>3
  <2>1. n - 1 \in DOMAIN Tail(q) /\ Tail(q)[n - 1] = q[n]
    BY <1>4
  <2> QED BY <2>1
<1>7. \A n \in DOMAIN Tail(q) : Tail(q)[n] \in {q[k] : k \in DOMAIN q}
  BY <1>2, <1>5
<1>8. Head(q) \in {q[k] : k \in DOMAIN q}
  BY <1>1, <1>3
<1> QED
  BY <1>6, <1>7, <1>8

\* A message that is published is ahead of the hub.
LEMMA LossPublish ==
  ASSUME TypeOK, FeedInv, NoneForgotten, NEW list \in RoomLists, Publish(list)
  PROVE NoneForgotten'
<1> SUFFICES ASSUME NEW c \in Conns, NEW d \in due'[c] PROVE Somewhere(c, d[2])'
  BY DEF NoneForgotten
<1>1. /\ seq' = seq + 1 /\ seq \in Nat /\ last \in Nat /\ last <= seq
      /\ UNCHANGED << last, begun, job, gap, left, at, life, rooms, out >>
  BY DEF Publish, hub, pump, conn, TypeOK, FeedInv
<1>2. d \in due[c] \/ d[2] = seq'
  BY DEF Publish, Owed
<1>3. CASE d \in due[c]
  <2>1. Somewhere(c, d[2])
    BY <1>3 DEF NoneForgotten
  <2> QED BY <1>1, <2>1 DEF Somewhere, Visiting, VisitAt, Entries
<1>4. CASE d[2] = seq'
  BY <1>1, <1>4 DEF Somewhere
<1> QED
  BY <1>2, <1>3, <1>4

\* The hub goes past a message that is due only by taking it, when its client
\* is in the snapshot, or by taking one that shows the gap.
LEMMA LossTake ==
  ASSUME TypeOK, PumpInv, FeedInv, DueInv, NoneForgotten, Take
  PROVE NoneForgotten'
<1> SUFFICES ASSUME NEW c \in Conns, NEW d \in due'[c] PROVE Somewhere(c, d[2])'
  BY DEF NoneForgotten
<1> DEFINE h == backlog[1].seq
<1>1. /\ backlog \in Seq(Messages) /\ backlog # << >> /\ 1 \in DOMAIN backlog
      /\ job' = backlog[1] /\ last' = h /\ gap' = (begun /\ h > last + 1)
      /\ UNCHANGED << at, life, rooms, out, due >>
  BY DEF Take, conn, TypeOK
<1>2. h \in Nat /\ last \in Nat /\ last < h /\ backlog[1] \in Messages /\ d[2] \in Nat
  BY <1>1, EntryShape DEF FeedInv, TypeOK
<1>3. job' # NoJob /\ job'.seq = h /\ at = NoConn
  <2>1. backlog[1] # NoJob
    BY <1>2, RealtimeAssumption DEF Messages
  <2> QED BY <1>1, <2>1 DEF Take, PumpInv
<1>4. c \in left' /\ Somewhere(c, d[2]) /\ Waits(d)
  BY <1>1 DEF Take, DueInv, NoneForgotten
<1> HIDE DEF h
<1>5. CASE d[2] > last
  <2>1. CASE d[2] > h \/ d[2] = h
    BY <1>1, <1>3, <1>4, <2>1 DEF Somewhere
  <2>2. CASE d[2] < h
    <3>1. begun
      BY <1>1, <1>2, <1>4, <2>2 DEF Waits, h
    <3>2. gap'
      <4>1. h > last + 1
        BY <1>2, <1>5, <2>2
      <4> QED BY <1>1, <3>1, <4>1, Zenon
    <3> QED BY <1>3, <1>4, <3>2 DEF Somewhere
  <2> QED BY <1>2, <2>1, <2>2
<1>6. CASE ~(d[2] > last)
  <2>1. d[2] \in Entries(c) \/ Resync \in Entries(c)
    BY <1>3, <1>4, <1>6 DEF Somewhere, VisitAt, Visiting, Take
  <2> QED BY <1>1, <2>1 DEF Somewhere, Entries
<1> QED
  BY <1>5, <1>6

\* A visit, or the end of a dispatch when there is nobody left to visit, loses
\* nobody.
LEMMA LossVisit ==
  ASSUME TypeOK, NoneForgotten, Dispatched \/ \E v \in Conns : Visit(v)
  PROVE NoneForgotten'
<1> SUFFICES ASSUME NEW c \in Conns, NEW d \in due'[c] PROVE Somewhere(c, d[2])'
  BY DEF NoneForgotten
<1>1. UNCHANGED << last, gap, out, due >>
  BY DEF Dispatched, Visit, hub, conn
<1>2. Somewhere(c, d[2])
  BY <1>1 DEF NoneForgotten
<1>3. CASE Dispatched
  BY <1>1, <1>2, <1>3 DEF Dispatched, Somewhere, VisitAt, Visiting, Entries
<1>4. ASSUME NEW v \in Conns, Visit(v) PROVE Somewhere(c, d[2])'
  <2>1. UNCHANGED job /\ at = NoConn /\ at'.conn = v /\ left' = left \ {v} /\ at' # NoConn
    <3>1. at' = [conn |-> v, step |-> IF gap THEN "lock" ELSE "joined", room |-> 1]
      BY <1>4 DEF Visit
    <3>2. at' # NoConn
      BY <3>1, RealtimeAssumption
    <3> QED BY <1>4, <3>1, <3>2 DEF Visit
  <2> QED BY <1>1, <1>2, <2>1 DEF Somewhere, VisitAt, Visiting, Entries
<1> QED
  BY <1>3, <1>4

\* A visit ends without a word only when the client is in no room of the
\* message, or the connection has been closed.
LEMMA LossAsk ==
  ASSUME TypeOK, PumpInv, DueInv, NoneForgotten, Joined \/ Lock
  PROVE NoneForgotten'
<1> SUFFICES ASSUME NEW c \in Conns, NEW d \in due'[c] PROVE Somewhere(c, d[2])'
  BY DEF NoneForgotten
<1>1. UNCHANGED << last, job, gap, left, life, rooms, out, due >> /\ at \in Visits /\ job # NoJob
  BY DEF Joined, Lock, hub, conn, VisitAt, TypeOK, PumpInv
<1>2. Somewhere(c, d[2]) /\ ~VisitAt("drain")
  BY <1>1 DEF NoneForgotten, Joined, Lock, VisitAt
<1>3. ASSUME NEW step \in {"joined", "lock", "send", "drain"}, NEW n \in Nat, at' = At(step, n)
      PROVE Somewhere(c, d[2])'
  <2>1. at'.conn = at.conn /\ at' # NoConn
    <3>1. at' \in Visits
      BY <1>1, <1>3 DEF At, Visits
    <3> QED BY <1>3, <3>1, RealtimeAssumption DEF At, Visits
  <2>2. Visiting(c)' <=> Visiting(c)
    BY <1>1, <2>1, RealtimeAssumption DEF Visiting, Visits
  <2> QED BY <1>1, <1>2, <2>2 DEF Somewhere, Entries
<1>4. at.room \in Nat
  BY <1>1 DEF Visits
<1>5. ASSUME at' = NoConn, at.conn # c PROVE Somewhere(c, d[2])'
  BY <1>1, <1>2, <1>5 DEF Somewhere, Entries, Visiting
<1>6. CASE Joined
  <2>1. CASE at' = NoConn /\ at.conn = c
    <3>1. /\ job.rooms[at.room] \notin rooms[c] /\ ~(at.room < Len(job.rooms))
          /\ ~gap /\ VisitAt("joined") /\ Visiting(c)
      <4>1. At("lock", at.room) # NoConn /\ At("joined", at.room + 1) # NoConn
        BY <1>1, <1>4, RealtimeAssumption DEF At, Visits
      <4> QED BY <1>6, <2>1, <4>1 DEF Joined, PumpInv, VisitAt, Visiting
    <3>2. d[1] \in rooms[c] /\ Asked(c, d)
      BY <1>1 DEF DueInv
    <3>3. job.seq # d[2]
      <4>1. job.rooms \in Seq(Rooms)
        BY <1>1 DEF TypeOK, Messages
      <4>2. SUFFICES ASSUME job.seq = d[2] PROVE FALSE
        OBVIOUS
      <4>3. PICK n \in DOMAIN job.rooms : at.room <= n /\ job.rooms[n] = d[1]
        BY <3>1, <3>2, <4>2 DEF Asked
      <4>4. n = at.room
        BY <1>4, <3>1, <4>1, <4>3
      <4> QED BY <3>1, <3>2, <4>3, <4>4
    <3> QED BY <1>1, <1>2, <3>1, <3>3 DEF Somewhere, Entries
  <2> QED BY <1>3, <1>4, <1>5, <1>6, <2>1 DEF Joined
<1>7. CASE Lock
  <2>1. at.conn = c => life[at.conn] = "open"
    BY <1>1 DEF DueInv
  <2>2. CASE life[at.conn] = "open"
    BY <1>3, <1>4, <1>7, <2>2 DEF Lock
  <2>3. CASE life[at.conn] # "open"
    BY <1>5, <1>7, <2>1, <2>3 DEF Lock
  <2> QED BY <2>2, <2>3
<1> QED
  BY <1>6, <1>7

\* The message is put into the queue, or the queue is emptied for a resync.
LEMMA LossPut ==
  ASSUME TypeOK, PumpInv, NoneForgotten, Send \/ Drain
  PROVE NoneForgotten'
<1> SUFFICES ASSUME NEW c \in Conns, NEW d \in due'[c] PROVE Somewhere(c, d[2])'
  BY DEF NoneForgotten
<1>1. /\ UNCHANGED << last, job, gap, left, due >>
      /\ at # NoConn /\ at \in Visits /\ at.conn \in Conns /\ job # NoJob
  BY DEF Send, Drain, hub, VisitAt, TypeOK, PumpInv, Visits
<1>2. Somewhere(c, d[2])
  BY <1>1 DEF NoneForgotten
<1>3. job.seq \in Nat /\ \A k \in Conns : out[k] \in Seq(Nat \cup {Resync})
  BY <1>1 DEF TypeOK, Messages
<1>4. CASE c # at.conn
  <2>1. out'[c] = out[c]
    BY <1>1, <1>4 DEF Send, Drain, TypeOK
  <2> QED BY <1>1, <1>2, <1>4, <2>1 DEF Somewhere, Entries, Visiting
<1>5. ASSUME c = at.conn, Send PROVE Somewhere(c, d[2])'
  <2>1. CASE Len(out[c]) < Outbound
    <3>1. out'[c] = Append(out[c], job.seq)
      BY <1>5, <2>1 DEF Send, TypeOK
    <3>2. Entries(c)' = Entries(c) \cup {job.seq}
      BY <1>3, <3>1, EntriesAppend DEF Entries
    <3>3. ~gap /\ ~VisitAt("drain")
      BY <1>5 DEF Send, PumpInv, VisitAt
    <3> QED BY <1>1, <1>2, <3>2, <3>3 DEF Somewhere
  <2>2. CASE ~(Len(out[c]) < Outbound)
    <3>1. at' = At("drain", at.room)
      BY <1>5, <2>2 DEF Send
    <3>2. at' \in Visits /\ at'.step = "drain" /\ at'.conn = c
      BY <1>1, <1>5, <3>1 DEF At, Visits
    <3>3. VisitAt("drain")' /\ Visiting(c)'
      BY <3>2, RealtimeAssumption DEF VisitAt, Visiting, Visits
    <3> QED BY <3>3 DEF Somewhere
  <2> QED BY <2>1, <2>2
<1>6. ASSUME c = at.conn, Drain PROVE Somewhere(c, d[2])'
  <2>1. CASE out[c] # << >>
    <3>1. at' = at
      BY <1>6, <2>1 DEF Drain
    <3> QED BY <1>1, <1>6, <3>1 DEF Drain, Somewhere, VisitAt, Visiting
  <2>2. CASE out[c] = << >>
    <3>1. out'[c] = << Resync >>
      BY <1>6, <2>2 DEF Drain, TypeOK
    <3>2. Resync \in Entries(c)'
      BY <3>1 DEF Entries
    <3> QED BY <3>2 DEF Somewhere
  <2> QED BY <2>1, <2>2
<1> QED
  BY <1>4, <1>5, <1>6

\* What a client reads is no longer due to it, and after a resync nothing is.
LEMMA LossServe ==
  ASSUME TypeOK, NoneForgotten, NEW s \in Conns, Serve(s)
  PROVE NoneForgotten'
<1> SUFFICES ASSUME NEW c \in Conns, NEW d \in due'[c] PROVE Somewhere(c, d[2])'
  BY DEF NoneForgotten
<1>1. UNCHANGED << last, job, gap, left, at >>
  BY ServeFrame DEF hub, pump
<1>2. d \in due[c] /\ (c # s \/ ~Write(s) => out'[c] = out[c])
  <2> USE DEF TypeOK
  <2>1. CASE Connect(s) \/ Forget(s) \/ End(s)
    BY <2>1 DEF Connect, Forget, End
  <2>2. CASE Close(s)
    BY <2>2 DEF Close
  <2>3. CASE Write(s)
    <3>1. due' = [due EXCEPT ![s] = {e \in @ : Head(out[s]) # Resync /\ e[2] # Head(out[s])}]
      BY <2>3 DEF Write
    <3>2. d \in due[c]
      BY <3>1
    <3> QED BY <2>3, <3>2 DEF Write
  <2>4. ASSUME NEW r \in Rooms, Join(s, r) PROVE d \in due[c] /\ out'[c] = out[c]
    BY <2>4 DEF Join
  <2>5. ASSUME NEW r \in Rooms, Leave(s, r) PROVE d \in due[c] /\ out'[c] = out[c]
    <3>1. due' = [due EXCEPT ![s] = {e \in @ : e[1] # r}] /\ out' = out
      BY <2>5 DEF Leave
    <3> QED BY <3>1
  <2> QED BY <2>1, <2>2, <2>3, <2>4, <2>5 DEF Serve
<1>3. Somewhere(c, d[2])
  BY <1>2 DEF NoneForgotten
<1>4. CASE out'[c] = out[c]
  BY <1>1, <1>3, <1>4 DEF Somewhere, VisitAt, Visiting, Entries
<1>5. CASE c = s /\ Write(s)
  <2>1. out[c] \in Seq(Nat \cup {Resync}) /\ out[c] # << >> /\ out'[c] = Tail(out[c])
    BY <1>5 DEF Write, TypeOK
  <2>2. Entries(c) = Entries(c)' \cup {Head(out[c])}
    BY <2>1, EntriesTail DEF Entries
  <2>3. Head(out[c]) # Resync /\ d[2] # Head(out[c])
    <3>1. due' = [due EXCEPT ![s] = {e \in @ : Head(out[s]) # Resync /\ e[2] # Head(out[s])}]
      BY <1>5 DEF Write
    <3> QED BY <1>5, <3>1 DEF TypeOK
  <2> QED BY <1>1, <1>3, <2>2, <2>3 DEF Somewhere, VisitAt, Visiting
<1> QED
  BY <1>2, <1>4, <1>5

\* Every step keeps every client either in line for what is due to it or told.
LEMMA RealtimeLossStep ==
  TypeOK /\ PumpInv /\ FeedInv /\ DueInv /\ NoneForgotten /\ [Next]_vars => NoneForgotten'
<1> SUFFICES ASSUME TypeOK, PumpInv, FeedInv, DueInv, NoneForgotten, [Next]_vars PROVE NoneForgotten'
  OBVIOUS
<1>1. CASE UNCHANGED vars
  BY <1>1 DEF vars, hub, pump, conn, NoneForgotten, Somewhere, Entries, VisitAt, Visiting
<1> QED
  BY <1>1, LossPublish, LossTake, LossVisit, LossAsk, LossPut, LossServe DEF Next, Pump

----------------------------------------------------------------------------
\* The queue of a connection in order, whatever is taken from its front.
LEMMA TailOrdered ==
  ASSUME NEW q \in Seq(Nat \cup {Resync}), q # << >>, NEW m \in Nat
  PROVE  /\ Ordered(q) => Ordered(Tail(q))
         /\ UpTo(q, m) => UpTo(Tail(q), m)
         /\ Under(q, m) => Under(Tail(q), m)
<1>1. /\ Len(q) \in Nat /\ DOMAIN q = 1 .. Len(q) /\ Len(Tail(q)) = Len(q) - 1
      /\ DOMAIN Tail(q) = 1 .. (Len(q) - 1) /\ Tail(q) \in Seq(Nat \cup {Resync})
  OBVIOUS
<1>2. \A n \in DOMAIN Tail(q) : Tail(q)[n] = q[n + 1] /\ n + 1 \in DOMAIN q
  BY <1>1
<1>3. ASSUME Ordered(q) PROVE Ordered(Tail(q))
  <2> SUFFICES ASSUME NEW n \in 2 .. Len(Tail(q))
               PROVE  Tail(q)[n] # Resync /\ (Tail(q)[n - 1] # Resync => Tail(q)[n - 1] < Tail(q)[n])
    BY DEF Ordered
  <2>1. n + 1 \in 2 .. Len(q) /\ n \in DOMAIN Tail(q) /\ n - 1 \in DOMAIN Tail(q)
        /\ (n + 1) - 1 = n /\ (n - 1) + 1 = n
    BY <1>1
  <2>2. Tail(q)[n] = q[n + 1] /\ Tail(q)[n - 1] = q[n]
    BY <1>2, <2>1
  <2>3. q[n + 1] # Resync /\ (q[n] # Resync => q[n] < q[n + 1])
    BY <1>3, <2>1 DEF Ordered
  <2> QED BY <2>2, <2>3
<1> QED
  BY <1>2, <1>3 DEF UpTo, Under

\* It stays in order when something newer is added behind.
LEMMA AppendOrdered ==
  ASSUME NEW q \in Seq(Nat \cup {Resync}), NEW m \in Nat, Ordered(q), Under(q, m)
  PROVE  Ordered(Append(q, m)) /\ UpTo(Append(q, m), m)
<1>1. /\ Len(q) \in Nat /\ DOMAIN q = 1 .. Len(q) /\ Len(Append(q, m)) = Len(q) + 1
      /\ DOMAIN Append(q, m) = 1 .. (Len(q) + 1)
  OBVIOUS
<1>2. (\A n \in DOMAIN q : Append(q, m)[n] = q[n] /\ q[n] \in Nat \cup {Resync})
      /\ Append(q, m)[Len(q) + 1] = m
  OBVIOUS
<1>3. Ordered(Append(q, m))
  <2> SUFFICES ASSUME NEW n \in 2 .. (Len(q) + 1)
               PROVE  /\ Append(q, m)[n] # Resync
                      /\ Append(q, m)[n - 1] # Resync => Append(q, m)[n - 1] < Append(q, m)[n]
    BY <1>1 DEF Ordered
  <2>1. n - 1 \in DOMAIN q
    BY <1>1
  <2>2. CASE n = Len(q) + 1
    BY <1>2, <2>1, <2>2, RealtimeAssumption DEF Under
  <2>3. CASE n # Len(q) + 1
    <3>1. n \in 2 .. Len(q) /\ n \in DOMAIN q
      BY <1>1, <2>3
    <3>2. Append(q, m)[n] = q[n] /\ Append(q, m)[n - 1] = q[n - 1]
      BY <1>2, <2>1, <3>1
    <3>3. q[n] # Resync /\ (q[n - 1] # Resync => q[n - 1] < q[n])
      BY <3>1 DEF Ordered
    <3> QED BY <3>2, <3>3
  <2> QED BY <2>2, <2>3
<1>4. UpTo(Append(q, m), m)
  <2> SUFFICES ASSUME NEW n \in DOMAIN Append(q, m), Append(q, m)[n] # Resync
               PROVE  Append(q, m)[n] <= m
    BY DEF UpTo
  <2>1. CASE n = Len(q) + 1
    BY <1>2, <2>1
  <2>2. CASE n # Len(q) + 1
    <3>1. n \in DOMAIN q
      BY <1>1, <2>2
    <3> QED BY <1>2, <3>1 DEF Under
  <2> QED BY <2>1, <2>2
<1> QED BY <1>3, <1>4

\* A newer message is above what was queued for an older one.
LEMMA UpToUnder ==
  ASSUME NEW q \in Seq(Nat \cup {Resync}), NEW m \in Nat, NEW k \in Nat, m < k, UpTo(q, m)
  PROVE  Under(q, k) /\ UpTo(q, k)
<1> SUFFICES ASSUME NEW n \in DOMAIN q, q[n] # Resync PROVE q[n] < k
  BY DEF Under, UpTo
<1>1. q[n] \in Nat /\ q[n] <= m
  BY DEF UpTo
<1> QED BY <1>1

\* Every step keeps every queue in order.
LEMMA RealtimeQueueStep == TypeOK /\ PumpInv /\ FeedInv /\ QueueInv /\ [Next]_vars => QueueInv'
<1> SUFFICES ASSUME TypeOK, PumpInv, FeedInv, QueueInv, [Next]_vars PROVE QueueInv'
  OBVIOUS
<1>0. /\ last \in Nat
      /\ \A c \in Conns : out[c] \in Seq(Nat \cup {Resync})
  BY DEF TypeOK
<1>q. ASSUME NEW c \in Conns
      PROVE  Ordered(out[c]) /\ UpTo(out[c], last) /\ (Unserved(c) => Under(out[c], last))
  <2>1. InOrder(c)
    BY DEF QueueInv
  <2> QED BY <2>1 DEF InOrder
<1>r. ASSUME NEW c \in Conns, NEW q, q = out'[c], Ordered(q), UpTo(q, last'),
             Unserved(c)' => Under(q, last')
      PROVE  InOrder(c)'
  BY <1>r DEF InOrder
<1>s. ASSUME NEW c \in Conns, out'[c] = out[c], last' = last, Unserved(c)' => Unserved(c)
      PROVE  InOrder(c)'
  BY <1>q, <1>r, <1>s
<1>1. ASSUME UNCHANGED << last, job, left, at, out >> PROVE QueueInv'
  <2>1. ASSUME NEW c \in Conns PROVE InOrder(c)'
    <3>1. Unserved(c)' <=> Unserved(c)
      BY <1>1 DEF Unserved, Visiting
    <3> QED BY <1>1, <1>s, <3>1
  <2> QED BY <1>1, <2>1 DEF QueueInv
<1>2. CASE Take
  <2>1. /\ job' = Head(backlog) /\ last' = job'.seq /\ at' = at /\ out' = out /\ at = NoConn
        /\ backlog # << >>
    BY <1>2 DEF Take, PumpInv, conn
  <2>2. last < last' /\ last' \in Nat
    <3>1. 1 \in DOMAIN backlog /\ Head(backlog) = backlog[1]
      BY <2>1 DEF TypeOK
    <3> QED BY <2>1, <3>1, EntryShape DEF FeedInv
  <2>3. ASSUME NEW c \in Conns PROVE InOrder(c)'
    <3>1. PICK m \in Nat : m = last'
      BY <2>2
    <3>2. Under(out[c], m) /\ UpTo(out[c], m) /\ Ordered(out[c])
      BY <1>0, <1>q, <2>2, <3>1, UpToUnder
    <3> QED BY <1>r, <2>1, <3>1, <3>2
  <2> QED BY <2>1, <2>3 DEF QueueInv
<1>3. ASSUME NEW c \in Conns, Visit(c) PROVE QueueInv'
  <2>1. /\ at = NoConn /\ c \in left /\ left' = left \ {c} /\ at'.conn = c
        /\ job' = job /\ out' = out /\ last' = last /\ job # NoJob
    BY <1>3 DEF Visit, conn, hub
  <2>2. \A d \in Conns : Unserved(d)' => Unserved(d)
    BY <2>1 DEF Unserved, Visiting
  <2>3. \A d \in Conns : InOrder(d)'
    BY <1>s, <2>1, <2>2
  <2> QED BY <2>1, <2>3 DEF QueueInv
<1>4. CASE Dispatched
  <2>1. job' = NoJob /\ at' = at /\ left' = left /\ out' = out /\ last' = last
    BY <1>4 DEF Dispatched, conn, hub
  <2>2. \A d \in Conns : ~Unserved(d)'
    BY <2>1 DEF Unserved
  <2>3. \A d \in Conns : InOrder(d)'
    BY <1>s, <2>1, <2>2
  <2> QED BY <2>1, <2>3 DEF QueueInv
<1>5. CASE Joined \/ Lock
  <2>1. /\ at # NoConn /\ job' = job /\ left' = left /\ out' = out /\ last' = last
        /\ at' = NoConn \/ at'.conn = at.conn
    BY <1>5 DEF Joined, Lock, At, VisitAt, conn, hub
  <2>2. \A d \in Conns : Unserved(d)' => Unserved(d)
    BY <2>1 DEF Unserved, Visiting
  <2>3. \A d \in Conns : InOrder(d)'
    BY <1>s, <2>1, <2>2
  <2> QED BY <2>1, <2>3 DEF QueueInv
<1>6. CASE Send \/ Drain
  <2>0. /\ at # NoConn /\ job' = job /\ left' = left /\ last' = last
        /\ at' = NoConn \/ at'.conn = at.conn
    BY <1>6 DEF Send, Drain, At, VisitAt, hub
  <2>1. PICK v \in Conns : v = at.conn
    BY <2>0 DEF TypeOK, Visits
  <2>2. Unserved(v) /\ v \notin left
    BY <2>0, <2>1 DEF Unserved, Visiting, PumpInv, QueueInv
  <2>3. Ordered(out[v]) /\ Under(out[v], last) /\ UpTo(out[v], last)
    BY <1>q, <2>2
  <2>4. \A d \in Conns : Unserved(d)' => Unserved(d)
    BY <2>0 DEF Unserved, Visiting
  <2>5. \A d \in Conns \ {v} : out'[d] = out[d]
    BY <1>6, <2>1 DEF Send, Drain, TypeOK
  <2>6. InOrder(v)'
    <3>1. CASE Send /\ Len(out[v]) < Outbound
      <4>1. out'[v] = Append(out[v], last) /\ at' = NoConn
        BY <2>0, <2>1, <3>1 DEF Send, TypeOK, PumpInv
      <4>2. ~Unserved(v)'
        BY <2>0, <2>2, <4>1 DEF Unserved, Visiting
      <4>3. Ordered(Append(out[v], last)) /\ UpTo(Append(out[v], last), last)
        BY <1>0, <2>3, AppendOrdered
      <4> QED BY <1>r, <2>0, <4>1, <4>2, <4>3
    <3>2. CASE Send /\ ~(Len(out[v]) < Outbound)
      <4>1. out' = out
        BY <2>1, <3>2 DEF Send
      <4> QED BY <1>s, <2>0, <2>4, <4>1
    <3>3. CASE Drain /\ out[v] # << >>
      <4>1. out'[v] = Tail(out[v])
        BY <2>1, <3>3 DEF Drain, TypeOK
      <4>2. /\ Ordered(Tail(out[v])) /\ UpTo(Tail(out[v]), last)
            /\ Under(Tail(out[v]), last)
        BY <1>0, <2>3, <3>3, TailOrdered
      <4> QED BY <1>r, <2>0, <4>1, <4>2
    <3>4. CASE Drain /\ out[v] = << >>
      <4>1. out'[v] = << Resync >>
        BY <2>1, <3>4 DEF Drain, TypeOK
      <4>2. Len(<< Resync >>) = 1 /\ DOMAIN << Resync >> = {1} /\ << Resync >>[1] = Resync
        OBVIOUS
      <4>3. Ordered(<< Resync >>) /\ UpTo(<< Resync >>, last) /\ Under(<< Resync >>, last)
        BY <4>2 DEF Ordered, UpTo, Under
      <4> QED BY <1>r, <2>0, <4>1, <4>3
    <3> QED BY <1>6, <3>1, <3>2, <3>3, <3>4
  <2>7. \A d \in Conns \ {v} : InOrder(d)'
    BY <1>s, <2>0, <2>4, <2>5
  <2>8. (at # NoConn => at.conn \notin left)'
    BY <2>0, <2>1, <2>2
  <2> QED BY <2>6, <2>7, <2>8 DEF QueueInv
<1>7. ASSUME NEW c \in Conns, Write(c) PROVE QueueInv'
  <2>1. /\ out' = [out EXCEPT ![c] = Tail(out[c])] /\ out[c] # << >>
        /\ job' = job /\ left' = left /\ at' = at /\ last' = last
    BY <1>7 DEF Write, hub, pump
  <2>2. \A d \in Conns : Unserved(d)' <=> Unserved(d)
    BY <2>1 DEF Unserved, Visiting
  <2>3. out'[c] = Tail(out[c]) /\ \A d \in Conns \ {c} : out'[d] = out[d]
    BY <2>1 DEF TypeOK
  <2>4. InOrder(c)'
    <3>1. /\ Ordered(Tail(out[c])) /\ UpTo(Tail(out[c]), last)
          /\ Unserved(c) => Under(Tail(out[c]), last)
      BY <1>0, <1>q, <2>1, TailOrdered
    <3> QED BY <1>r, <2>1, <2>2, <2>3, <3>1
  <2>5. \A d \in Conns \ {c} : InOrder(d)'
    BY <1>s, <2>1, <2>2, <2>3
  <2> QED BY <2>1, <2>4, <2>5 DEF QueueInv
<1>8. ASSUME NEW list \in RoomLists, Publish(list) PROVE QueueInv'
  BY <1>1, <1>8 DEF Publish, hub, pump, conn
<1>9. ASSUME NEW c \in Conns, Serve(c), ~Write(c) PROVE QueueInv'
  <2>1. out' = out
    <3>1. ASSUME NEW r \in Rooms, Join(c, r) \/ Leave(c, r) PROVE out' = out
      BY <3>1 DEF Join, Leave
    <3> QED BY <1>9, <3>1 DEF Serve, Connect, Close, Forget, End
  <2> QED BY <1>1, <1>9, <2>1, ServeFrame DEF hub, pump
<1>10. CASE UNCHANGED vars
  BY <1>1, <1>10 DEF vars, hub, pump, conn
<1> QED
  BY <1>2, <1>3, <1>4, <1>5, <1>6, <1>7, <1>8, <1>9, <1>10 DEF Next, Pump

----------------------------------------------------------------------------
\* The state of the bus, the hub and the connections keeps its shape, for any
\* number of connections and rooms, and no queue grows beyond its limit.
THEOREM RealtimeTypeCorrect == Spec => []TypeOK
<1>1. TypeOK /\ PumpInv /\ [Next]_vars => (TypeOK /\ PumpInv)'
  BY RealtimeTypeStep, RealtimePumpStep
<1> QED
  BY <1>1, RealtimeInit, PTL DEF Spec

\* The pump neither sends to nor drains a queue that has been closed.
THEOREM RealtimeClosedSafe == Spec => []NeverUsedOnceClosed
<1>1. LockInv => NeverUsedOnceClosed
  BY DEF LockInv, NeverUsedOnceClosed
<1>2. TypeOK /\ PumpInv /\ LockInv /\ [Next]_vars => (TypeOK /\ PumpInv /\ LockInv)'
  BY RealtimeTypeStep, RealtimePumpStep, RealtimeLockStep
<1> QED
  BY <1>1, <1>2, RealtimeInit, PTL DEF Spec

\* A message that is queued is the newest; one that is taken was the oldest.
LEMMA RealtimeTailStep ==
  TypeOK /\ FeedInv /\ DueInv /\ TailInv /\ [Next]_vars => TailInv'
<1> SUFFICES ASSUME TypeOK, FeedInv, DueInv, TailInv, [Next]_vars,
                    NEW c \in Conns, NEW d \in due'[c], d[2] > last', d[2] \notin dropped'
             PROVE  Ahead(d[2])'
  BY DEF TailInv
<1>1. /\ backlog \in Seq(Messages) /\ seq \in Nat /\ last \in Nat
      /\ \A n \in DOMAIN backlog : backlog[n].seq \in Nat
      /\ due \in [Conns -> SUBSET (Rooms \X Nat)]
  BY EntryShape DEF TypeOK
<1>2. ASSUME UNCHANGED << backlog, last, dropped >>, d \in due[c]
      PROVE  Ahead(d[2])'
  BY <1>2 DEF TailInv, Ahead
<1>3. ASSUME NEW list \in RoomLists, Publish(list)
      PROVE  Ahead(d[2])'
  <2>1. last' = last /\ seq' = seq + 1 /\ due' = Owed(list)
    BY <1>3 DEF Publish, hub
  <2>2. d \in due[c] \/ d[2] = seq'
    BY <2>1 DEF Owed
  <2>3. d \in due[c] => d[2] <= seq /\ d[2] \in Nat
    BY <1>1 DEF DueInv, Waits
  <2>4. d[2] <= seq'
    BY <1>1, <2>1, <2>2, <2>3
  <2>5. CASE Len(backlog) < Backlog
    <3>1. backlog' = Append(backlog, [seq |-> seq', rooms |-> list])
      BY <1>3, <2>5 DEF Publish
    <3>2. Len(backlog) + 1 \in DOMAIN backlog' /\ backlog'[Len(backlog) + 1].seq = seq'
      BY <1>1, <3>1
    <3>3. seq' >= d[2]
      BY <1>1, <2>1, <2>2, <2>3
    <3> QED
      BY <3>2, <3>3 DEF Ahead
  <2>6. CASE ~(Len(backlog) < Backlog)
    <3>1. dropped' = dropped \cup {seq'} /\ backlog' = backlog
      BY <1>3, <2>6 DEF Publish
    <3>2. d \in due[c] /\ d[2] \notin dropped
      BY <2>2, <3>1
    <3> QED
      BY <2>1, <3>1, <3>2 DEF TailInv, Ahead
  <2> QED
    BY <2>5, <2>6
<1>4. CASE Take
  <2>1. /\ backlog # << >> /\ backlog' = Tail(backlog) /\ last' = backlog[1].seq
        /\ UNCHANGED << dropped, due >>
    BY <1>1, <1>4 DEF Take
  <2>2. 1 \in DOMAIN backlog /\ last < last' /\ d[2] \in Nat
    BY <1>1, <2>1 DEF FeedInv
  <2>3. d[2] > last
    BY <1>1, <2>1, <2>2
  <2>4. PICK n \in DOMAIN backlog : backlog[n].seq >= d[2]
    BY <2>1, <2>3 DEF TailInv, Ahead
  <2>5. n # 1
    BY <1>1, <2>1, <2>2, <2>4
  <2>6. n - 1 \in DOMAIN backlog' /\ backlog'[n - 1] = backlog[n]
    BY <1>1, <2>1, <2>5
  <2> QED
    BY <2>4, <2>6 DEF Ahead
<1>5. CASE Dispatched \/ Joined \/ Lock \/ Send \/ Drain \/ \E v \in Conns : Visit(v)
  <2>1. UNCHANGED << backlog, last, dropped, due >>
    BY <1>5 DEF Dispatched, Joined, Lock, Send, Drain, Visit, bus, hub
  <2> QED
    BY <1>2, <2>1
<1>6. ASSUME NEW v \in Conns, Serve(v)
      PROVE  Ahead(d[2])'
  <2>1. UNCHANGED << backlog, last, dropped >>
    BY <1>6, ServeFrame DEF bus, hub
  <2>2. d \in due[c]
    <3>1. CASE due' = due
      BY <3>1
    <3>2. ASSUME NEW r \in Rooms, Leave(v, r)
          PROVE  d \in due[c]
      BY <1>1, <3>2 DEF Leave
    <3>3. CASE Write(v)
      BY <1>1, <3>3 DEF Write
    <3>4. CASE Close(v)
      BY <1>1, <3>4 DEF Close
    <3>5. CASE Connect(v) \/ Forget(v) \/ End(v) \/ \E r \in Rooms : Join(v, r)
      <4>1. due' = due
        BY <3>5 DEF Connect, Forget, End, Join
      <4> QED
        BY <4>1
    <3> QED
      BY <1>6, <3>2, <3>3, <3>4, <3>5 DEF Serve
  <2> QED
    BY <1>2, <2>1, <2>2
<1>7. CASE UNCHANGED vars
  BY <1>2, <1>7 DEF vars, bus, hub
<1> QED
  BY <1>3, <1>4, <1>5, <1>6, <1>7 DEF Next, Pump

\* A message that is due to a client is on its way to it, or the client is
\* told to fetch again, or a message waits for the hub that will show the gap;
\* unless the hub's backlog was full and nothing has been queued since.
THEOREM RealtimeLosesNothingSilently == Spec => []NoSilentLoss
<1> DEFINE IInv == TypeOK /\ PumpInv /\ FeedInv /\ DueInv /\ NoneForgotten /\ TailInv
<1>1. Init => IInv
  <2>1. Init => TailInv
    BY DEF Init, TailInv
  <2> QED
    BY <2>1, RealtimeInit
<1>2. IInv /\ [Next]_vars => IInv'
  BY RealtimeTypeStep, RealtimePumpStep, RealtimeFeedStep, RealtimeDueStep, RealtimeLossStep, RealtimeTailStep
<1>3. IInv => NoSilentLoss
  BY DEF NoneForgotten, TailInv, NoSilentLoss, Somewhere, Coming, Ahead
<1> QED
  BY <1>1, <1>2, <1>3, PTL DEF Spec

\* In front of a resync there is nothing and behind it only newer messages, in
\* the order of their publication, while the pump drains a queue that the
\* socket's writer drains too.
THEOREM RealtimeQueuesInOrder == Spec => []QueueShape
<1> DEFINE IInv == TypeOK /\ PumpInv /\ FeedInv /\ QueueInv
<1>1. Init => QueueInv
  BY DEF Init, QueueInv, InOrder, Ordered, UpTo, Under, Unserved
<1>2. IInv /\ [Next]_vars => IInv'
  BY RealtimeTypeStep, RealtimePumpStep, RealtimeFeedStep, RealtimeQueueStep
<1>3. QueueInv => QueueShape
  <2> SUFFICES ASSUME QueueInv, NEW c \in Conns, NEW n \in 2 .. Len(out[c])
               PROVE  /\ out[c][n] # Resync
                      /\ out[c][n - 1] # Resync => out[c][n - 1] < out[c][n]
    BY DEF QueueShape
  <2>0. InOrder(c)
    BY DEF QueueInv
  <2>1. Ordered(out[c])
    BY <2>0 DEF InOrder
  <2> QED BY <2>1 DEF Ordered
<1> QED
  BY <1>1, <1>2, <1>3, RealtimeInit, PTL DEF Spec
=============================================================================
