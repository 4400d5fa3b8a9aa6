------------------------------ MODULE Commands ------------------------------
(***************************************************************************)
(* Commands over the socket and what they may be told afterwards           *)
(* (src/services/api/internal/realtimews: commands.go, projects.go,        *)
(* tracker.go, handler.go; idempotency/keys.go; the settings of a project  *)
(* in Settings; the client in src/services/web/src/realtime: client.ts,    *)
(* pending.ts, socket.ts).                                                 *)
(*                                                                         *)
(* A server reads the frames of one socket one after the other and runs    *)
(* each command with the socket's context.  All sockets share one memory   *)
(* of outcomes.  A client whose socket drops cannot know what became of    *)
(* its command.  The web page of the repository rejects the call, and a    *)
(* second try is another call, under another idempotency key; a client as  *)
(* keys.go and the tests of the handler expect it connects again and sends *)
(* the command again under the same key, possibly while the first is still *)
(* running.  Steps of different sockets interleave; a socket can die, or   *)
(* the whole process with the memory in it, between any two of them.       *)
(***************************************************************************)
EXTENDS Settings, Sequences

CONSTANTS
  Cmds,        \* calls of a client; each has an idempotency key of its own
  Wishes,      \* what the clients want done, by one call or several
  Plans,       \* what the commands ask for, one plan in each behaviour
  Sockets,
  NoSocket,    \* the client has no connection
  NoJob,       \* the socket's reader waits for a frame
  NotSeen,     \* no outcome
  Board,       \* what clients show beside settings: projects, items, comments
  Limit,       \* how many outcomes the memory holds
  MaxSends,    \* bound of the model: frames sent in one behaviour
  MaxCrashes   \* bound of the model: restarts in one behaviour

\* A setting is written or removed; a project, an item or a comment is
\* created; an item is edited at the version the client expects.  A command
\* may come without an idempotency key, and then runs whenever it is sent.  It
\* comes from a page, or from another client of the protocol.  (The commands on
\* a project that stands, whose removal can fail half way, are Registry's.)
Clients == {"page", "other"}
Orders ==
  [kind : {"set"}, key : Keys, doc : Docs, keyed : BOOLEAN, by : Clients, wish : Wishes]
  \cup [kind : {"delete"}, key : Keys, keyed : BOOLEAN, by : Clients, wish : Wishes]
  \cup [kind : {"create"}, keyed : BOOLEAN, by : Clients, wish : Wishes]
  \cup [kind : {"update"}, expected : Nat, keyed : BOOLEAN, by : Clients, wish : Wishes]

Errors   == {"none", "missing", "conflict", "canceled", "failed"}
Outcomes == [err : Errors, result : Nat]
Steps    == {"apply", "rename", "announce", "remember"}

ASSUME CommandsAssumption ==
  /\ Plans \subseteq [Cmds -> Orders]
  /\ NoSocket \notin Sockets
  /\ NoJob \notin [cmd : Cmds, step : Steps, out : Outcomes] \cup [key : Keys, doc : Docs \cup {NoDoc}]
  /\ NotSeen \notin Outcomes \cup [out : Outcomes, old : BOOLEAN]
  /\ Board \notin Keys
  /\ Limit \in Nat \ {0} /\ MaxSends \in Nat /\ MaxCrashes \in Nat

VARIABLES
  order,      \* what each command asks for
  made,       \* projects, items and comments created, by command
  version,    \* of the item that is edited
  seen,       \* the memory: the outcome of a command, and whether it is past its time
  alive,      \* sockets the server holds for live
  inbox,      \* frames that wait on each socket
  job,        \* the command each socket's reader runs
  current,    \* client: its socket
  waiting,    \* client: commands sent and not answered
  told,       \* client: the first answer to each command
  pending,    \* announced subjects that other clients have not fetched yet
  view,       \* what those clients show of each subject
  sends, crashes,
  sent,       \* the commands sent so far
  ran,        \* how often each command took effect
  excused,    \* commands forgotten, or run on two sockets at once
  unheard     \* subjects changed without an announcement since they were last fetched

server == << made, version, seen, alive, inbox, job >>
client == << current, waiting, told >>
others == << pending, view, unheard >>
ghosts == << ran, excused >>
vars   == << order, store, server, client, others, sends, sent, crashes, ghosts >>

Ok         == [err |-> "none", result |-> 0]
Error(e)   == [err |-> e, result |-> 0]
Running(c) == {s \in Sockets : job[s] # NoJob /\ job[s].cmd = c}
Key(c)     == order[c].key

Subject(c) == IF order[c].kind \in {"set", "delete"} THEN Key(c) ELSE Board

Stored(x) == IF x = Board THEN << Len(made), version >> ELSE file[x]

At(s, step) == job[s] # NoJob /\ job[s].step = step

\* The changes made and not announced yet.
Unpublished == {Subject(job[s].cmd) : s \in {r \in Sockets : At(r, "announce")}}

Init ==
  /\ order \in Plans
  /\ SettingsInit
  /\ made = << >> /\ version = 1
  /\ seen = [c \in Cmds |-> NotSeen]
  /\ alive = {} /\ inbox = [s \in Sockets |-> << >>] /\ job = [s \in Sockets |-> NoJob]
  /\ current = NoSocket /\ waiting = {} /\ told = [c \in Cmds |-> NotSeen]
  /\ pending = {} /\ unheard = {}
  /\ view = [x \in Keys \cup {Board} |-> Stored(x)]
  /\ sends = 0 /\ sent = {} /\ crashes = 0
  /\ ran = [c \in Cmds |-> 0] /\ excused = {}

----------------------------------------------------------------------------
(* The client. *)

Connect(s) ==
  /\ current = NoSocket
  /\ s \notin alive /\ job[s] = NoJob
  /\ current' = s
  /\ alive' = alive \cup {s}
  /\ UNCHANGED << order, store, made, version, seen, inbox, job, waiting, told, others, sends, sent, crashes, ghosts >>

Transmit(c) ==
  /\ current # NoSocket
  /\ sends < MaxSends
  /\ sends' = sends + 1 /\ sent' = sent \cup {c}
  /\ waiting' = waiting \cup {c}
  /\ inbox' = IF current \in alive THEN [inbox EXCEPT ![current] = Append(@, c)] ELSE inbox
  /\ UNCHANGED << order, store, made, version, seen, alive, job, current, told, others, crashes, ghosts >>

\* Rejected because the socket dropped: nobody knows what became of it.
Unknown(c) == c \in sent /\ c \notin waiting /\ told[c] = NotSeen

\* Told that it did not take effect.
Failed(c) == told[c] # NotSeen /\ told[c].err # "none"

\* A call mints its key and is sent once.  What is wanted is tried again, by
\* another call, when the ones before it were rejected or failed.  Without a
\* socket a command is refused at once, and nothing is sent.
Send(c) ==
  /\ c \notin sent
  /\ \A d \in sent : order[d].wish = order[c].wish => Unknown(d) \/ Failed(d)
  /\ Transmit(c)

\* A client that keeps the key sends the command again.
Resend(c) == order[c].by = "other" /\ Unknown(c) /\ Transmit(c)

\* onclose: everything outstanding fails, because nobody will answer it.
Drop ==
  /\ current # NoSocket
  /\ current' = NoSocket
  /\ waiting' = {}
  /\ UNCHANGED << order, store, server, told, others, sends, sent, crashes, ghosts >>

----------------------------------------------------------------------------
(* The server. *)

\* The socket's context is canceled; a command that runs goes on running.
SocketDies(s) ==
  /\ s \in alive
  /\ alive' = alive \ {s}
  /\ inbox' = [inbox EXCEPT ![s] = << >>]
  /\ UNCHANGED << order, store, made, version, seen, job, client, others, sends, sent, crashes, ghosts >>

Goes(s, step, out) == job' = [job EXCEPT ![s] = [cmd |-> @.cmd, step |-> step, out |-> out]]

Held(m) == {c \in Cmds : m[c] # NotSeen}

\* What collect leaves; it runs at most once in half a lifetime.
Memories == {seen, [c \in Cmds |-> IF c \in Held(seen) /\ ~seen[c].old THEN seen[c] ELSE NotSeen]}

Remembered(c) == order[c].keyed /\ seen[c] # NotSeen /\ ~seen[c].old

\* The reply reaches the client that still uses the socket and awaits it.
Answer(s, c, out) ==
  IF s \in alive /\ current = s /\ c \in waiting
  THEN waiting' = waiting \ {c} /\ told' = [told EXCEPT ![c] = out]
  ELSE UNCHANGED << waiting, told >>

\* A fault for the checks: a replay is acknowledged whatever happened first.
FaultyReplay(c) == Ok

\* A replay is answered with what the original produced.
Replay(c) == seen[c].out

\* The reader takes the next frame, and looks for an outcome of its command.
Receive(s) ==
  /\ s \in alive /\ job[s] = NoJob /\ inbox[s] # << >>
  /\ inbox' = [inbox EXCEPT ![s] = Tail(@)]
  /\ seen' \in Memories
  /\ LET c == Head(inbox[s])
     IN  IF Remembered(c)
         THEN Answer(s, c, Replay(c)) /\ UNCHANGED << job, excused >>
         ELSE /\ job' = [job EXCEPT ![s] = [cmd |-> c, step |-> "apply", out |-> Ok]]
              /\ excused' = IF Running(c) # {} THEN excused \cup {c} ELSE excused
              /\ UNCHANGED << waiting, told >>
  /\ UNCHANGED << order, store, made, version, alive, current, others, sends, sent, crashes, ran >>

\* A store refuses a canceled context before it does anything.
Canceled(s) == s \notin alive

\* A fault for the checks: the feed did not take the event, and the call fails.
FaultyApplied(s, out) ==
  /\ \E o \in {out, Error("failed")} : Goes(s, "announce", o)
  /\ ran' = [ran EXCEPT ![job[s].cmd] = @ + 1]

Applied(s, out) ==
  /\ Goes(s, "announce", out)
  /\ ran' = [ran EXCEPT ![job[s].cmd] = @ + 1]

Refused(s, e) ==
  /\ Goes(s, "remember", Error(e))
  /\ UNCHANGED << order, store, made, version, ran >>

Aside == << order, seen, alive, inbox, client, others, sends, sent, crashes, excused >>

SetStart(s) ==
  /\ At(s, "apply") /\ order[job[s].cmd].kind = "set" /\ ~Canceled(s)
  /\ WriteTemp(Key(job[s].cmd))
  /\ Goes(s, "rename", Ok)
  /\ UNCHANGED << made, version, ran, Aside >>

SetEnd(s) ==
  /\ At(s, "rename")
  /\ Rename(Key(job[s].cmd), order[job[s].cmd].doc)
  /\ Applied(s, Ok)
  /\ UNCHANGED << made, version, Aside >>

\* Writing, syncing or renaming failed.
SetFails(s) ==
  /\ At(s, "rename")
  /\ DropTemp(Key(job[s].cmd))
  /\ Goes(s, "remember", Error("failed"))
  /\ UNCHANGED << made, version, ran, Aside >>

Delete(s) ==
  /\ At(s, "apply") /\ order[job[s].cmd].kind = "delete" /\ ~Canceled(s)
  /\ RemoveFile(Key(job[s].cmd))
  /\ Applied(s, Ok)
  /\ UNCHANGED << made, version, Aside >>

Create(s) ==
  /\ At(s, "apply") /\ order[job[s].cmd].kind = "create" /\ ~Canceled(s)
  /\ made' = Append(made, job[s].cmd)
  /\ Applied(s, [err |-> "none", result |-> Len(made')])
  /\ UNCHANGED << order, store, version, Aside >>

\* The compare-and-swap of UpdateItem and DeleteItem.
Update(s) ==
  /\ At(s, "apply") /\ order[job[s].cmd].kind = "update" /\ ~Canceled(s)
  /\ version = order[job[s].cmd].expected
  /\ version' = version + 1
  /\ Applied(s, [err |-> "none", result |-> version'])
  /\ UNCHANGED << order, store, made, Aside >>

\* A store may fail whatever it is asked; the rest is refused for a reason.
Reasons(s) ==
  LET o == order[job[s].cmd]
  IN  IF Canceled(s) THEN {"canceled"}
      ELSE {"failed"}
           \cup {e \in {"missing"} : o.kind = "delete" /\ Missing(o.key)}
           \cup {e \in {"conflict"} : o.kind = "update" /\ version # o.expected}

Refuse(s) ==
  /\ At(s, "apply")
  /\ \E e \in Reasons(s) : Refused(s, e)
  /\ UNCHANGED Aside

----------------------------------------------------------------------------
\* A fault for the checks: a removal is not announced.
FaultyAnnounced(s) ==
  IF Canceled(s) \/ order[job[s].cmd].kind = "delete" THEN {} ELSE {Subject(job[s].cmd)}

\* The decorators and the tracker's announcer publish a change; the bus
\* refuses a canceled context, which is logged and swallowed.
Announced(s) == IF Canceled(s) THEN {} ELSE {Subject(job[s].cmd)}

Announce(s) ==
  /\ At(s, "announce")
  /\ pending' = pending \cup Announced(s)
  /\ unheard' = IF Canceled(s) THEN unheard \cup {Subject(job[s].cmd)} ELSE unheard
  /\ Goes(s, "remember", job[s].out)
  /\ UNCHANGED << order, store, made, version, seen, alive, inbox, client, view, sends, sent, crashes, ghosts >>

\* A client that is told of a change fetches what it shows of the subject.
Fetch(x) ==
  /\ x \in pending
  /\ pending' = pending \ {x} /\ unheard' = unheard \ {x}
  /\ view' = [view EXCEPT ![x] = Stored(x)]
  /\ UNCHANGED << order, store, server, client, sends, sent, crashes, ghosts >>

\* A fault for the checks: the cap is noticed one outcome too late.
FaultyFull(m) == Cardinality(Held(m)) > Limit

Full(m) == Cardinality(Held(m)) >= Limit

\* A fault for the checks: the outcome of a dead socket's command is not kept.
FaultyKeeps(s) == order[job[s].cmd].keyed /\ ~Canceled(s)

Keeps(s) == order[job[s].cmd].keyed

\* At the cap everything is forgotten.  The outcome is sent to whoever asked.
Remember(s) ==
  /\ At(s, "remember")
  /\ job' = [job EXCEPT ![s] = NoJob]
  /\ Answer(s, job[s].cmd, job[s].out)
  /\ LET c == job[s].cmd
         kept == [out |-> job[s].out, old |-> FALSE]
     IN  \E m \in Memories :
           IF ~Keeps(s) THEN seen' = seen /\ UNCHANGED excused
           ELSE IF Full(m)
           THEN /\ seen' = [d \in Cmds |-> IF d = c THEN kept ELSE NotSeen]
                /\ excused' = excused \cup (Held(m) \ {c})
           ELSE seen' = [m EXCEPT ![c] = kept] /\ UNCHANGED excused
  /\ UNCHANGED << order, store, made, version, alive, inbox, current, others, sends, sent, crashes, ran >>

\* An outcome passes its time.
Age(c) ==
  /\ seen[c] # NotSeen /\ ~seen[c].old
  /\ seen' = [seen EXCEPT ![c].old = TRUE]
  /\ excused' = excused \cup {c}
  /\ UNCHANGED << order, store, made, version, alive, inbox, job, client, others, sends, sent, crashes, ran >>

\* The process stops: the memory and every socket with it.  The files stay.
Crash ==
  /\ crashes < MaxCrashes
  /\ crashes' = crashes + 1
  /\ seen' = [c \in Cmds |-> NotSeen]
  /\ alive' = {} /\ inbox' = [s \in Sockets |-> << >>] /\ job' = [s \in Sockets |-> NoJob]
  /\ excused' = excused \cup Held(seen) \cup {c \in Cmds : Running(c) # {}}
  /\ unheard' = unheard \cup Unpublished
  /\ UNCHANGED << order, store, made, version, client, pending, view, sends, sent, ran >>

----------------------------------------------------------------------------
Run(s) ==
  \/ SetStart(s) \/ SetEnd(s) \/ SetFails(s) \/ Delete(s) \/ Create(s) \/ Update(s)
  \/ Refuse(s) \/ Announce(s) \/ Remember(s)

Next ==
  \/ \E s \in Sockets : Connect(s) \/ SocketDies(s) \/ Receive(s) \/ Run(s)
  \/ \E c \in Cmds : Send(c) \/ Resend(c) \/ Age(c)
  \/ Drop \/ Crash
  \/ \E x \in Keys \cup {Board} : Fetch(x)

Spec == Init /\ [][Next]_vars

----------------------------------------------------------------------------
TypeOK ==
  /\ order \in Plans /\ SettingsTypeOK
  /\ made \in Seq(Cmds) /\ version \in Nat
  /\ seen \in [Cmds -> [out : Outcomes, old : BOOLEAN] \cup {NotSeen}]
  /\ Cardinality(Held(seen)) <= Limit
  /\ alive \subseteq Sockets
  /\ inbox \in [Sockets -> Seq(Cmds)]
  /\ job \in [Sockets -> [cmd : Cmds, step : Steps, out : Outcomes] \cup {NoJob}]
  /\ current \in Sockets \cup {NoSocket} /\ waiting \subseteq sent /\ sent \subseteq Cmds
  /\ told \in [Cmds -> Outcomes \cup {NotSeen}]
  /\ pending \subseteq Keys \cup {Board} /\ unheard \subseteq Keys \cup {Board}
  /\ view \in [Keys \cup {Board} -> Docs \cup {NoDoc} \cup (Nat \X Nat)]
  /\ ran \in [Cmds -> Nat] /\ excused \subseteq Cmds

(***************************************************************************)
(* "replaying it does not do it twice" (keys.go), however often a client   *)
(* that keeps its key lost its socket and sent the command again.  The     *)
(* exceptions are those the code leaves open: the outcome was forgotten    *)
(* (at the cap, after its time, with the process), or the second run began *)
(* before the first was remembered.                                        *)
(***************************************************************************)
AtMostOnce == \A c \in Cmds \ excused : order[c].keyed => ran[c] <= 1

(***************************************************************************)
(* What a page wants takes effect twice only if one of its calls was       *)
(* rejected when the socket dropped: an answer, even an error, tells       *)
(* whether it is safe to ask again. The rejected call is the exception.    *)
(* "The key makes a command replayed after a reconnect safe to send again" *)
(* (client.ts), but the page does not replay it, and the second call has   *)
(* another key.                                                            *)
(***************************************************************************)
TwiceIfUnknown ==
  \A c, d \in Cmds :
    /\ c # d /\ order[c].wish = order[d].wish
    /\ order[c].by = "page" /\ order[d].by = "page"
    /\ ran[c] > 0 /\ ran[d] > 0
    => Unknown(c) \/ Unknown(d)

(***************************************************************************)
(* With the exceptions of AtMostOnce, the answer a client finally gets to  *)
(* a command is true of everything it sent under that key: acknowledged    *)
(* means the command took effect, with the result it had then; an error    *)
(* means it never did.  So a client that keeps its key and is told its     *)
(* first run was canceled knows that neither was applied.  (Creating and   *)
(* removing a project can fail with its directory made, or gone: an error  *)
(* is true of the record alone.)                                           *)
(***************************************************************************)
AnswersAreTrue ==
  \A c \in Cmds \ excused : order[c].keyed /\ told[c] # NotSeen =>
    /\ told[c].err = "none" <=> ran[c] = 1
    /\ told[c].err = "none" /\ order[c].kind = "create" => made[told[c].result] = c

(***************************************************************************)
(* Other clients show what is stored, or are about to be told: a subject   *)
(* shown otherwise waits to be announced or fetched, or its last change was*)
(* made for a socket, or a process, that was gone before the announcement: *)
(* nothing tells of that one until the next change (projectsbus, settings- *)
(* bus and scopes swallow the refusal).                                    *)
(***************************************************************************)
ShownOrComing ==
  \A x \in Keys \cup {Board} :
    view[x] # Stored(x) => x \in pending \cup Unpublished \cup unheard

(***************************************************************************)
(* The files of the settings are the KeyValue store of the contract: with  *)
(* calls of several FS instances, and failures and crashes between their   *)
(* steps, a Set or Delete takes effect at once or changes nothing.         *)
(***************************************************************************)
Asked(s) ==
  LET o == order[job[s].cmd]
  IN  IF At(s, "apply") \/ At(s, "rename")
      THEN CASE o.kind = "set"    -> [key |-> o.key, doc |-> o.doc]
             [] o.kind = "delete" -> [key |-> o.key, doc |-> NoDoc]
             [] OTHER             -> NoJob
      ELSE NoJob

Promise ==
  INSTANCE KeyValue WITH docs <- file, call <- [s \in Sockets |-> Asked(s)], Callers <- Sockets, Idle <- NoJob

ImplementsKeyValue == Promise!Spec
=============================================================================
