--------------------------- MODULE CommandsProofs ---------------------------
(***************************************************************************)
(* What Commands guarantees for every set of commands, sockets, keys and   *)
(* documents, for every number of retries under a key and of restarts: its *)
(* state keeps its shape, a command the memory has not lost sight of runs  *)
(* once and is answered truly, a change that is not announced is accounted *)
(* for, and the files of the settings are the store of their contract.     *)
(***************************************************************************)
EXTENDS Commands, FiniteSetTheorems, SequenceTheorems, TLAPS

\* The sockets that have a temporary file for k.
Writing(k) == {s \in Sockets : At(s, "rename") /\ Key(job[s].cmd) = k}

\* A temporary file belongs to the writer that made it, or to one that a
\* restart stopped: no count goes below zero.
Owned ==
  /\ \A s \in Sockets : At(s, "rename") => order[job[s].cmd].kind = "set"
  /\ \A k \in Keys : IsFiniteSet(Writing(k)) /\ Cardinality(Writing(k)) <= temps[k]

\* An outcome says of command c what became of it.
TrueOf(c, out) ==
  /\ ran[c] \in {0, 1}
  /\ out.err = "none" <=> ran[c] = 1
  /\ out.err = "none" /\ order[c].kind = "create" =>
       out.result \in DOMAIN made /\ made[out.result] = c

\* What a run of c that is under way knows.
Underway(c, s) ==
  /\ job[s].step \in {"apply", "rename"} => ran[c] = 0
  /\ job[s].step \in {"announce", "remember"} => TrueOf(c, job[s].out)
  /\ job[s].step = "announce" => job[s].out.err = "none"

\* Command c is new, or runs once, or is remembered with the truth.
Followed(c) ==
  /\ \A s, t \in Running(c) : s = t
  /\ \A s \in Running(c) : Underway(c, s)
  /\ seen[c] # NotSeen =>
       /\ Running(c) = {} /\ ~seen[c].old
       /\ TrueOf(c, seen[c].out)
       /\ told[c] \in {NotSeen, seen[c].out}
  /\ seen[c] = NotSeen => told[c] = NotSeen /\ (Running(c) = {} => ran[c] = 0)

Accounted == \A c \in Cmds \ excused : order[c].keyed => Followed(c)

\* The jobs a reader can have.
Jobs == [cmd : Cmds, step : Steps, out : Outcomes]

----------------------------------------------------------------------------
(***************************************************************************)
(* What a command asks for names a key when its subject is a setting.      *)
(***************************************************************************)
LEMMA OrderShape ==
  ASSUME NEW o \in Orders
  PROVE  /\ o.kind \in {"set", "delete", "create", "update"}
         /\ o.keyed \in BOOLEAN
         /\ o.kind = "set" => o.key \in Keys /\ o.doc \in Docs
         /\ o.kind = "delete" => o.key \in Keys
         /\ o.kind = "update" => o.expected \in Nat
  BY DEF Orders

(***************************************************************************)
(* A step of a command is a step of a reader that runs one.                *)
(***************************************************************************)
LEMMA JobShape ==
  ASSUME TypeOK, NEW s \in Sockets, job[s] # NoJob
  PROVE  /\ job[s] \in Jobs /\ job[s].cmd \in Cmds /\ job[s].step \in Steps /\ job[s].out \in Outcomes
         /\ order[job[s].cmd] \in Orders
<1>1. job[s] \in Jobs
  BY DEF TypeOK, Jobs
<1>2. order \in [Cmds -> Orders]
  BY CommandsAssumption DEF TypeOK
<1> QED
  BY <1>1, <1>2 DEF Jobs

(***************************************************************************)
(* What Goes does: one reader's job moves on, with the same command.       *)
(***************************************************************************)
LEMMA GoesOn ==
  ASSUME TypeOK, NEW s \in Sockets, job[s] # NoJob, NEW step \in Steps, NEW out \in Outcomes,
         Goes(s, step, out)
  PROVE  /\ job' \in [Sockets -> Jobs \cup {NoJob}]
         /\ job'[s] # NoJob /\ job'[s].cmd = job[s].cmd /\ job'[s].step = step /\ job'[s].out = out
         /\ \A t \in Sockets \ {s} : job'[t] = job[t]
<1> DEFINE new == [cmd |-> job[s].cmd, step |-> step, out |-> out]
<1>1. job \in [Sockets -> Jobs \cup {NoJob}]
  BY DEF TypeOK, Jobs
<1>2. job' = [job EXCEPT ![s] = new]
  BY DEF Goes
<1>3. new \in Jobs
  BY JobShape DEF Jobs
<1>4. new # NoJob
  BY <1>3, CommandsAssumption DEF Jobs
<1>5. job'[s] = new
  BY <1>1, <1>2
<1> QED
  BY <1>1, <1>2, <1>3, <1>4, <1>5

(***************************************************************************)
(* What collect leaves is part of the memory.                              *)
(***************************************************************************)
LEMMA MemoryShape ==
  ASSUME TypeOK, IsFiniteSet(Held(seen)), NEW m \in Memories
  PROVE  /\ m \in [Cmds -> [out : Outcomes, old : BOOLEAN] \cup {NotSeen}]
         /\ \A c \in Cmds : m[c] \in {seen[c], NotSeen}
         /\ \A c \in Cmds : seen[c] # NotSeen /\ ~seen[c].old => m[c] = seen[c]
         /\ IsFiniteSet(Held(m)) /\ Cardinality(Held(m)) <= Limit
         /\ Cardinality(Held(m)) \in Nat
<1>1. /\ m \in [Cmds -> [out : Outcomes, old : BOOLEAN] \cup {NotSeen}]
      /\ \A c \in Cmds : m[c] \in {seen[c], NotSeen}
      /\ \A c \in Cmds : seen[c] # NotSeen /\ ~seen[c].old => m[c] = seen[c]
  BY DEF Memories, Held, TypeOK
<1>2. Held(m) \subseteq Held(seen)
  BY <1>1 DEF Held
<1>3. IsFiniteSet(Held(m)) /\ Cardinality(Held(m)) <= Cardinality(Held(seen))
  BY <1>2, FS_Subset
<1>4. Cardinality(Held(m)) \in Nat /\ Cardinality(Held(seen)) \in Nat /\ Cardinality(Held(seen)) <= Limit
  BY <1>3, FS_CardinalityType DEF TypeOK
<1> QED
  BY <1>1, <1>3, <1>4, CommandsAssumption

(***************************************************************************)
(* One more outcome fits into a memory that is not full.                   *)
(***************************************************************************)
LEMMA MemoryWith ==
  ASSUME TypeOK, IsFiniteSet(Held(seen)), NEW m \in Memories, ~Full(m),
         NEW c \in Cmds, NEW kept \in [out : Outcomes, old : BOOLEAN],
         NEW n, n = [m EXCEPT ![c] = kept]
  PROVE  /\ n \in [Cmds -> [out : Outcomes, old : BOOLEAN] \cup {NotSeen}]
         /\ IsFiniteSet(Held(n)) /\ Cardinality(Held(n)) <= Limit
<1>1. m \in [Cmds -> [out : Outcomes, old : BOOLEAN] \cup {NotSeen}]
      /\ IsFiniteSet(Held(m)) /\ Cardinality(Held(m)) \in Nat
  BY MemoryShape
<1>2. n \in [Cmds -> [out : Outcomes, old : BOOLEAN] \cup {NotSeen}]
  BY <1>1
<1>3. Held(n) = Held(m) \cup {c}
  <2>1. kept # NotSeen
    BY CommandsAssumption
  <2> QED
    BY <1>1, <2>1 DEF Held
<1>4. /\ IsFiniteSet(Held(n))
      /\ Cardinality(Held(n)) = IF c \in Held(m) THEN Cardinality(Held(m)) ELSE Cardinality(Held(m)) + 1
  <2>1. ASSUME NEW S, IsFiniteSet(S)
        PROVE  /\ IsFiniteSet(S \cup {c})
               /\ Cardinality(S \cup {c}) = IF c \in S THEN Cardinality(S) ELSE Cardinality(S) + 1
    BY <2>1, FS_AddElement
  <2> QED
    BY <1>1, <1>3, <2>1, Zenon
<1>5. Cardinality(Held(m)) < Limit /\ Limit \in Nat
  <2>1. ~(Cardinality(Held(m)) >= Limit)
    BY DEF Full
  <2> QED
    BY <1>1, <2>1, CommandsAssumption
<1>6. Cardinality(Held(n)) <= Limit
  BY <1>1, <1>4, <1>5
<1> QED
  BY <1>2, <1>4, <1>6

(***************************************************************************)
(* A memory that was full and emptied holds one outcome.                   *)
(***************************************************************************)
LEMMA MemoryOf ==
  ASSUME NEW c \in Cmds, NEW kept \in [out : Outcomes, old : BOOLEAN],
         NEW n, n = [d \in Cmds |-> IF d = c THEN kept ELSE NotSeen]
  PROVE  /\ n \in [Cmds -> [out : Outcomes, old : BOOLEAN] \cup {NotSeen}]
         /\ IsFiniteSet(Held(n)) /\ Cardinality(Held(n)) <= Limit
<1>1. kept # NotSeen
  BY CommandsAssumption
<1>2. Held(n) = {c}
  BY <1>1 DEF Held
<1>3. IsFiniteSet({c}) /\ Cardinality({c}) = 1
  BY FS_Singleton
<1>4. 1 <= Limit
  BY CommandsAssumption
<1>5. n \in [Cmds -> [out : Outcomes, old : BOOLEAN] \cup {NotSeen}]
  OBVIOUS
<1> QED
  BY <1>2, <1>3, <1>4, <1>5

(***************************************************************************)
(* The socket of a command that is answered learns its outcome; nobody     *)
(* else does.                                                              *)
(***************************************************************************)
LEMMA AnswerShape ==
  ASSUME TypeOK, NEW s \in Sockets, NEW c \in Cmds, NEW out \in Outcomes, Answer(s, c, out)
  PROVE  /\ waiting' \subseteq waiting
         /\ told' \in [Cmds -> Outcomes \cup {NotSeen}]
         /\ told'[c] \in {told[c], out}
         /\ \A d \in Cmds \ {c} : told'[d] = told[d]
  BY DEF Answer, TypeOK

----------------------------------------------------------------------------
(***************************************************************************)
(* A set that gains an element grows by one at most.                       *)
(***************************************************************************)
LEMMA OneMore ==
  ASSUME NEW S, IsFiniteSet(S), NEW x
  PROVE  /\ IsFiniteSet(S \cup {x}) /\ Cardinality(S) \in Nat
         /\ Cardinality(S \cup {x}) <= Cardinality(S) + 1
<1>1. Cardinality(S) \in Nat
  BY FS_CardinalityType
<1>2. /\ IsFiniteSet(S \cup {x})
      /\ Cardinality(S \cup {x}) = IF x \in S THEN Cardinality(S) ELSE Cardinality(S) + 1
  BY FS_AddElement
<1> QED
  BY <1>1, <1>2

(***************************************************************************)
(* A set that loses an element had one to lose.                            *)
(***************************************************************************)
LEMMA OneLess ==
  ASSUME NEW S, IsFiniteSet(S), NEW x \in S
  PROVE  /\ IsFiniteSet(S \ {x}) /\ Cardinality(S) \in Nat \ {0}
         /\ Cardinality(S \ {x}) = Cardinality(S) - 1
<1>1. Cardinality(S) \in Nat
  BY FS_CardinalityType
<1>2. /\ IsFiniteSet(S \ {x})
      /\ Cardinality(S \ {x}) = Cardinality(S) - 1
  BY FS_RemoveElement
<1>3. Cardinality(S) # 0
  BY FS_EmptySet
<1> QED
  BY <1>1, <1>2, <1>3

(***************************************************************************)
(* A step of a reader that writes no document leaves the temporary files   *)
(* and their owners alone.                                                 *)
(***************************************************************************)
LEMMA OwnedKept ==
  ASSUME TypeOK, Owned, NEW s \in Sockets, ~At(s, "rename"), ~At(s, "rename")',
         \A t \in Sockets \ {s} : job'[t] = job[t], order' = order, temps' = temps
  PROVE  Owned'
<1>1. \A t \in Sockets : At(t, "rename")' => At(t, "rename") /\ job'[t] = job[t]
  BY DEF At
<1>2. \A t \in Sockets : At(t, "rename") => At(t, "rename")' /\ job'[t] = job[t]
  BY DEF At
<1>3. \A k \in Keys : Writing(k)' = Writing(k)
  BY <1>1, <1>2 DEF Writing, Key
<1>4. \A t \in Sockets : At(t, "rename")' => order'[job'[t].cmd].kind = "set"
  BY <1>1 DEF Owned
<1> QED
  BY <1>3, <1>4 DEF Owned

(***************************************************************************)
(* A writer that makes its temporary file becomes its owner.               *)
(***************************************************************************)
LEMMA OwnedMore ==
  ASSUME TypeOK, Owned, NEW s \in Sockets, ~At(s, "rename"), job[s] # NoJob,
         order[job[s].cmd].kind = "set",
         job'[s] # NoJob, job'[s].cmd = job[s].cmd, job'[s].step = "rename",
         \A t \in Sockets \ {s} : job'[t] = job[t], order' = order,
         NEW key, key = Key(job[s].cmd), temps' = [temps EXCEPT ![key] = @ + 1]
  PROVE  Owned'
<1>1. key \in Keys
  BY JobShape, OrderShape DEF Key
<1>2. temps \in [Keys -> Nat]
  BY DEF TypeOK, SettingsTypeOK
<1>3. \A t \in Sockets \ {s} : (At(t, "rename")' <=> At(t, "rename"))
  BY DEF At
<1>4. Writing(key)' = Writing(key) \cup {s}
  BY <1>3 DEF Writing, Key, At
<1>5. \A k \in Keys \ {key} : Writing(k)' = Writing(k)
  BY <1>3 DEF Writing, Key, At
<1>6. \A t \in Sockets : At(t, "rename")' => order'[job'[t].cmd].kind = "set"
  BY <1>3 DEF Owned
<1>7. IsFiniteSet(Writing(key)) /\ Cardinality(Writing(key)) <= temps[key]
  BY <1>1 DEF Owned
<1>8. /\ IsFiniteSet(Writing(key) \cup {s}) /\ Cardinality(Writing(key)) \in Nat
      /\ Cardinality(Writing(key) \cup {s}) <= Cardinality(Writing(key)) + 1
      /\ Cardinality(Writing(key) \cup {s}) \in Nat
  BY <1>7, OneMore, FS_CardinalityType
<1>9. temps'[key] = temps[key] + 1 /\ temps[key] \in Nat
  BY <1>1, <1>2
<1>10. Cardinality(Writing(key) \cup {s}) <= temps'[key]
  BY <1>7, <1>8, <1>9
<1>11. \A k \in Keys \ {key} : temps'[k] = temps[k]
  BY <1>2
<1>12. ASSUME NEW k \in Keys
       PROVE  (IsFiniteSet(Writing(k)) /\ Cardinality(Writing(k)) <= temps[k])'
  <2>1. CASE k = key
    BY <2>1, <1>4, <1>8, <1>10
  <2>2. CASE k # key
    BY <2>2, <1>5, <1>11 DEF Owned
  <2> QED
    BY <2>1, <2>2
<1> QED
  BY <1>6, <1>12 DEF Owned

(***************************************************************************)
(* A writer that renames or removes its temporary file has one to take     *)
(* away, and is its owner no more.                                         *)
(***************************************************************************)
LEMMA OwnedLess ==
  ASSUME TypeOK, Owned, NEW s \in Sockets, At(s, "rename"), ~At(s, "rename")',
         \A t \in Sockets \ {s} : job'[t] = job[t], order' = order,
         NEW key, key = Key(job[s].cmd), temps' = [temps EXCEPT ![key] = @ - 1]
  PROVE  Owned' /\ temps' \in [Keys -> Nat]
<1>1. key \in Keys
  BY JobShape, OrderShape DEF Key, Owned, At
<1>2. temps \in [Keys -> Nat]
  BY DEF TypeOK, SettingsTypeOK
<1>3. \A t \in Sockets \ {s} : (At(t, "rename")' <=> At(t, "rename"))
  BY DEF At
<1>4. Writing(key)' = Writing(key) \ {s} /\ s \in Writing(key)
  BY <1>3 DEF Writing, Key
<1>5. \A k \in Keys \ {key} : Writing(k)' = Writing(k)
  BY <1>3 DEF Writing, Key
<1>6. \A t \in Sockets : At(t, "rename")' => order'[job'[t].cmd].kind = "set"
  BY <1>3 DEF Owned
<1>7. IsFiniteSet(Writing(key)) /\ Cardinality(Writing(key)) <= temps[key]
  BY <1>1 DEF Owned
<1>8. /\ IsFiniteSet(Writing(key) \ {s}) /\ Cardinality(Writing(key)) \in Nat \ {0}
      /\ Cardinality(Writing(key) \ {s}) = Cardinality(Writing(key)) - 1
  BY <1>4, <1>7, OneLess
<1>9. temps'[key] = temps[key] - 1 /\ temps[key] \in Nat
  BY <1>1, <1>2
<1>10. Cardinality(Writing(key) \ {s}) <= temps'[key] /\ temps'[key] \in Nat
  BY <1>7, <1>8, <1>9
<1>11. \A k \in Keys \ {key} : temps'[k] = temps[k]
  BY <1>2
<1>12. ASSUME NEW k \in Keys
       PROVE  (IsFiniteSet(Writing(k)) /\ Cardinality(Writing(k)) <= temps[k])'
  <2>1. CASE k = key
    BY <2>1, <1>4, <1>8, <1>10
  <2>2. CASE k # key
    BY <2>2, <1>5, <1>11 DEF Owned
  <2> QED
    BY <2>1, <2>2
<1>13. Owned'
  BY <1>6, <1>12 DEF Owned
<1>14. temps' \in [Keys -> Nat]
  BY <1>2, <1>10, <1>11
<1> QED
  BY <1>13, <1>14

----------------------------------------------------------------------------
\* What the types rest on.
Base == TypeOK /\ IsFiniteSet(Held(seen)) /\ Owned

\* What the steps of the client and of the connections leave alone.
Still == order' = order /\ store' = store /\ seen' = seen /\ job' = job

(***************************************************************************)
(* While no reader moves, the temporary files keep their owners.           *)
(***************************************************************************)
LEMMA OwnedStill ==
  ASSUME Owned, order' = order, temps' = temps, job' = job
  PROVE  Owned'
  BY DEF Owned, Writing, At, Key

(***************************************************************************)
(* The steps of the client, and of its connections, keep the types.        *)
(***************************************************************************)
LEMMA ClientTypes ==
  ASSUME Base, NEW s, NEW c,
         (s \in Sockets /\ (Connect(s) \/ SocketDies(s))) \/ (c \in Cmds /\ (Send(c) \/ Resend(c))) \/ Drop
  PROVE  Base'
<1>1. Still
  BY DEF Connect, SocketDies, Send, Resend, Transmit, Drop, Still, server
<1>2. Owned' /\ Held(seen)' = Held(seen) /\ SettingsTypeOK'
  BY <1>1, OwnedStill DEF Still, store, Base, Held, TypeOK, SettingsTypeOK
<1>3. order' \in Plans /\ seen' = seen /\ job' = job
  BY <1>1 DEF Still, Base, TypeOK
<1>4. made' = made /\ version' = version /\ told' = told /\ others' = others /\ ghosts' = ghosts
  BY DEF Connect, SocketDies, Send, Resend, Transmit, Drop, server, client
<1>5. alive' \subseteq Sockets
  BY DEF Connect, SocketDies, Send, Resend, Transmit, Drop, server, client, Base, TypeOK
<1>6. inbox' \in [Sockets -> Seq(Cmds)]
  <2>1. inbox \in [Sockets -> Seq(Cmds)] /\ current \in Sockets \cup {NoSocket}
    BY DEF Base, TypeOK
  <2>2. << >> \in Seq(Cmds) /\ \A q \in Seq(Cmds), d \in Cmds : Append(q, d) \in Seq(Cmds)
    OBVIOUS
  <2>3. CASE c \in Cmds /\ (Send(c) \/ Resend(c))
    <3>1. Transmit(c)
      BY <2>3 DEF Send, Resend
    <3>2. inbox' = IF current \in alive THEN [inbox EXCEPT ![current] = Append(inbox[current], c)] ELSE inbox
      BY <3>1 DEF Transmit
    <3>3. current \in alive => inbox[current] \in Seq(Cmds)
      BY <2>1 DEF Base, TypeOK
    <3> QED
      BY <2>1, <2>2, <2>3, <3>2, <3>3
  <2>4. CASE SocketDies(s)
    BY <2>1, <2>2, <2>4 DEF SocketDies
  <2>5. CASE Connect(s) \/ Drop
    BY <2>1, <2>5 DEF Connect, Drop, server
  <2> QED
    BY <2>3, <2>4, <2>5
<1>7. current' \in Sockets \cup {NoSocket} /\ waiting' \subseteq sent' /\ sent' \subseteq Cmds
  BY DEF Connect, SocketDies, Send, Resend, Transmit, Drop, client, Base, TypeOK
<1>8. TypeOK'
  BY <1>2, <1>3, <1>4, <1>5, <1>6, <1>7 DEF Base, TypeOK, others, ghosts
<1> QED
  BY <1>2, <1>8 DEF Base

(***************************************************************************)
(* So does the reader that takes a frame.                                  *)
(***************************************************************************)
LEMMA ReceiveTypes ==
  ASSUME Base, NEW s \in Sockets, Receive(s)
  PROVE  Base'
<1>1. PICK c : c = Head(inbox[s])
  OBVIOUS
<1>2. /\ s \in alive /\ job[s] = NoJob /\ inbox[s] # << >>
      /\ inbox' = [inbox EXCEPT ![s] = Tail(inbox[s])]
      /\ seen' \in Memories
      /\ UNCHANGED << order, store, made, version, alive, current, others, sends, sent, crashes, ran >>
  BY DEF Receive
<1>3. c \in Cmds /\ inbox' \in [Sockets -> Seq(Cmds)]
  BY <1>1, <1>2 DEF Base, TypeOK
<1>4. /\ seen' \in [Cmds -> [out : Outcomes, old : BOOLEAN] \cup {NotSeen}]
      /\ IsFiniteSet(Held(seen)') /\ Cardinality(Held(seen)') <= Limit
  <2>1. PICK m \in Memories : m = seen'
    BY <1>2
  <2>2. Held(seen)' = Held(m)
    BY <2>1 DEF Held
  <2> QED
    BY <2>1, <2>2, MemoryShape DEF Base
<1>5. job' \in [Sockets -> Jobs \cup {NoJob}] /\ Owned'
  <2>1. CASE Remembered(c)
    <3>1. job' = job
      BY <1>1, <2>1 DEF Receive
    <3> QED
      BY <1>2, <3>1, OwnedStill DEF Base, TypeOK, Jobs, store
  <2>2. CASE ~Remembered(c)
    <3> DEFINE new == [cmd |-> c, step |-> "apply", out |-> Ok]
    <3>1. job' = [job EXCEPT ![s] = new]
      BY <1>1, <2>2 DEF Receive
    <3>2. new \in Jobs
      BY <1>3 DEF Jobs, Steps, Outcomes, Errors, Ok
    <3>3. job \in [Sockets -> Jobs \cup {NoJob}]
      BY DEF Base, TypeOK, Jobs
    <3>4. job' \in [Sockets -> Jobs \cup {NoJob}] /\ job'[s] = new
          /\ \A t \in Sockets \ {s} : job'[t] = job[t]
      BY <3>1, <3>2, <3>3
    <3>5. ~At(s, "rename") /\ ~At(s, "rename")'
      BY <1>2, <3>4 DEF At
    <3> QED
      BY <1>2, <3>4, <3>5, OwnedKept DEF Base, store
  <2> QED
    BY <2>1, <2>2
<1>6. waiting' \subseteq waiting /\ told' \in [Cmds -> Outcomes \cup {NotSeen}] /\ excused' \subseteq Cmds
  <2>1. CASE Remembered(c)
    <3>1. Answer(s, c, Replay(c)) /\ excused' = excused
      BY <1>1, <2>1 DEF Receive
    <3>2. Replay(c) \in Outcomes
      BY <1>3, <2>1 DEF Remembered, Replay, Base, TypeOK
    <3> QED
      BY <1>3, <3>1, <3>2, AnswerShape DEF Base, TypeOK
  <2>2. CASE ~Remembered(c)
    BY <1>1, <1>3, <2>2 DEF Receive, Base, TypeOK
  <2> QED
    BY <2>1, <2>2
<1>7. SettingsTypeOK'
  BY <1>2 DEF store, Base, TypeOK, SettingsTypeOK
<1>8. TypeOK'
  BY <1>2, <1>3, <1>4, <1>5, <1>6, <1>7 DEF Base, TypeOK, others, Jobs, Held
<1> QED
  BY <1>4, <1>5, <1>8 DEF Base

----------------------------------------------------------------------------
\* A reader's step that asks a store for something.
Work(s) ==
  SetStart(s) \/ SetEnd(s) \/ SetFails(s) \/ Delete(s) \/ Create(s) \/ Update(s) \/ Refuse(s)

\* What such a step does to the job of the reader, ...
Advances(s) ==
  /\ job[s] # NoJob /\ job[s].step \in {"apply", "rename"}
  /\ job' \in [Sockets -> Jobs \cup {NoJob}]
  /\ job'[s] # NoJob /\ job'[s].cmd = job[s].cmd
  /\ job'[s].step \in {"rename", "announce", "remember"}
  /\ \A t \in Sockets \ {s} : job'[t] = job[t]

\* ... to the counts ...
Counts(s) ==
  /\ made' \in {made, Append(made, job[s].cmd)}
  /\ job'[s].step # "announce" => ran' = ran
  /\ job'[s].step = "announce" =>
       /\ job'[s].out.err = "none" /\ ran' = [ran EXCEPT ![job[s].cmd] = @ + 1]
       /\ order[job[s].cmd].kind = "create" =>
            job'[s].out.result \in DOMAIN made' /\ made'[job'[s].out.result] = job[s].cmd
  /\ job'[s].step = "remember" => job'[s].out.err # "none"

\* ... and to what is stored.
Stores(s) ==
  /\ version' \in Nat /\ file' \in [Keys -> Docs \cup {NoDoc}] /\ dirs' \subseteq Keys
  /\ job'[s].step # "announce" => file' = file /\ made' = made /\ version' = version
  /\ \A k \in Keys : k # Subject(job[s].cmd) => file'[k] = file[k]
  /\ Board # Subject(job[s].cmd) => made' = made /\ version' = version

Effects(s) == Advances(s) /\ Counts(s) /\ Stores(s)

(***************************************************************************)
(* A write begins.                                                         *)
(***************************************************************************)
LEMMA SetStartIs ==
  ASSUME Base, NEW s \in Sockets, SetStart(s)
  PROVE  Effects(s) /\ Owned' /\ temps' \in [Keys -> Nat]
<1>1. /\ At(s, "apply") /\ order[job[s].cmd].kind = "set" /\ job[s] # NoJob
      /\ Goes(s, "rename", Ok) /\ WriteTemp(Key(job[s].cmd))
      /\ order' = order /\ made' = made /\ version' = version /\ ran' = ran
  BY DEF SetStart, Aside, At
<1>2. Ok \in Outcomes /\ "rename" \in Steps
  BY DEF Ok, Outcomes, Errors, Steps
<1>3. /\ job' \in [Sockets -> Jobs \cup {NoJob}]
      /\ job'[s] # NoJob /\ job'[s].cmd = job[s].cmd /\ job'[s].step = "rename" /\ job'[s].out = Ok
      /\ \A t \in Sockets \ {s} : job'[t] = job[t]
  BY <1>1, <1>2, GoesOn DEF Base
<1>4. Advances(s)
  BY <1>1, <1>3 DEF Advances, At
<1>5. Counts(s)
  BY <1>1, <1>3 DEF Counts
<1>6. PICK key : key = Key(job[s].cmd)
  OBVIOUS
<1>7. /\ file' = file /\ dirs' \subseteq Keys /\ temps' = [temps EXCEPT ![key] = @ + 1]
      /\ temps \in [Keys -> Nat] /\ file \in [Keys -> Docs \cup {NoDoc}]
  BY <1>1, <1>6 DEF WriteTemp, Base, TypeOK, SettingsTypeOK
<1>8. Stores(s)
  BY <1>1, <1>3, <1>7 DEF Stores, Base, TypeOK
<1>9. Owned'
  BY <1>1, <1>3, <1>6, <1>7, OwnedMore DEF Base, At
<1>10. temps' \in [Keys -> Nat]
  <2>1. key \in Keys
    BY <1>1, <1>6, JobShape, OrderShape DEF Key, Base
  <2>2. temps[key] + 1 \in Nat
    BY <1>7, <2>1
  <2> QED
    BY <1>7, <2>2
<1> QED
  BY <1>4, <1>5, <1>8, <1>9, <1>10 DEF Effects

(***************************************************************************)
(* A write ends with the rename.                                           *)
(***************************************************************************)
LEMMA SetEndIs ==
  ASSUME Base, NEW s \in Sockets, SetEnd(s)
  PROVE  Effects(s) /\ Owned' /\ temps' \in [Keys -> Nat]
<1>1. /\ At(s, "rename") /\ job[s] # NoJob
      /\ Goes(s, "announce", Ok) /\ Rename(Key(job[s].cmd), order[job[s].cmd].doc)
      /\ order' = order /\ made' = made /\ version' = version
      /\ ran' = [ran EXCEPT ![job[s].cmd] = @ + 1]
  BY DEF SetEnd, Applied, Aside, At
<1>2. Ok \in Outcomes /\ "announce" \in Steps
  BY DEF Ok, Outcomes, Errors, Steps
<1>3. /\ job' \in [Sockets -> Jobs \cup {NoJob}]
      /\ job'[s] # NoJob /\ job'[s].cmd = job[s].cmd /\ job'[s].step = "announce" /\ job'[s].out = Ok
      /\ \A t \in Sockets \ {s} : job'[t] = job[t]
  BY <1>1, <1>2, GoesOn DEF Base
<1>4. Advances(s)
  BY <1>1, <1>3 DEF Advances, At
<1>5. order[job[s].cmd].kind = "set" /\ order[job[s].cmd].doc \in Docs
  BY <1>1, JobShape, OrderShape DEF Base, Owned
<1>6. Counts(s)
  BY <1>1, <1>3, <1>5 DEF Counts, Ok
<1>7. PICK key : key = Key(job[s].cmd)
  OBVIOUS
<1>8. /\ file' = [file EXCEPT ![key] = order[job[s].cmd].doc] /\ dirs' = dirs
      /\ temps' = [temps EXCEPT ![key] = @ - 1]
  BY <1>1, <1>7 DEF Rename
<1>9. file \in [Keys -> Docs \cup {NoDoc}] /\ dirs \subseteq Keys /\ version \in Nat
  BY DEF Base, TypeOK, SettingsTypeOK
<1>10. Subject(job[s].cmd) = key
  BY <1>5, <1>7 DEF Subject
<1>11. Stores(s)
  BY <1>1, <1>3, <1>5, <1>8, <1>9, <1>10 DEF Stores
<1>12. Owned' /\ temps' \in [Keys -> Nat]
  BY <1>1, <1>3, <1>7, <1>8, OwnedLess DEF Base, At
<1> QED
  BY <1>4, <1>6, <1>11, <1>12 DEF Effects

(***************************************************************************)
(* A write fails and takes its temporary file away.                        *)
(***************************************************************************)
LEMMA SetFailsIs ==
  ASSUME Base, NEW s \in Sockets, SetFails(s)
  PROVE  Effects(s) /\ Owned' /\ temps' \in [Keys -> Nat]
<1>1. /\ At(s, "rename") /\ job[s] # NoJob
      /\ Goes(s, "remember", Error("failed")) /\ DropTemp(Key(job[s].cmd))
      /\ order' = order /\ made' = made /\ version' = version /\ ran' = ran
  BY DEF SetFails, Aside, At
<1>2. Error("failed") \in Outcomes /\ Error("failed").err # "none" /\ "remember" \in Steps
  BY DEF Error, Outcomes, Errors, Steps
<1>3. /\ job' \in [Sockets -> Jobs \cup {NoJob}]
      /\ job'[s] # NoJob /\ job'[s].cmd = job[s].cmd /\ job'[s].step = "remember"
      /\ job'[s].out = Error("failed")
      /\ \A t \in Sockets \ {s} : job'[t] = job[t]
  BY <1>1, <1>2, GoesOn DEF Base
<1>4. Advances(s)
  BY <1>1, <1>3 DEF Advances, At
<1>5. Counts(s)
  BY <1>1, <1>2, <1>3 DEF Counts
<1>6. PICK key : key = Key(job[s].cmd)
  OBVIOUS
<1>7. file' = file /\ dirs' = dirs /\ temps' = [temps EXCEPT ![key] = @ - 1]
  BY <1>1, <1>6 DEF DropTemp
<1>8. Stores(s)
  BY <1>1, <1>3, <1>7 DEF Stores, Base, TypeOK, SettingsTypeOK
<1>9. Owned' /\ temps' \in [Keys -> Nat]
  BY <1>1, <1>3, <1>6, <1>7, OwnedLess DEF Base, At
<1> QED
  BY <1>4, <1>5, <1>8, <1>9 DEF Effects

(***************************************************************************)
(* The steps that write no document leave the temporary files alone.       *)
(***************************************************************************)
LEMMA ApplyOwned ==
  ASSUME Base, NEW s \in Sockets, At(s, "apply"), Advances(s), job'[s].step # "rename",
         order' = order, temps' = temps
  PROVE  Owned' /\ temps' \in [Keys -> Nat]
<1>1. ~At(s, "rename") /\ ~At(s, "rename")'
  BY DEF At
<1>2. \A t \in Sockets \ {s} : job'[t] = job[t]
  BY DEF Advances
<1>3. Owned'
  BY <1>1, <1>2, OwnedKept DEF Base
<1> QED
  BY <1>3 DEF Base, TypeOK, SettingsTypeOK

(***************************************************************************)
(* A setting is removed.                                                   *)
(***************************************************************************)
LEMMA DeleteIs ==
  ASSUME Base, NEW s \in Sockets, Delete(s)
  PROVE  Effects(s) /\ Owned' /\ temps' \in [Keys -> Nat]
<1>1. /\ At(s, "apply") /\ job[s] # NoJob /\ order[job[s].cmd].kind = "delete"
      /\ Goes(s, "announce", Ok) /\ RemoveFile(Key(job[s].cmd))
      /\ order' = order /\ made' = made /\ version' = version
      /\ ran' = [ran EXCEPT ![job[s].cmd] = @ + 1]
  BY DEF Delete, Applied, Aside, At
<1>2. Ok \in Outcomes /\ "announce" \in Steps
  BY DEF Ok, Outcomes, Errors, Steps
<1>3. /\ job' \in [Sockets -> Jobs \cup {NoJob}]
      /\ job'[s] # NoJob /\ job'[s].cmd = job[s].cmd /\ job'[s].step = "announce" /\ job'[s].out = Ok
      /\ \A t \in Sockets \ {s} : job'[t] = job[t]
  BY <1>1, <1>2, GoesOn DEF Base
<1>4. Advances(s)
  BY <1>1, <1>3 DEF Advances, At
<1>5. Counts(s)
  BY <1>1, <1>3 DEF Counts, Ok
<1>6. PICK key : key = Key(job[s].cmd)
  OBVIOUS
<1>7. file' = [file EXCEPT ![key] = NoDoc] /\ dirs' = dirs \ {key} /\ temps' = temps
  BY <1>1, <1>6 DEF RemoveFile
<1>8. file \in [Keys -> Docs \cup {NoDoc}] /\ dirs \subseteq Keys /\ version \in Nat
  BY DEF Base, TypeOK, SettingsTypeOK
<1>9. Subject(job[s].cmd) = key
  BY <1>1, <1>6 DEF Subject
<1>10. Stores(s)
  BY <1>1, <1>3, <1>7, <1>8, <1>9 DEF Stores
<1>11. Owned' /\ temps' \in [Keys -> Nat]
  BY <1>1, <1>3, <1>4, <1>7, ApplyOwned
<1> QED
  BY <1>4, <1>5, <1>10, <1>11 DEF Effects

(***************************************************************************)
(* A project, an item or a comment is created.                             *)
(***************************************************************************)
LEMMA CreateIs ==
  ASSUME Base, NEW s \in Sockets, Create(s)
  PROVE  Effects(s) /\ Owned' /\ temps' \in [Keys -> Nat]
<1> DEFINE out == [err |-> "none", result |-> Len(made')]
<1>1. /\ At(s, "apply") /\ job[s] # NoJob /\ order[job[s].cmd].kind = "create"
      /\ made' = Append(made, job[s].cmd)
      /\ Goes(s, "announce", out)
      /\ order' = order /\ store' = store /\ version' = version
      /\ ran' = [ran EXCEPT ![job[s].cmd] = @ + 1]
  BY DEF Create, Applied, At
<1>2. made \in Seq(Cmds) /\ job[s].cmd \in Cmds
  BY <1>1, JobShape DEF Base, TypeOK
<1>3. Len(made') = Len(made) + 1 /\ Len(made') \in DOMAIN made' /\ made'[Len(made')] = job[s].cmd
      /\ Len(made') \in Nat
  BY <1>1, <1>2
<1>4. out \in Outcomes /\ "announce" \in Steps
  BY <1>3 DEF Outcomes, Errors, Steps
<1>5. /\ job' \in [Sockets -> Jobs \cup {NoJob}]
      /\ job'[s] # NoJob /\ job'[s].cmd = job[s].cmd /\ job'[s].step = "announce" /\ job'[s].out = out
      /\ \A t \in Sockets \ {s} : job'[t] = job[t]
  <2> HIDE DEF out
  <2> QED
    BY <1>1, <1>4, GoesOn DEF Base
<1>6. Advances(s)
  BY <1>1, <1>5 DEF Advances, At
<1>7. Counts(s)
  BY <1>1, <1>3, <1>5 DEF Counts
<1>8. Subject(job[s].cmd) = Board
  BY <1>1 DEF Subject
<1>9. Stores(s)
  BY <1>1, <1>5, <1>8 DEF Stores, store, Base, TypeOK, SettingsTypeOK
<1>10. Owned' /\ temps' \in [Keys -> Nat]
  BY <1>1, <1>5, <1>6, ApplyOwned DEF store
<1> QED
  BY <1>6, <1>7, <1>9, <1>10 DEF Effects

(***************************************************************************)
(* An item is edited at the version the client expects.                    *)
(***************************************************************************)
LEMMA UpdateIs ==
  ASSUME Base, NEW s \in Sockets, Update(s)
  PROVE  Effects(s) /\ Owned' /\ temps' \in [Keys -> Nat]
<1> DEFINE out == [err |-> "none", result |-> version']
<1>1. /\ At(s, "apply") /\ job[s] # NoJob /\ order[job[s].cmd].kind = "update"
      /\ version' = version + 1
      /\ Goes(s, "announce", out)
      /\ order' = order /\ store' = store /\ made' = made
      /\ ran' = [ran EXCEPT ![job[s].cmd] = @ + 1]
  BY DEF Update, Applied, Aside, At
<1>2. version' \in Nat
  BY <1>1 DEF Base, TypeOK
<1>3. out \in Outcomes /\ "announce" \in Steps
  BY <1>2 DEF Outcomes, Errors, Steps
<1>4. /\ job' \in [Sockets -> Jobs \cup {NoJob}]
      /\ job'[s] # NoJob /\ job'[s].cmd = job[s].cmd /\ job'[s].step = "announce" /\ job'[s].out = out
      /\ \A t \in Sockets \ {s} : job'[t] = job[t]
  <2> HIDE DEF out
  <2> QED
    BY <1>1, <1>3, GoesOn DEF Base
<1>5. Advances(s)
  BY <1>1, <1>4 DEF Advances, At
<1>6. Counts(s)
  BY <1>1, <1>4 DEF Counts
<1>7. Subject(job[s].cmd) = Board
  BY <1>1 DEF Subject
<1>8. Stores(s)
  BY <1>1, <1>2, <1>4, <1>7 DEF Stores, store, Base, TypeOK, SettingsTypeOK
<1>9. Owned' /\ temps' \in [Keys -> Nat]
  BY <1>1, <1>4, <1>5, ApplyOwned DEF store
<1> QED
  BY <1>5, <1>6, <1>8, <1>9 DEF Effects

(***************************************************************************)
(* A command is refused, and nothing changes.                              *)
(***************************************************************************)
LEMMA RefuseIs ==
  ASSUME Base, NEW s \in Sockets, Refuse(s)
  PROVE  Effects(s) /\ Owned' /\ temps' \in [Keys -> Nat]
<1>1. PICK e \in Reasons(s) : Refused(s, e)
  BY DEF Refuse
<1>2. /\ At(s, "apply") /\ job[s] # NoJob
      /\ Goes(s, "remember", Error(e))
      /\ order' = order /\ store' = store /\ made' = made /\ version' = version /\ ran' = ran
  BY <1>1 DEF Refuse, Refused, At
<1>3. e \in {"canceled", "failed", "missing", "conflict"}
  BY <1>1 DEF Reasons
<1>4. Error(e) \in Outcomes /\ Error(e).err # "none" /\ "remember" \in Steps
  BY <1>3 DEF Error, Outcomes, Errors, Steps
<1>5. /\ job' \in [Sockets -> Jobs \cup {NoJob}]
      /\ job'[s] # NoJob /\ job'[s].cmd = job[s].cmd /\ job'[s].step = "remember" /\ job'[s].out = Error(e)
      /\ \A t \in Sockets \ {s} : job'[t] = job[t]
  BY <1>2, <1>4, GoesOn DEF Base
<1>6. Advances(s)
  BY <1>2, <1>5 DEF Advances, At
<1>7. Counts(s)
  BY <1>2, <1>4, <1>5 DEF Counts
<1>8. Stores(s)
  BY <1>2, <1>5 DEF Stores, store, Base, TypeOK, SettingsTypeOK
<1>9. Owned' /\ temps' \in [Keys -> Nat]
  BY <1>2, <1>5, <1>6, ApplyOwned DEF store
<1> QED
  BY <1>6, <1>7, <1>8, <1>9 DEF Effects

(***************************************************************************)
(* So a step that asks a store for something has just its effects.         *)
(***************************************************************************)
LEMMA WorkIs ==
  ASSUME Base, NEW s \in Sockets, Work(s)
  PROVE  /\ Effects(s)
         /\ UNCHANGED << order, seen, alive, inbox, client, others, sent, excused >>
<1>1. Effects(s)
  BY SetStartIs, SetEndIs, SetFailsIs, DeleteIs, CreateIs, UpdateIs, RefuseIs DEF Work
<1>2. UNCHANGED << order, seen, alive, inbox, client, others, sent, excused >>
  BY DEF Work, SetStart, SetEnd, SetFails, Delete, Create, Update, Refuse, Aside
<1> QED
  BY <1>1, <1>2

(***************************************************************************)
(* It keeps the types.                                                     *)
(***************************************************************************)
LEMMA WorkTypes ==
  ASSUME Base, NEW s \in Sockets, Work(s)
  PROVE  Base'
<1>1. Owned' /\ temps' \in [Keys -> Nat]
  BY SetStartIs, SetEndIs, SetFailsIs, DeleteIs, CreateIs, UpdateIs, RefuseIs DEF Work
<1>2. Effects(s) /\ UNCHANGED << order, seen, alive, inbox, client, others, sent, excused >>
  BY WorkIs
<1>3. SettingsTypeOK' /\ version' \in Nat
  BY <1>1, <1>2 DEF Effects, Stores, SettingsTypeOK
<1>4. job[s].cmd \in Cmds /\ made \in Seq(Cmds) /\ ran \in [Cmds -> Nat]
  BY <1>2, JobShape DEF Effects, Advances, Base, TypeOK
<1>5. made' \in Seq(Cmds)
  BY <1>2, <1>4 DEF Effects, Counts
<1>6. ran' \in [Cmds -> Nat]
  BY <1>2, <1>4 DEF Effects, Counts
<1>7. job' \in [Sockets -> Jobs \cup {NoJob}]
  BY <1>2 DEF Effects, Advances
<1>8. TypeOK' /\ Held(seen)' = Held(seen)
  BY <1>2, <1>3, <1>5, <1>6, <1>7 DEF Base, TypeOK, client, others, Held, Jobs
<1> QED
  BY <1>1, <1>8 DEF Base

----------------------------------------------------------------------------
(***************************************************************************)
(* A change is announced.                                                  *)
(***************************************************************************)
LEMMA AnnounceIs ==
  ASSUME Base, NEW s \in Sockets, Announce(s)
  PROVE  /\ At(s, "announce") /\ job[s] # NoJob /\ job[s].cmd \in Cmds
         /\ job' \in [Sockets -> Jobs \cup {NoJob}]
         /\ job'[s] # NoJob /\ job'[s].cmd = job[s].cmd /\ job'[s].step = "remember"
         /\ job'[s].out = job[s].out
         /\ \A t \in Sockets \ {s} : job'[t] = job[t]
         /\ Subject(job[s].cmd) \in Keys \cup {Board}
         /\ pending \subseteq pending' /\ unheard \subseteq unheard'
         /\ pending' \subseteq pending \cup {Subject(job[s].cmd)}
         /\ unheard' \subseteq unheard \cup {Subject(job[s].cmd)}
         /\ Subject(job[s].cmd) \in pending' \cup unheard'
         /\ UNCHANGED << order, store, made, version, seen, alive, inbox, client, view, sends, sent, crashes, ghosts >>
<1>1. /\ At(s, "announce") /\ job[s] # NoJob
      /\ Goes(s, "remember", job[s].out)
  BY DEF Announce, At
<1>2. job[s].out \in Outcomes /\ "remember" \in Steps /\ job[s].cmd \in Cmds /\ order[job[s].cmd] \in Orders
  BY <1>1, JobShape DEF Base, Steps
<1>3. /\ job' \in [Sockets -> Jobs \cup {NoJob}]
      /\ job'[s] # NoJob /\ job'[s].cmd = job[s].cmd /\ job'[s].step = "remember"
      /\ job'[s].out = job[s].out
      /\ \A t \in Sockets \ {s} : job'[t] = job[t]
  BY <1>1, <1>2, GoesOn DEF Base
<1>4. Subject(job[s].cmd) \in Keys \cup {Board}
  BY <1>2, OrderShape DEF Subject, Key
<1>5. UNCHANGED << order, store, made, version, seen, alive, inbox, client, view, sends, sent, crashes, ghosts >>
  BY DEF Announce
<1>6. /\ pending \subseteq pending' /\ unheard \subseteq unheard'
      /\ pending' \subseteq pending \cup {Subject(job[s].cmd)}
      /\ unheard' \subseteq unheard \cup {Subject(job[s].cmd)}
      /\ Subject(job[s].cmd) \in pending' \cup unheard'
  BY DEF Announce, Announced
<1> QED
  BY <1>1, <1>2, <1>3, <1>4, <1>5, <1>6

(***************************************************************************)
(* Announcing a change keeps the types.                                    *)
(***************************************************************************)
LEMMA AnnounceTypes ==
  ASSUME Base, NEW s \in Sockets, Announce(s)
  PROVE  Base'
<1>1. ~At(s, "rename") /\ ~At(s, "rename")' /\ \A t \in Sockets \ {s} : job'[t] = job[t]
  BY AnnounceIs DEF At
<1>2. UNCHANGED << order, store, made, version, seen, alive, inbox, client, view, sends, sent, crashes, ghosts >>
  BY AnnounceIs
<1>3. Owned'
  BY <1>1, <1>2, OwnedKept DEF Base, store
<1>4. SettingsTypeOK' /\ Held(seen)' = Held(seen)
  BY <1>2 DEF store, Base, TypeOK, SettingsTypeOK, Held
<1>5. job' \in [Sockets -> Jobs \cup {NoJob}] /\ pending' \subseteq Keys \cup {Board}
      /\ unheard' \subseteq Keys \cup {Board}
  BY AnnounceIs DEF Base, TypeOK
<1>6. TypeOK'
  BY <1>2, <1>4, <1>5 DEF Base, TypeOK, client, ghosts, Jobs
<1> QED
  BY <1>3, <1>4, <1>6 DEF Base

(***************************************************************************)
(* What stored is, a client can show.                                      *)
(***************************************************************************)
LEMMA StoredShape ==
  ASSUME TypeOK, NEW x \in Keys \cup {Board}
  PROVE  Stored(x) \in Docs \cup {NoDoc} \cup (Nat \X Nat)
<1>1. Len(made) \in Nat /\ version \in Nat /\ file \in [Keys -> Docs \cup {NoDoc}]
  BY DEF TypeOK, SettingsTypeOK
<1> QED
  BY <1>1 DEF Stored

(***************************************************************************)
(* Fetching a subject keeps the types.                                     *)
(***************************************************************************)
LEMMA FetchTypes ==
  ASSUME Base, NEW x \in Keys \cup {Board}, Fetch(x)
  PROVE  Base'
<1>1. UNCHANGED << order, store, server, client, sends, sent, crashes, ghosts >>
  BY DEF Fetch
<1>2. Owned' /\ SettingsTypeOK' /\ Held(seen)' = Held(seen)
  BY <1>1, OwnedStill DEF store, server, Base, TypeOK, SettingsTypeOK, Held
<1>3. view' \in [Keys \cup {Board} -> Docs \cup {NoDoc} \cup (Nat \X Nat)]
  BY StoredShape DEF Fetch, Base, TypeOK
<1>4. pending' \subseteq Keys \cup {Board} /\ unheard' \subseteq Keys \cup {Board}
  BY DEF Fetch, Base, TypeOK
<1>5. TypeOK'
  BY <1>1, <1>2, <1>3, <1>4 DEF Base, TypeOK, server, client, ghosts
<1> QED
  BY <1>1, <1>2, <1>5 DEF Base, server

(***************************************************************************)
(* An outcome is kept, or not; the reader waits for a frame.               *)
(***************************************************************************)
LEMMA RememberIs ==
  ASSUME Base, NEW s \in Sockets, Remember(s), NEW c, c = job[s].cmd,
         NEW kept, kept = [out |-> job[s].out, old |-> FALSE]
  PROVE  /\ At(s, "remember") /\ job[s] # NoJob /\ c \in Cmds /\ job[s].out \in Outcomes
         /\ kept \in [out : Outcomes, old : BOOLEAN] /\ kept # NotSeen
         /\ job' = [job EXCEPT ![s] = NoJob] /\ Answer(s, c, job[s].out)
         /\ UNCHANGED << order, store, made, version, alive, inbox, current, others, sends, sent, crashes, ran >>
         /\ \/ ~order[c].keyed /\ seen' = seen /\ excused' = excused
            \/ /\ order[c].keyed
               /\ \E m \in Memories :
                    \/ /\ seen' = [d \in Cmds |-> IF d = c THEN kept ELSE NotSeen]
                       /\ excused' = excused \cup (Held(m) \ {c})
                    \/ ~Full(m) /\ seen' = [m EXCEPT ![c] = kept] /\ excused' = excused
<1>1. /\ At(s, "remember") /\ job[s] # NoJob
      /\ job' = [job EXCEPT ![s] = NoJob] /\ Answer(s, c, job[s].out)
      /\ UNCHANGED << order, store, made, version, alive, inbox, current, others, sends, sent, crashes, ran >>
  BY DEF Remember, At
<1>2. c \in Cmds /\ job[s].out \in Outcomes
  BY <1>1, JobShape DEF Base
<1>3. kept \in [out : Outcomes, old : BOOLEAN] /\ kept # NotSeen
  <2>1. kept \in [out : Outcomes, old : BOOLEAN]
    BY <1>2
  <2> QED
    BY <2>1, CommandsAssumption
<1>4. PICK m \in Memories :
        IF ~Keeps(s) THEN seen' = seen /\ UNCHANGED excused
        ELSE IF Full(m)
        THEN /\ seen' = [d \in Cmds |-> IF d = c THEN kept ELSE NotSeen]
             /\ excused' = excused \cup (Held(m) \ {c})
        ELSE seen' = [m EXCEPT ![c] = kept] /\ UNCHANGED excused
  BY DEF Remember
<1>5. Keeps(s) <=> order[c].keyed
  BY DEF Keeps
<1>6. \/ ~order[c].keyed /\ seen' = seen /\ excused' = excused
      \/ /\ order[c].keyed
         /\ \E n \in Memories :
              \/ /\ seen' = [d \in Cmds |-> IF d = c THEN kept ELSE NotSeen]
                 /\ excused' = excused \cup (Held(n) \ {c})
              \/ ~Full(n) /\ seen' = [n EXCEPT ![c] = kept] /\ excused' = excused
  <2>1. CASE ~Keeps(s)
    BY <1>4, <1>5, <2>1
  <2>2. CASE Keeps(s) /\ Full(m)
    BY <1>4, <1>5, <2>2
  <2>3. CASE Keeps(s) /\ ~Full(m)
    BY <1>4, <1>5, <2>3
  <2> QED
    BY <2>1, <2>2, <2>3
<1> QED
  BY <1>1, <1>2, <1>3, <1>6

(***************************************************************************)
(* Remembering an outcome keeps the types, and the memory within its cap.  *)
(***************************************************************************)
LEMMA RememberTypes ==
  ASSUME Base, NEW s \in Sockets, Remember(s)
  PROVE  Base'
<1>1. PICK c, kept : c = job[s].cmd /\ kept = [out |-> job[s].out, old |-> FALSE]
  OBVIOUS
<1>2. /\ At(s, "remember") /\ job[s] # NoJob /\ c \in Cmds /\ job[s].out \in Outcomes
      /\ kept \in [out : Outcomes, old : BOOLEAN]
      /\ job' = [job EXCEPT ![s] = NoJob] /\ Answer(s, c, job[s].out)
      /\ UNCHANGED << order, store, made, version, alive, inbox, current, others, sends, sent, crashes, ran >>
  BY <1>1, RememberIs
<1>3. job' \in [Sockets -> Jobs \cup {NoJob}] /\ job'[s] = NoJob /\ \A t \in Sockets \ {s} : job'[t] = job[t]
  BY <1>2 DEF Base, TypeOK, Jobs
<1>4. Owned'
  <2>1. ~At(s, "rename") /\ ~At(s, "rename")'
    BY <1>2, <1>3 DEF At
  <2> QED
    BY <1>2, <1>3, <2>1, OwnedKept DEF Base, store
<1>5. /\ seen' \in [Cmds -> [out : Outcomes, old : BOOLEAN] \cup {NotSeen}]
      /\ IsFiniteSet(Held(seen)') /\ Cardinality(Held(seen)') <= Limit
      /\ excused' \subseteq Cmds
  <2>1. CASE ~order[c].keyed
    <3>1. seen' = seen /\ excused' = excused
      BY <1>1, <2>1, RememberIs
    <3> QED
      BY <3>1 DEF Base, TypeOK, Held
  <2>2. CASE order[c].keyed
    <3>1. PICK m \in Memories :
            \/ /\ seen' = [d \in Cmds |-> IF d = c THEN kept ELSE NotSeen]
               /\ excused' = excused \cup (Held(m) \ {c})
            \/ ~Full(m) /\ seen' = [m EXCEPT ![c] = kept] /\ excused' = excused
      BY <1>1, <2>2, RememberIs
    <3>2. PICK n : n = seen'
      OBVIOUS
    <3>3. Held(seen)' = Held(n)
      BY <3>2 DEF Held
    <3>4. n \in [Cmds -> [out : Outcomes, old : BOOLEAN] \cup {NotSeen}]
          /\ IsFiniteSet(Held(n)) /\ Cardinality(Held(n)) <= Limit
      <4>1. CASE seen' = [d \in Cmds |-> IF d = c THEN kept ELSE NotSeen]
        BY <1>2, <3>2, <4>1, MemoryOf
      <4>2. CASE ~Full(m) /\ seen' = [m EXCEPT ![c] = kept]
        BY <1>2, <3>2, <4>2, MemoryWith DEF Base
      <4> QED
        BY <3>1, <4>1, <4>2
    <3>5. excused' \subseteq Cmds
      BY <3>1 DEF Held, Base, TypeOK
    <3> QED
      BY <3>2, <3>3, <3>4, <3>5
  <2> QED
    BY <2>1, <2>2
<1>6. waiting' \subseteq waiting /\ told' \in [Cmds -> Outcomes \cup {NotSeen}]
  BY <1>2, AnswerShape DEF Base
<1>7. SettingsTypeOK'
  BY <1>2 DEF store, Base, TypeOK, SettingsTypeOK
<1>8. TypeOK'
  BY <1>2, <1>3, <1>5, <1>6, <1>7 DEF Base, TypeOK, others, Held, Jobs
<1> QED
  BY <1>4, <1>5, <1>8 DEF Base

----------------------------------------------------------------------------
(***************************************************************************)
(* An outcome passes its time: it is still held, but not trusted.          *)
(***************************************************************************)
LEMMA AgeIs ==
  ASSUME Base, NEW c \in Cmds, Age(c)
  PROVE  /\ seen' \in [Cmds -> [out : Outcomes, old : BOOLEAN] \cup {NotSeen}]
         /\ \A d \in Cmds \ {c} : seen'[d] = seen[d]
         /\ \A d \in Cmds : seen'[d] # NotSeen <=> seen[d] # NotSeen
         /\ excused' = excused \cup {c}
         /\ UNCHANGED << order, store, made, version, alive, inbox, job, client, others, sends, sent, crashes, ran >>
<1>1. seen \in [Cmds -> [out : Outcomes, old : BOOLEAN] \cup {NotSeen}] /\ seen[c] # NotSeen
  BY DEF Age, Base, TypeOK
<1>2. PICK new : new = [seen[c] EXCEPT !.old = TRUE]
  OBVIOUS
<1>3. new \in [out : Outcomes, old : BOOLEAN]
  BY <1>1, <1>2
<1>4. new # NotSeen
  BY <1>3, CommandsAssumption
<1>5. seen' = [seen EXCEPT ![c] = new] /\ excused' = excused \cup {c}
      /\ UNCHANGED << order, store, made, version, alive, inbox, job, client, others, sends, sent, crashes, ran >>
  BY <1>2 DEF Age
<1> QED
  BY <1>1, <1>3, <1>4, <1>5

(***************************************************************************)
(* Aging keeps the types.                                                  *)
(***************************************************************************)
LEMMA AgeTypes ==
  ASSUME Base, NEW c \in Cmds, Age(c)
  PROVE  Base'
<1>1. /\ seen' \in [Cmds -> [out : Outcomes, old : BOOLEAN] \cup {NotSeen}]
      /\ \A d \in Cmds : seen'[d] # NotSeen <=> seen[d] # NotSeen
      /\ excused' = excused \cup {c}
      /\ UNCHANGED << order, store, made, version, alive, inbox, job, client, others, sends, sent, crashes, ran >>
  BY AgeIs
<1>2. Held(seen)' = Held(seen)
  BY <1>1 DEF Held
<1>3. Owned' /\ SettingsTypeOK'
  BY <1>1, OwnedStill DEF store, Base, TypeOK, SettingsTypeOK
<1>4. TypeOK'
  BY <1>1, <1>2, <1>3 DEF Base, TypeOK, client, others
<1> QED
  BY <1>2, <1>3, <1>4 DEF Base

(***************************************************************************)
(* So does a restart, which leaves temporary files without an owner.       *)
(***************************************************************************)
LEMMA CrashTypes ==
  ASSUME Base, Crash
  PROVE  Base'
<1>1. /\ seen' = [c \in Cmds |-> NotSeen]
      /\ alive' = {} /\ inbox' = [s \in Sockets |-> << >>] /\ job' = [s \in Sockets |-> NoJob]
      /\ excused' = excused \cup Held(seen) \cup {c \in Cmds : Running(c) # {}}
      /\ unheard' = unheard \cup Unpublished
      /\ UNCHANGED << order, store, made, version, client, pending, view, sends, sent, ran >>
  BY DEF Crash
<1>2. Held(seen)' = {}
  BY <1>1 DEF Held
<1>3. IsFiniteSet(Held(seen)') /\ Cardinality(Held(seen)') <= Limit
  BY <1>2, FS_EmptySet, CommandsAssumption
<1>4. excused' \subseteq Cmds
  BY <1>1 DEF Held, Base, TypeOK
<1>5. Unpublished \subseteq Keys \cup {Board}
  <2>1. ASSUME NEW r \in Sockets, At(r, "announce")
        PROVE  Subject(job[r].cmd) \in Keys \cup {Board}
    BY <2>1, JobShape, OrderShape DEF Subject, Key, At, Base
  <2> QED
    BY <2>1 DEF Unpublished
<1>6. \A s \in Sockets : ~At(s, "rename")'
  BY <1>1 DEF At
<1>7. Owned'
  <2>1. \A k \in Keys : Writing(k)' = {}
    BY <1>6 DEF Writing
  <2>2. IsFiniteSet({}) /\ Cardinality({}) = 0
    BY FS_EmptySet
  <2>3. \A k \in Keys : 0 <= temps'[k]
    BY <1>1 DEF store, Base, TypeOK, SettingsTypeOK
  <2> QED
    BY <1>6, <2>1, <2>2, <2>3 DEF Owned
<1>8. << >> \in Seq(Cmds) /\ SettingsTypeOK'
  BY <1>1 DEF store, Base, TypeOK, SettingsTypeOK
<1>9. TypeOK'
  BY <1>1, <1>3, <1>4, <1>5, <1>8 DEF Base, TypeOK, client
<1> QED
  BY <1>3, <1>7, <1>9 DEF Base

(***************************************************************************)
(* The types hold at the start.                                            *)
(***************************************************************************)
LEMMA BaseAtStart == Init => Base
<1> SUFFICES ASSUME Init
             PROVE  Base
  OBVIOUS
<1>1. /\ order \in Plans /\ SettingsInit /\ made = << >> /\ version = 1
      /\ seen = [c \in Cmds |-> NotSeen]
      /\ alive = {} /\ inbox = [s \in Sockets |-> << >>] /\ job = [s \in Sockets |-> NoJob]
      /\ current = NoSocket /\ waiting = {} /\ sent = {} /\ told = [c \in Cmds |-> NotSeen]
      /\ pending = {} /\ unheard = {}
      /\ view = [x \in Keys \cup {Board} |-> Stored(x)]
      /\ ran = [c \in Cmds |-> 0] /\ excused = {}
  BY DEF Init
<1>2. Held(seen) = {}
  BY <1>1 DEF Held
<1>3. IsFiniteSet(Held(seen)) /\ Cardinality(Held(seen)) <= Limit
  BY <1>2, FS_EmptySet, CommandsAssumption
<1>4. SettingsTypeOK
  BY <1>1 DEF SettingsInit, SettingsTypeOK
<1>5. \A x \in Keys \cup {Board} : Stored(x) \in Docs \cup {NoDoc} \cup (Nat \X Nat)
  BY <1>1, <1>4 DEF Stored, SettingsTypeOK
<1>6. \A s \in Sockets : ~At(s, "rename")
  BY <1>1 DEF At
<1>7. Owned
  <2>1. \A k \in Keys : Writing(k) = {}
    BY <1>6 DEF Writing
  <2>2. IsFiniteSet({}) /\ Cardinality({}) = 0
    BY FS_EmptySet
  <2>3. \A k \in Keys : temps[k] = 0
    BY <1>1 DEF SettingsInit
  <2> QED
    BY <1>6, <2>1, <2>2, <2>3 DEF Owned
<1>8. << >> \in Seq(Cmds)
  OBVIOUS
<1>9. TypeOK
  BY <1>1, <1>3, <1>4, <1>5, <1>8 DEF TypeOK
<1> QED
  BY <1>3, <1>7, <1>9 DEF Base

(***************************************************************************)
(* No step leaves them.                                                    *)
(***************************************************************************)
LEMMA BaseKept == Base /\ [Next]_vars => Base'
<1> SUFFICES ASSUME Base, [Next]_vars
             PROVE  Base'
  OBVIOUS
<1>1. ASSUME NEW s \in Sockets, Connect(s) \/ SocketDies(s)
      PROVE  Base'
  BY <1>1, ClientTypes
<1>2. ASSUME NEW s \in Sockets, Receive(s)
      PROVE  Base'
  BY <1>2, ReceiveTypes
<1>3. ASSUME NEW s \in Sockets, Run(s)
      PROVE  Base'
  <2>1. Work(s) \/ Announce(s) \/ Remember(s)
    BY <1>3 DEF Run, Work
  <2> QED
    BY <2>1, WorkTypes, AnnounceTypes, RememberTypes
<1>4. ASSUME NEW c \in Cmds, Send(c) \/ Resend(c)
      PROVE  Base'
  BY <1>4, ClientTypes
<1>5. ASSUME NEW c \in Cmds, Age(c)
      PROVE  Base'
  BY <1>5, AgeTypes
<1>6. ASSUME Drop
      PROVE  Base'
  BY <1>6, ClientTypes
<1>7. ASSUME Crash
      PROVE  Base'
  BY <1>7, CrashTypes
<1>8. ASSUME NEW x \in Keys \cup {Board}, Fetch(x)
      PROVE  Base'
  BY <1>8, FetchTypes
<1>9. ASSUME UNCHANGED vars
      PROVE  Base'
  <2>1. UNCHANGED << order, file, dirs, temps, made, version, seen, alive, inbox, job, current,
                     waiting, told, pending, view, unheard, sent, ran, excused >>
    BY <1>9 DEF vars, store, server, client, others, ghosts
  <2>2. Owned' /\ SettingsTypeOK' /\ Held(seen)' = Held(seen)
    BY <2>1, OwnedStill DEF Base, TypeOK, SettingsTypeOK, Held
  <2>3. TypeOK'
    BY <2>1, <2>2 DEF Base, TypeOK
  <2> QED
    BY <2>2, <2>3 DEF Base
<1> QED
  BY <1>1, <1>2, <1>3, <1>4, <1>5, <1>6, <1>7, <1>8, <1>9 DEF Next

----------------------------------------------------------------------------
(***************************************************************************)
(* What was true of a command stays true while it takes no effect.         *)
(***************************************************************************)
LEMMA TrueStays ==
  ASSUME Base, NEW c \in Cmds, NEW out, TrueOf(c, out), NEW d \in Cmds,
         order' = order, ran'[c] = ran[c], made' \in {made, Append(made, d)}
  PROVE  TrueOf(c, out)'
<1>1. made \in Seq(Cmds)
  BY DEF Base, TypeOK
<1>2. \A i \in DOMAIN made : i \in DOMAIN made' /\ made'[i] = made[i]
  BY <1>1
<1> QED
  BY <1>2 DEF TrueOf

(***************************************************************************)
(* A step that leaves the runs and the memory of a command alone, and      *)
(* tells at most what is remembered of it, keeps it followed.              *)
(***************************************************************************)
LEMMA FollowedStill ==
  ASSUME Base, NEW c \in Cmds, Followed(c), NEW d \in Cmds,
         order' = order, ran'[c] = ran[c], made' \in {made, Append(made, d)},
         seen'[c] = seen[c],
         told'[c] = told[c] \/ (seen[c] # NotSeen /\ told'[c] = seen[c].out),
         Running(c)' = Running(c), \A s \in Running(c) : job'[s] = job[s]
  PROVE  Followed(c)'
<1>1. \A s, t \in Running(c)' : s = t
  BY DEF Followed
<1>2. ASSUME NEW s \in Running(c)'
      PROVE  Underway(c, s)'
  <2>1. PICK out : out = job[s].out
    OBVIOUS
  <2>2. s \in Running(c) /\ job'[s] = job[s] /\ Underway(c, s)
    BY <1>2 DEF Followed
  <2>3. TrueOf(c, out) => TrueOf(c, out)'
    BY TrueStays
  <2>4. job[s].step \in {"announce", "remember"} => TrueOf(c, job[s].out)'
    <3>1. ASSUME job[s].step \in {"announce", "remember"}
          PROVE  TrueOf(c, out)'
      BY <2>1, <2>2, <2>3, <3>1 DEF Underway
    <3>2. job'[s].out = out
      BY <2>1, <2>2
    <3> QED
      BY <3>1, <3>2 DEF TrueOf
  <2> QED
    BY <2>2, <2>4 DEF Underway
<1>3. ASSUME seen[c] # NotSeen
      PROVE  TrueOf(c, seen[c].out)'
  <2>1. PICK out : out = seen[c].out
    OBVIOUS
  <2>2. TrueOf(c, out)
    BY <1>3, <2>1 DEF Followed
  <2>3. TrueOf(c, out)'
    BY <2>2, TrueStays
  <2>4. seen'[c].out = out
    BY <2>1
  <2> QED
    BY <2>3, <2>4 DEF TrueOf
<1>4. seen'[c] # NotSeen =>
        /\ Running(c)' = {} /\ ~seen'[c].old
        /\ TrueOf(c, seen[c].out)'
        /\ told'[c] \in {NotSeen, seen'[c].out}
  BY <1>3 DEF Followed
<1>5. seen'[c] = NotSeen => told'[c] = NotSeen /\ (Running(c)' = {} => ran'[c] = 0)
  BY DEF Followed
<1> QED
  BY <1>1, <1>2, <1>4, <1>5 DEF Followed

(***************************************************************************)
(* One reader's step leaves alone the runs of the commands it does not run,*)
(* before and after.                                                       *)
(***************************************************************************)
LEMMA RunningElsewhere ==
  ASSUME NEW c \in Cmds, NEW s \in Sockets, \A t \in Sockets \ {s} : job'[t] = job[t],
         job[s] = NoJob \/ job[s].cmd # c, job'[s] = NoJob \/ job'[s].cmd # c
  PROVE  Running(c)' = Running(c) /\ \A t \in Running(c) : job'[t] = job[t]
  BY DEF Running

(***************************************************************************)
(* Taking a frame keeps the commands followed: an outcome that is trusted  *)
(* is replayed, and a command without one begins its only run.             *)
(***************************************************************************)
LEMMA ReceiveFollows ==
  ASSUME Base, Accounted, NEW s \in Sockets, Receive(s),
         NEW c \in Cmds, c \notin excused', order'[c].keyed
  PROVE  Followed(c)'
<1>1. PICK d : d = Head(inbox[s])
  OBVIOUS
<1>2. /\ s \in alive /\ job[s] = NoJob /\ inbox[s] # << >>
      /\ seen' \in Memories
      /\ order' = order /\ made' = made /\ ran' = ran
  BY DEF Receive
<1>3. d \in Cmds
  BY <1>1, <1>2 DEF Base, TypeOK
<1>4. c \notin excused /\ Followed(c)
  <2>1. excused \subseteq excused'
    BY DEF Receive
  <2> QED
    BY <1>2, <2>1 DEF Accounted
<1>5. seen'[c] = seen[c]
  BY <1>2, <1>4, MemoryShape DEF Followed, Base
<1>6. CASE Remembered(d)
  <2>1. Answer(s, d, Replay(d)) /\ job' = job
    BY <1>1, <1>6 DEF Receive
  <2>2. Replay(d) \in Outcomes /\ Replay(d) = seen[d].out /\ seen[d] # NotSeen
    BY <1>3, <1>6 DEF Remembered, Replay, Base, TypeOK
  <2>3. told'[d] \in {told[d], Replay(d)} /\ \A e \in Cmds \ {d} : told'[e] = told[e]
    BY <1>3, <2>1, <2>2, AnswerShape DEF Base
  <2>4. told'[c] = told[c] \/ (seen[c] # NotSeen /\ told'[c] = seen[c].out)
    BY <2>2, <2>3
  <2>5. Running(c)' = Running(c) /\ \A t \in Running(c) : job'[t] = job[t]
    BY <2>1 DEF Running
  <2> QED
    BY <1>2, <1>3, <1>4, <1>5, <2>4, <2>5, FollowedStill
<1>7. CASE ~Remembered(d)
  <2>1. PICK new : new = [cmd |-> d, step |-> "apply", out |-> Ok]
    OBVIOUS
  <2>2. /\ job' = [job EXCEPT ![s] = new]
        /\ excused' = IF Running(d) # {} THEN excused \cup {d} ELSE excused
        /\ told' = told
    BY <1>1, <1>7, <2>1 DEF Receive
  <2>3. new \in Jobs /\ new # NoJob
    <3>1. new \in Jobs
      BY <1>3, <2>1 DEF Jobs, Steps, Outcomes, Errors, Ok
    <3> QED
      BY <3>1, CommandsAssumption DEF Jobs
  <2>4. job'[s] = new /\ \A t \in Sockets \ {s} : job'[t] = job[t]
    BY <2>2 DEF Base, TypeOK
  <2>5. CASE c # d
    <3>1. Running(c)' = Running(c) /\ \A t \in Running(c) : job'[t] = job[t]
      BY <1>2, <2>1, <2>4, <2>5, RunningElsewhere
    <3> QED
      BY <1>2, <1>3, <1>4, <1>5, <2>2, <3>1, FollowedStill
  <2>6. CASE c = d
    <3>1. Running(c) = {}
      BY <2>2, <2>6
    <3>2. seen[c] = NotSeen
      BY <1>2, <1>4, <1>7, <2>6 DEF Remembered, Followed
    <3>3. ran'[c] = 0 /\ told'[c] = NotSeen /\ seen'[c] = NotSeen
      BY <1>2, <1>4, <1>5, <2>2, <3>1, <3>2 DEF Followed
    <3>4. Running(c)' = {s}
      BY <2>1, <2>3, <2>4, <2>6, <3>1 DEF Running
    <3>5. Underway(c, s)'
      BY <2>1, <2>4, <3>3 DEF Underway
    <3> QED
      BY <3>3, <3>4, <3>5 DEF Followed
  <2> QED
    BY <2>5, <2>6
<1> QED
  BY <1>6, <1>7

(***************************************************************************)
(* A step of a run that asks a store for something: the only run of a      *)
(* command takes effect at most once, and knows the truth.                 *)
(***************************************************************************)
LEMMA WorkFollows ==
  ASSUME Base, Accounted, NEW s \in Sockets, Work(s),
         NEW c \in Cmds, c \notin excused', order'[c].keyed
  PROVE  Followed(c)'
<1>1. /\ Effects(s) /\ order' = order /\ seen' = seen /\ told' = told /\ excused' = excused
      /\ job[s] # NoJob
  BY WorkIs DEF client, Effects, Advances
<1>2. PICK d \in Cmds : d = job[s].cmd
  BY <1>1, JobShape DEF Base
<1>3. Followed(c)
  BY <1>1 DEF Accounted
<1>4. made' \in {made, Append(made, d)} /\ ran \in [Cmds -> Nat]
      /\ (job'[s].step # "announce" => ran' = ran)
      /\ (job'[s].step = "announce" => ran' = [ran EXCEPT ![d] = @ + 1])
  BY <1>1, <1>2 DEF Effects, Counts, Base, TypeOK
<1>5. job'[s] # NoJob /\ job'[s].cmd = d /\ job'[s].step \in {"rename", "announce", "remember"}
      /\ job[s].step \in {"apply", "rename"}
      /\ \A t \in Sockets \ {s} : job'[t] = job[t]
  BY <1>1, <1>2 DEF Effects, Advances
<1>6. CASE c # d
  <2>1. Running(c)' = Running(c) /\ \A t \in Running(c) : job'[t] = job[t]
    BY <1>2, <1>5, <1>6, RunningElsewhere
  <2>2. ran'[c] = ran[c]
    BY <1>4, <1>6
  <2> QED
    BY <1>1, <1>3, <1>4, <2>1, <2>2, FollowedStill
<1>7. CASE c = d
  <2>1. s \in Running(c) /\ Underway(c, s)
    BY <1>1, <1>2, <1>3, <1>7 DEF Running, Followed
  <2>2. Running(c) = {s}
    BY <1>3, <2>1 DEF Followed
  <2>3. seen'[c] = NotSeen /\ told'[c] = NotSeen /\ ran[c] = 0
    BY <1>1, <1>3, <1>5, <2>1 DEF Followed, Underway
  <2>4. Running(c)' = {s}
    <3>1. s \in Running(c)'
      BY <1>5, <1>7 DEF Running
    <3>2. \A t \in Sockets \ {s} : t \notin Running(c)'
      BY <1>5, <2>2 DEF Running
    <3> QED
      BY <3>1, <3>2 DEF Running
  <2>5. Underway(c, s)'
    <3>1. CASE job'[s].step = "rename"
      BY <1>4, <2>3, <3>1 DEF Underway
    <3>2. CASE job'[s].step = "announce"
      <4>1. ran'[c] = 1
        BY <1>4, <1>7, <2>3, <3>2
      <4>2. job'[s].out.err = "none"
            /\ (order[c].kind = "create" =>
                  job'[s].out.result \in DOMAIN made' /\ made'[job'[s].out.result] = c)
        BY <1>1, <1>2, <1>7, <3>2 DEF Effects, Counts
      <4> QED
        BY <1>1, <3>2, <4>1, <4>2 DEF Underway, TrueOf
    <3>3. CASE job'[s].step = "remember"
      <4>1. ran'[c] = 0 /\ job'[s].out.err # "none"
        BY <1>1, <1>4, <2>3, <3>3 DEF Effects, Counts
      <4> QED
        BY <3>3, <4>1 DEF Underway, TrueOf
    <3> QED
      BY <1>5, <3>1, <3>2, <3>3
  <2> QED
    BY <2>3, <2>4, <2>5 DEF Followed
<1> QED
  BY <1>6, <1>7

(***************************************************************************)
(* Announcing a change tells nothing new of the command.                   *)
(***************************************************************************)
LEMMA AnnounceFollows ==
  ASSUME Base, Accounted, NEW s \in Sockets, Announce(s),
         NEW c \in Cmds, c \notin excused', order'[c].keyed
  PROVE  Followed(c)'
<1>1. /\ At(s, "announce") /\ job[s] # NoJob
      /\ job'[s] # NoJob /\ job'[s].cmd = job[s].cmd /\ job'[s].step = "remember"
      /\ job'[s].out = job[s].out
      /\ \A t \in Sockets \ {s} : job'[t] = job[t]
      /\ order' = order /\ made' = made /\ seen' = seen /\ told' = told
      /\ ran' = ran /\ excused' = excused
  BY AnnounceIs DEF client, ghosts
<1>2. PICK d \in Cmds : d = job[s].cmd
  BY <1>1, JobShape DEF Base
<1>3. Followed(c)
  BY <1>1 DEF Accounted
<1>4. CASE c # d
  <2>1. Running(c)' = Running(c) /\ \A t \in Running(c) : job'[t] = job[t]
    BY <1>1, <1>2, <1>4, RunningElsewhere
  <2> QED
    BY <1>1, <1>2, <1>3, <2>1, FollowedStill
<1>5. CASE c = d
  <2>1. s \in Running(c) /\ Underway(c, s)
    BY <1>1, <1>2, <1>3, <1>5 DEF Running, Followed
  <2>2. Running(c) = {s}
    BY <1>3, <2>1 DEF Followed
  <2>3. seen'[c] = NotSeen /\ told'[c] = NotSeen
    BY <1>1, <1>3, <2>1 DEF Followed
  <2>4. Running(c)' = {s}
    <3>1. s \in Running(c)'
      BY <1>1, <1>2, <1>5 DEF Running
    <3>2. \A t \in Sockets \ {s} : t \notin Running(c)'
      BY <1>1, <2>2 DEF Running
    <3> QED
      BY <3>1, <3>2 DEF Running
  <2>5. TrueOf(c, job[s].out)
    BY <1>1, <2>1 DEF Underway, At
  <2>6. Underway(c, s)'
    BY <1>1, <2>5 DEF Underway, TrueOf
  <2> QED
    BY <2>3, <2>4, <2>6 DEF Followed
<1> QED
  BY <1>4, <1>5

(***************************************************************************)
(* Remembering keeps the commands followed: what is forgotten at the cap   *)
(* is excused, and what is kept and told is what the run knows.            *)
(***************************************************************************)
LEMMA RememberFollows ==
  ASSUME Base, Accounted, NEW s \in Sockets, Remember(s),
         NEW c \in Cmds, c \notin excused', order'[c].keyed
  PROVE  Followed(c)'
<1>1. PICK d, kept : d = job[s].cmd /\ kept = [out |-> job[s].out, old |-> FALSE]
  OBVIOUS
<1>2. /\ At(s, "remember") /\ job[s] # NoJob /\ d \in Cmds /\ job[s].out \in Outcomes
      /\ kept # NotSeen
      /\ job' = [job EXCEPT ![s] = NoJob] /\ Answer(s, d, job[s].out)
      /\ order' = order /\ made' = made /\ ran' = ran
  BY <1>1, RememberIs
<1>3. \/ ~order[d].keyed /\ seen' = seen /\ excused' = excused
      \/ /\ order[d].keyed
         /\ \E m \in Memories :
              \/ /\ seen' = [e \in Cmds |-> IF e = d THEN kept ELSE NotSeen]
                 /\ excused' = excused \cup (Held(m) \ {d})
              \/ ~Full(m) /\ seen' = [m EXCEPT ![d] = kept] /\ excused' = excused
  BY <1>1, RememberIs
<1>4. job'[s] = NoJob /\ \A t \in Sockets \ {s} : job'[t] = job[t]
  BY <1>2 DEF Base, TypeOK
<1>5. c \notin excused /\ order[c].keyed
  BY <1>2, <1>3
<1>6. Followed(c)
  BY <1>5 DEF Accounted
<1>7. told'[d] \in {told[d], job[s].out} /\ \A e \in Cmds \ {d} : told'[e] = told[e]
  BY <1>2, AnswerShape DEF Base
<1>8. CASE c # d
  <2>1. Running(c)' = Running(c) /\ \A t \in Running(c) : job'[t] = job[t]
    BY <1>1, <1>4, <1>8, RunningElsewhere
  <2>2. seen'[c] = seen[c]
    <3>1. CASE seen' = seen
      BY <3>1
    <3>2. ASSUME NEW m \in Memories, seen' = [e \in Cmds |-> IF e = d THEN kept ELSE NotSeen],
                 excused' = excused \cup (Held(m) \ {d})
          PROVE  seen'[c] = seen[c]
      <4>1. seen'[c] = NotSeen /\ m[c] = NotSeen
        BY <1>8, <3>2 DEF Held
      <4>2. seen[c] # NotSeen /\ ~seen[c].old => m[c] = seen[c]
        BY MemoryShape DEF Base
      <4> QED
        BY <1>6, <4>1, <4>2 DEF Followed
    <3>3. ASSUME NEW m \in Memories, seen' = [m EXCEPT ![d] = kept]
          PROVE  seen'[c] = seen[c]
      <4>1. m \in [Cmds -> [out : Outcomes, old : BOOLEAN] \cup {NotSeen}] /\ m[c] \in {seen[c], NotSeen}
            /\ (seen[c] # NotSeen /\ ~seen[c].old => m[c] = seen[c])
        BY MemoryShape DEF Base
      <4>2. seen'[c] = m[c]
        BY <1>8, <3>3, <4>1
      <4> QED
        BY <1>6, <4>1, <4>2 DEF Followed
    <3> QED
      BY <1>3, <3>1, <3>2, <3>3
  <2> QED
    BY <1>2, <1>6, <1>7, <1>8, <2>1, <2>2, FollowedStill
<1>9. CASE c = d
  <2>1. s \in Running(c) /\ Underway(c, s)
    BY <1>1, <1>2, <1>6, <1>9 DEF Running, Followed
  <2>2. Running(c) = {s}
    BY <1>6, <2>1 DEF Followed
  <2>3. seen[c] = NotSeen /\ told[c] = NotSeen
    BY <1>6, <2>1 DEF Followed
  <2>4. Running(c)' = {}
    BY <1>4, <2>2 DEF Running
  <2>5. seen'[c] = kept
    <3>1. ASSUME NEW m \in Memories, seen' = [m EXCEPT ![d] = kept]
          PROVE  seen'[c] = kept
      BY <1>9, <3>1, MemoryShape DEF Base
    <3> QED
      BY <1>3, <1>5, <1>9, <3>1
  <2>6. kept.out = job[s].out /\ kept.old = FALSE
    BY <1>1
  <2>7. TrueOf(c, kept.out)
    BY <1>2, <2>1, <2>6 DEF Underway, At
  <2>8. TrueOf(c, seen[c].out)'
    BY <1>2, <2>5, <2>7 DEF TrueOf
  <2>9. told'[c] \in {NotSeen, seen'[c].out}
    BY <1>7, <1>9, <2>3, <2>5, <2>6
  <2> QED
    BY <1>2, <2>4, <2>5, <2>6, <2>8, <2>9 DEF Followed
<1> QED
  BY <1>8, <1>9

(***************************************************************************)
(* A restart excuses every command it could have lost sight of.            *)
(***************************************************************************)
LEMMA CrashFollows ==
  ASSUME Base, Accounted, Crash,
         NEW c \in Cmds, c \notin excused', order'[c].keyed
  PROVE  Followed(c)'
<1>1. /\ seen' = [d \in Cmds |-> NotSeen] /\ job' = [s \in Sockets |-> NoJob]
      /\ excused' = excused \cup Held(seen) \cup {d \in Cmds : Running(d) # {}}
      /\ order' = order /\ told' = told /\ ran' = ran
  BY DEF Crash, client
<1>2. Followed(c) /\ seen[c] = NotSeen /\ Running(c) = {}
  BY <1>1 DEF Accounted, Held
<1>3. seen'[c] = NotSeen /\ told'[c] = NotSeen /\ ran'[c] = 0
  BY <1>1, <1>2 DEF Followed
<1>4. Running(c)' = {}
  BY <1>1 DEF Running
<1> QED
  BY <1>3, <1>4 DEF Followed

(***************************************************************************)
(* The steps of the client and of the clock, and a fetch, do not run a     *)
(* command, and tell nothing of it.                                        *)
(***************************************************************************)
LEMMA ElseFollows ==
  ASSUME Base, Accounted, NEW c \in Cmds, c \notin excused', order'[c].keyed,
         \/ \E s \in Sockets : Connect(s) \/ SocketDies(s)
         \/ \E d \in Cmds : Send(d) \/ Resend(d) \/ Age(d)
         \/ Drop
         \/ \E x \in Keys \cup {Board} : Fetch(x)
         \/ UNCHANGED vars
  PROVE  Followed(c)'
<1>1. order' = order /\ made' = made /\ ran' = ran /\ told' = told /\ job' = job /\ excused \subseteq excused'
  BY DEF Connect, SocketDies, Send, Resend, Transmit, Age, Drop, Fetch, vars, server, client, ghosts
<1>2. seen'[c] = seen[c]
  <2>1. ASSUME NEW d \in Cmds, Age(d)
        PROVE  seen'[c] = seen[c]
    BY <2>1, AgeIs
  <2>2. CASE seen' = seen
    BY <2>2
  <2>3. seen' = seen \/ \E d \in Cmds : Age(d)
    BY DEF Connect, SocketDies, Send, Resend, Transmit, Drop, Fetch, vars, server
  <2> QED
    BY <2>1, <2>2, <2>3
<1>3. Running(c)' = Running(c) /\ \A t \in Running(c) : job'[t] = job[t]
  BY <1>1 DEF Running
<1>4. Followed(c)
  BY <1>1 DEF Accounted
<1> QED
  BY <1>1, <1>2, <1>3, <1>4, FollowedStill

(***************************************************************************)
(* At the start no command has run, been told of or been remembered.       *)
(***************************************************************************)
LEMMA AccountedAtStart == Init => Accounted
<1> SUFFICES ASSUME Init, NEW c \in Cmds
             PROVE  Followed(c)
  BY DEF Accounted
<1>1. seen[c] = NotSeen /\ told[c] = NotSeen /\ ran[c] = 0 /\ job = [s \in Sockets |-> NoJob]
  BY DEF Init
<1>2. Running(c) = {}
  BY <1>1 DEF Running
<1> QED
  BY <1>1, <1>2 DEF Followed

(***************************************************************************)
(* Every step accounts for the commands that are not excused.              *)
(***************************************************************************)
LEMMA AccountedKept == Base /\ Accounted /\ [Next]_vars => Accounted'
<1> SUFFICES ASSUME Base, Accounted, [Next]_vars, NEW c \in Cmds, c \notin excused', order'[c].keyed
             PROVE  Followed(c)'
  BY DEF Accounted
<1>1. ASSUME NEW s \in Sockets, Receive(s)
      PROVE  Followed(c)'
  BY <1>1, ReceiveFollows
<1>2. ASSUME NEW s \in Sockets, Run(s)
      PROVE  Followed(c)'
  <2>1. Work(s) \/ Announce(s) \/ Remember(s)
    BY <1>2 DEF Run, Work
  <2> QED
    BY <2>1, WorkFollows, AnnounceFollows, RememberFollows
<1>3. ASSUME Crash
      PROVE  Followed(c)'
  BY <1>3, CrashFollows
<1>4. \/ \E s \in Sockets : Connect(s) \/ SocketDies(s) \/ Receive(s) \/ Run(s)
      \/ \E d \in Cmds : Send(d) \/ Resend(d) \/ Age(d)
      \/ Drop \/ Crash
      \/ \E x \in Keys \cup {Board} : Fetch(x)
      \/ UNCHANGED vars
  BY DEF Next
<1>5. \/ \E s \in Sockets : Receive(s) \/ Run(s)
      \/ Crash
      \/ \/ \E s \in Sockets : Connect(s) \/ SocketDies(s)
         \/ \E d \in Cmds : Send(d) \/ Resend(d) \/ Age(d)
         \/ Drop
         \/ \E x \in Keys \cup {Board} : Fetch(x)
         \/ UNCHANGED vars
  BY <1>4
<1> QED
  BY <1>1, <1>2, <1>3, <1>5, ElseFollows

----------------------------------------------------------------------------
(***************************************************************************)
(* Changes that wait to be announced go on waiting while the readers that  *)
(* hold them do not move.                                                  *)
(***************************************************************************)
LEMMA UnpublishedStays ==
  ASSUME order' = order,
         \A t \in Sockets : At(t, "announce") => job'[t] = job[t]
  PROVE  Unpublished \subseteq Unpublished'
<1> SUFFICES ASSUME NEW x, x \in Unpublished
             PROVE  x \in Unpublished'
  OBVIOUS
<1>1. PICK t \in Sockets : At(t, "announce") /\ x = Subject(job[t].cmd)
  BY DEF Unpublished
<1>2. At(t, "announce")' /\ x = Subject(job[t].cmd)'
  BY <1>1 DEF At, Subject, Key
<1> QED
  BY <1>2 DEF Unpublished

(***************************************************************************)
(* What a subject is stored as depends on the files and on the board.      *)
(***************************************************************************)
LEMMA StoredStays ==
  ASSUME NEW x \in Keys \cup {Board},
         x \in Keys => file'[x] = file[x],
         x = Board => made' = made /\ version' = version
  PROVE  Stored(x)' = Stored(x)
  BY CommandsAssumption DEF Stored

(***************************************************************************)
(* A subject stays accounted for while nothing moves it.                   *)
(***************************************************************************)
LEMMA ShownStays ==
  ASSUME ShownOrComing, NEW x \in Keys \cup {Board},
         Stored(x)' = Stored(x), view'[x] = view[x],
         pending \subseteq pending', unheard \subseteq unheard',
         Unpublished \subseteq Unpublished' \cup pending' \cup unheard'
  PROVE  view'[x] # Stored(x)' => x \in pending' \cup Unpublished' \cup unheard'
  BY DEF ShownOrComing

(***************************************************************************)
(* Every subject is shown as it is stored at the start.                    *)
(***************************************************************************)
LEMMA ShownAtStart == Init => ShownOrComing
<1> SUFFICES ASSUME Init, NEW x \in Keys \cup {Board}
             PROVE  view[x] = Stored(x)
  BY DEF ShownOrComing
<1> QED
  BY DEF Init

(***************************************************************************)
(* A change makes its reader owe the announcement.                         *)
(***************************************************************************)
LEMMA WorkShown ==
  ASSUME Base, ShownOrComing, NEW s \in Sockets, Work(s), NEW x \in Keys \cup {Board}
  PROVE  view'[x] # Stored(x)' => x \in pending' \cup Unpublished' \cup unheard'
<1>1. /\ Effects(s) /\ order' = order /\ pending' = pending /\ unheard' = unheard /\ view' = view
      /\ job[s] # NoJob /\ job'[s] # NoJob /\ job'[s].cmd = job[s].cmd
      /\ job[s].step \in {"apply", "rename"} /\ \A t \in Sockets \ {s} : job'[t] = job[t]
  BY WorkIs DEF others, Effects, Advances
<1>2. Unpublished \subseteq Unpublished'
  BY <1>1, UnpublishedStays DEF At
<1>3. PICK y : y = Subject(job[s].cmd)
  OBVIOUS
<1>4. CASE job'[s].step = "announce" /\ x = y
  <2>1. At(s, "announce")' /\ Subject(job[s].cmd)' = y
    BY <1>1, <1>3, <1>4 DEF At, Subject, Key
  <2>2. y \in Unpublished'
    BY <2>1 DEF Unpublished
  <2> QED
    BY <1>4, <2>2
<1>5. CASE job'[s].step # "announce" \/ x # y
  <2>1. (x \in Keys => file'[x] = file[x]) /\ (x = Board => made' = made /\ version' = version)
    BY <1>1, <1>3, <1>5 DEF Effects, Stores
  <2>2. Stored(x)' = Stored(x)
    BY <2>1, StoredStays
  <2> QED
    BY <1>1, <1>2, <2>2, ShownStays
<1> QED
  BY <1>4, <1>5

(***************************************************************************)
(* A reader that announces a change hands it to the clients, or to nobody. *)
(***************************************************************************)
LEMMA AnnounceShown ==
  ASSUME Base, ShownOrComing, NEW s \in Sockets, Announce(s), NEW x \in Keys \cup {Board}
  PROVE  view'[x] # Stored(x)' => x \in pending' \cup Unpublished' \cup unheard'
<1>1. /\ order' = order /\ store' = store /\ made' = made /\ version' = version /\ view' = view
      /\ pending \subseteq pending' /\ unheard \subseteq unheard'
      /\ Subject(job[s].cmd) \in pending' \cup unheard'
      /\ \A t \in Sockets \ {s} : job'[t] = job[t]
  BY AnnounceIs
<1>2. ASSUME NEW y \in Unpublished
      PROVE  y \in Unpublished' \cup pending' \cup unheard'
  <2>1. PICK t \in Sockets : At(t, "announce") /\ y = Subject(job[t].cmd)
    BY DEF Unpublished
  <2>2. CASE t = s
    BY <1>1, <2>1, <2>2
  <2>3. CASE t # s
    <3>1. At(t, "announce")' /\ y = Subject(job[t].cmd)'
      BY <1>1, <2>1, <2>3 DEF At, Subject, Key
    <3> QED
      BY <3>1 DEF Unpublished
  <2> QED
    BY <2>2, <2>3
<1>3. Stored(x)' = Stored(x)
  BY <1>1, StoredStays DEF store
<1> QED
  BY <1>1, <1>2, <1>3, ShownStays

(***************************************************************************)
(* Every subject stays shown as it is stored, coming, or unheard of.       *)
(***************************************************************************)
LEMMA ShownKept == Base /\ ShownOrComing /\ [Next]_vars => ShownOrComing'
<1> SUFFICES ASSUME Base, ShownOrComing, [Next]_vars, NEW x \in Keys \cup {Board}
             PROVE  view'[x] # Stored(x)' => x \in pending' \cup Unpublished' \cup unheard'
  BY DEF ShownOrComing
<1> DEFINE Goal == view'[x] # Stored(x)' => x \in pending' \cup Unpublished' \cup unheard'
<1>1. ASSUME NEW s \in Sockets, Run(s)
      PROVE  Goal
  <2>1. CASE Remember(s)
    <3>1. /\ At(s, "remember") /\ job' = [job EXCEPT ![s] = NoJob]
          /\ UNCHANGED << order, store, made, version, others >>
      BY <2>1, RememberIs
    <3>2. \A t \in Sockets : At(t, "announce") => job'[t] = job[t]
      BY <3>1 DEF At, Base, TypeOK
    <3>3. Unpublished \subseteq Unpublished' /\ Stored(x)' = Stored(x)
      BY <3>1, <3>2, UnpublishedStays, StoredStays DEF store
    <3> QED
      BY <3>1, <3>3, ShownStays DEF others
  <2>2. Work(s) \/ Announce(s) \/ Remember(s)
    BY <1>1 DEF Run, Work
  <2> QED
    BY <2>1, <2>2, WorkShown, AnnounceShown
<1>2. ASSUME Crash
      PROVE  Goal
  <2>1. UNCHANGED << order, store, made, version, pending, view >> /\ unheard' = unheard \cup Unpublished
    BY <1>2 DEF Crash
  <2>2. Stored(x)' = Stored(x)
    BY <2>1, StoredStays DEF store
  <2> QED
    BY <2>1, <2>2, ShownStays
<1>3. ASSUME NEW y \in Keys \cup {Board}, Fetch(y)
      PROVE  Goal
  <2>1. /\ UNCHANGED << order, store, made, version, job >>
        /\ pending' = pending \ {y} /\ unheard' = unheard \ {y}
        /\ view' = [view EXCEPT ![y] = Stored(y)]
    BY <1>3 DEF Fetch, server
  <2>2. Unpublished \subseteq Unpublished' /\ Stored(x)' = Stored(x)
    BY <2>1, UnpublishedStays, StoredStays DEF store
  <2>3. CASE x = y
    BY <2>1, <2>2, <2>3 DEF Base, TypeOK
  <2>4. CASE x # y
    <3>1. view'[x] = view[x]
      BY <2>1, <2>4 DEF Base, TypeOK
    <3> QED
      BY <2>1, <2>2, <2>4, <3>1 DEF ShownOrComing
  <2> QED
    BY <2>3, <2>4
<1>4. ASSUME \/ \E s \in Sockets : Connect(s) \/ SocketDies(s) \/ Receive(s)
             \/ \E c \in Cmds : Send(c) \/ Resend(c) \/ Age(c)
             \/ Drop
             \/ UNCHANGED vars
      PROVE  Goal
  <2>1. UNCHANGED << order, store, made, version, others >>
    BY <1>4 DEF Connect, SocketDies, Receive, Send, Resend, Transmit, Age, Drop, vars, server
  <2>2. \A t \in Sockets : At(t, "announce") => job'[t] = job[t]
    <3>1. ASSUME NEW s \in Sockets, Receive(s), NEW t \in Sockets, At(t, "announce")
          PROVE  job'[t] = job[t]
      <4>1. job[s] = NoJob /\ t # s
        BY <3>1 DEF Receive, At
      <4>2. CASE job' = job
        BY <4>2
      <4>3. CASE \E new : job' = [job EXCEPT ![s] = new]
        BY <4>1, <4>3 DEF Base, TypeOK
      <4>4. job' = job \/ \E new : job' = [job EXCEPT ![s] = new]
        BY <3>1 DEF Receive
      <4> QED
        BY <4>2, <4>3, <4>4
    <3>2. job' = job \/ \E s \in Sockets : Receive(s)
      BY <1>4 DEF Connect, SocketDies, Send, Resend, Transmit, Age, Drop, vars, server
    <3> QED
      BY <3>1, <3>2
  <2>3. Unpublished \subseteq Unpublished' /\ Stored(x)' = Stored(x)
    BY <2>1, <2>2, UnpublishedStays, StoredStays DEF store
  <2> QED
    BY <2>1, <2>3, ShownStays DEF others
<1> HIDE DEF Goal
<1>5. Goal
  BY <1>1, <1>2, <1>3, <1>4 DEF Next
<1> QED
  BY <1>5 DEF Goal

----------------------------------------------------------------------------
\* The inductive invariant.
Inv == Base /\ Accounted /\ ShownOrComing

(***************************************************************************)
(* It holds at the start, and every step keeps it.                         *)
(***************************************************************************)
LEMMA InvHolds == Spec => []Inv
<1>1. Init => Inv
  BY BaseAtStart, AccountedAtStart, ShownAtStart DEF Inv
<1>2. Inv /\ [Next]_vars => Inv'
  BY BaseKept, AccountedKept, ShownKept DEF Inv
<1> QED
  BY <1>1, <1>2, PTL DEF Spec

(***************************************************************************)
(* The state keeps its shape: the memory never holds more outcomes than its*)
(* limit, whatever is remembered, collected, aged and forgotten, and only  *)
(* commands that were sent are awaited.  (That no count of temporary files *)
(* goes below zero rests on Owned; a restart leaves some that nobody owns.)*)
(***************************************************************************)
THEOREM MemoryIsBounded == Spec => []TypeOK
<1>1. Inv => TypeOK
  BY DEF Inv, Base
<1> QED
  BY <1>1, InvHolds, PTL

(***************************************************************************)
(* A command that is sent again and again under its key, by a client that  *)
(* keeps the key, takes effect at most once, unless its outcome was        *)
(* forgotten or a second run of it began before the first was remembered.  *)
(* The page of the repository is no such client: each of its calls has a   *)
(* key of its own, and may run twice (TwiceIfUnknown).                     *)
(***************************************************************************)
THEOREM RunsAtMostOnce == Spec => []AtMostOnce
<1>1. Inv => AtMostOnce
  <2> SUFFICES ASSUME Inv, NEW c \in Cmds \ excused, order[c].keyed
               PROVE  ran[c] <= 1
    BY DEF AtMostOnce
  <2>1. Followed(c)
    BY DEF Inv, Accounted
  <2>2. CASE Running(c) = {}
    BY <2>1, <2>2 DEF Followed, TrueOf
  <2>3. CASE Running(c) # {}
    <3>1. PICK s \in Running(c) : Underway(c, s)
      BY <2>1, <2>3 DEF Followed
    <3>2. job[s].step \in Steps
      BY JobShape DEF Running, Inv, Base
    <3> QED
      BY <3>1, <3>2 DEF Underway, TrueOf, Steps
  <2> QED
    BY <2>2, <2>3
<1> QED
  BY <1>1, InvHolds, PTL

(***************************************************************************)
(* With the same exceptions, what a client is told of a command is what    *)
(* happened under that key: an acknowledgement means that the command took *)
(* effect, with the result it gives, and an error that it never did.  It   *)
(* says the same of the page's calls, each sent once, one call at a time.  *)
(***************************************************************************)
THEOREM ToldTheTruth == Spec => []AnswersAreTrue
<1>1. Inv => AnswersAreTrue
  <2> SUFFICES ASSUME Inv, NEW c \in Cmds \ excused, order[c].keyed, told[c] # NotSeen
               PROVE  /\ told[c].err = "none" <=> ran[c] = 1
                      /\ told[c].err = "none" /\ order[c].kind = "create" => made[told[c].result] = c
    BY DEF AnswersAreTrue
  <2>1. Followed(c)
    BY DEF Inv, Accounted
  <2>2. TrueOf(c, told[c])
    BY <2>1 DEF Followed
  <2> QED
    BY <2>2 DEF TrueOf
<1> QED
  BY <1>1, InvHolds, PTL

(***************************************************************************)
(* What the other clients show of a subject is what is stored, or its      *)
(* announcement is still to be made or fetched, or the subject is unheard: *)
(* changed for a socket or a process that was gone before it announced, and*)
(* not fetched since.  All listeners are taken together, as one view.      *)
(***************************************************************************)
THEOREM ChangesAreComing == Spec => []ShownOrComing
<1>1. Inv => ShownOrComing
  BY DEF Inv
<1> QED
  BY <1>1, InvHolds, PTL

----------------------------------------------------------------------------
\* The calls that the contract of the settings store sees.
Call == [s \in Sockets |-> Asked(s)]

\* No document changes; some calls may end.
Quiet == file' = file /\ \A t \in Sockets : Asked(t)' \in {Asked(t), NoJob}

(***************************************************************************)
(* Which call the contract sees of a reader.                               *)
(***************************************************************************)
LEMMA AskedIs ==
  ASSUME NEW s \in Sockets
  PROVE  /\ ~(At(s, "apply") \/ At(s, "rename")) => Asked(s) = NoJob
         /\ order[job[s].cmd].kind \notin {"set", "delete"} => Asked(s) = NoJob
         /\ (At(s, "apply") \/ At(s, "rename")) /\ order[job[s].cmd].kind = "set" =>
              Asked(s) = [key |-> Key(job[s].cmd), doc |-> order[job[s].cmd].doc]
         /\ At(s, "apply") /\ order[job[s].cmd].kind = "delete" =>
              Asked(s) = [key |-> Key(job[s].cmd), doc |-> NoDoc]
<1>1. ~(At(s, "apply") \/ At(s, "rename")) => Asked(s) = NoJob
  BY DEF Asked
<1>2. order[job[s].cmd].kind \notin {"set", "delete"} => Asked(s) = NoJob
  BY DEF Asked
<1>3. (At(s, "apply") \/ At(s, "rename")) /\ order[job[s].cmd].kind = "set" =>
        Asked(s) = [key |-> Key(job[s].cmd), doc |-> order[job[s].cmd].doc]
  BY DEF Asked, Key
<1>4. At(s, "apply") /\ order[job[s].cmd].kind = "delete" =>
        Asked(s) = [key |-> Key(job[s].cmd), doc |-> NoDoc]
  BY DEF Asked, Key
<1> QED
  BY <1>1, <1>2, <1>3, <1>4

(***************************************************************************)
(* A reader that does not move asks what it asked; one that is past asking *)
(* asks nothing.                                                           *)
(***************************************************************************)
LEMMA AskedStays ==
  ASSUME NEW s \in Sockets, order' = order
  PROVE  /\ job'[s] = job[s] => Asked(s)' = Asked(s)
         /\ job'[s] = NoJob \/ job'[s].step \in {"announce", "remember"} => Asked(s)' = NoJob
<1>1. job'[s] = job[s] => Asked(s)' = Asked(s)
  BY DEF Asked, At
<1>2. job'[s] = NoJob \/ job'[s].step \in {"announce", "remember"} => Asked(s)' = NoJob
  BY DEF Asked, At
<1> QED
  BY <1>1, <1>2

(***************************************************************************)
(* A quiet step is allowed by the contract.                                *)
(***************************************************************************)
LEMMA QuietIsFail == Quiet => Promise!Next
<1> SUFFICES ASSUME Quiet
             PROVE  Promise!Fail
  BY DEF Promise!Next
<1>1. \A t \in Sockets : Call'[t] \in {Call[t], NoJob}
  BY DEF Quiet, Call
<1> QED
  BY <1>1 DEF Quiet, Promise!Fail, Call

(***************************************************************************)
(* A command that is taken from a socket begins a call, unless its outcome *)
(* is remembered or it asks nothing of the settings.                       *)
(***************************************************************************)
LEMMA ReceiveBegins ==
  ASSUME Base, NEW s \in Sockets, Receive(s)
  PROVE  Promise!Next
<1>1. PICK d : d = Head(inbox[s])
  OBVIOUS
<1>2. /\ job[s] = NoJob /\ order' = order /\ file' = file /\ inbox[s] # << >>
  BY DEF Receive, store
<1>3. d \in Cmds /\ order[d] \in Orders
  BY <1>1, <1>2, CommandsAssumption DEF Base, TypeOK
<1>4. Asked(s) = NoJob
  BY <1>2, AskedIs DEF At
<1>5. CASE Remembered(d)
  <2>1. job' = job
    BY <1>1, <1>5 DEF Receive
  <2>2. Quiet
    BY <1>2, <2>1, AskedStays DEF Quiet
  <2> QED
    BY <2>2, QuietIsFail
<1>6. CASE ~Remembered(d)
  <2>1. PICK new : new = [cmd |-> d, step |-> "apply", out |-> Ok]
    OBVIOUS
  <2>2. job' = [job EXCEPT ![s] = new]
    BY <1>1, <1>6, <2>1 DEF Receive
  <2>3. job'[s] = new /\ \A t \in Sockets \ {s} : job'[t] = job[t]
    BY <2>2 DEF Base, TypeOK
  <2>4. \A t \in Sockets \ {s} : Asked(t)' = Asked(t)
    BY <1>2, <2>3, AskedStays
  <2>5. CASE order[d].kind \in {"set", "delete"}
    <3>1. At(s, "apply")'
      <4>1. new \in Jobs
        BY <1>3, <2>1 DEF Jobs, Steps, Outcomes, Errors, Ok
      <4>2. new # NoJob
        BY <4>1, CommandsAssumption DEF Jobs
      <4> QED
        BY <2>1, <2>3, <4>2 DEF At
    <3>2. order'[job'[s].cmd] = order[d]
      BY <1>2, <2>1, <2>3
    <3>3. Asked(s)' \in [key : Keys, doc : Docs \cup {NoDoc}]
      BY <1>3, <2>5, <3>1, <3>2, OrderShape DEF Asked
    <3>4. Call[s] = NoJob /\ Call'[s] \in Promise!Calls
          /\ \A t \in Sockets \ {s} : Call'[t] = Call[t]
      BY <1>4, <2>4, <3>3 DEF Call, Promise!Calls
    <3>5. Promise!Begin(s)
      BY <1>2, <3>4 DEF Promise!Begin, Promise!Only, Call
    <3> QED
      BY <3>5 DEF Promise!Next
  <2>6. CASE order[d].kind \notin {"set", "delete"}
    <3>1. order'[job'[s].cmd].kind \notin {"set", "delete"}
      BY <1>2, <2>1, <2>3, <2>6
    <3>2. Asked(s)' = NoJob
      BY <3>1 DEF Asked
    <3>3. Quiet
      BY <1>2, <2>4, <3>2 DEF Quiet
    <3> QED
      BY <3>3, QuietIsFail
  <2> QED
    BY <2>5, <2>6
<1> QED
  BY <1>5, <1>6

(***************************************************************************)
(* The rename of a write, or the removal of a file, is the instant at which*)
(* a call takes effect.                                                    *)
(***************************************************************************)
LEMMA EffectIs ==
  ASSUME Base, NEW s \in Sockets, SetEnd(s) \/ Delete(s)
  PROVE  Promise!Next
<1>1. Work(s)
  BY DEF Work
<1>2. /\ order' = order /\ job[s] # NoJob
      /\ \A t \in Sockets \ {s} : job'[t] = job[t]
  BY <1>1, WorkIs DEF Effects, Advances
<1>3. \A t \in Sockets \ {s} : Asked(t)' = Asked(t)
  BY <1>2, AskedStays
<1>4. order[job[s].cmd] \in Orders
  BY <1>2, JobShape DEF Base
<1>5. job'[s].step = "announce"
  <2>1. Ok \in Outcomes /\ "announce" \in Steps
    BY DEF Ok, Outcomes, Errors, Steps
  <2>2. Goes(s, "announce", Ok)
    BY DEF SetEnd, Delete, Applied
  <2> QED
    BY <1>2, <2>1, <2>2, GoesOn DEF Base
<1>6. Asked(s)' = NoJob
  BY <1>2, <1>5, AskedStays
<1>7. /\ Asked(s) \in [key : Keys, doc : Docs \cup {NoDoc}]
      /\ file' = [file EXCEPT ![Asked(s).key] = Asked(s).doc]
  <2>1. CASE SetEnd(s)
    <3>1. At(s, "rename") /\ order[job[s].cmd].kind = "set"
          /\ file' = [file EXCEPT ![Key(job[s].cmd)] = order[job[s].cmd].doc]
      BY <2>1 DEF SetEnd, Rename, Base, Owned
    <3>2. Asked(s) = [key |-> Key(job[s].cmd), doc |-> order[job[s].cmd].doc]
      BY <3>1, AskedIs
    <3>3. Key(job[s].cmd) \in Keys /\ order[job[s].cmd].doc \in Docs
      BY <1>4, <3>1, OrderShape DEF Key
    <3> QED
      BY <3>1, <3>2, <3>3
  <2>2. CASE Delete(s)
    <3>1. At(s, "apply") /\ order[job[s].cmd].kind = "delete"
          /\ file' = [file EXCEPT ![Key(job[s].cmd)] = NoDoc]
      BY <2>2 DEF Delete, RemoveFile
    <3>2. Asked(s) = [key |-> Key(job[s].cmd), doc |-> NoDoc]
      BY <3>1, AskedIs
    <3>3. Key(job[s].cmd) \in Keys
      BY <1>4, <3>1, OrderShape DEF Key
    <3> QED
      BY <3>1, <3>2, <3>3
  <2> QED
    BY <2>1, <2>2
<1>8. Asked(s) # NoJob
  BY <1>7, CommandsAssumption
<1>9. Call[s] = Asked(s) /\ Call'[s] = NoJob /\ \A t \in Sockets \ {s} : Call'[t] = Call[t]
  BY <1>3, <1>6 DEF Call
<1>10. Promise!Effect(s)
  BY <1>7, <1>8, <1>9 DEF Promise!Effect, Promise!Only, Call
<1> QED
  BY <1>10 DEF Promise!Next

(***************************************************************************)
(* The other steps of a run change no document; a call goes on, or ends.   *)
(***************************************************************************)
LEMMA RunIsQuiet ==
  ASSUME Base, NEW s \in Sockets, Run(s), ~SetEnd(s), ~Delete(s)
  PROVE  Promise!Next
<1>1. file' = file /\ order' = order
  BY DEF Run, SetStart, WriteTemp, SetFails, DropTemp, Create, Update, Refuse, Refused, Announce, Remember,
         Aside, store
<1>2. \A t \in Sockets \ {s} : job'[t] = job[t]
  <2>1. CASE Work(s)
    BY <2>1, WorkIs DEF Effects, Advances
  <2>2. CASE Announce(s)
    BY <2>2, AnnounceIs
  <2>3. CASE Remember(s)
    BY <2>3 DEF Remember, Base, TypeOK
  <2> QED
    BY <2>1, <2>2, <2>3 DEF Run, Work
<1>3. Asked(s)' \in {Asked(s), NoJob}
  <2>1. CASE SetStart(s)
    <3>1. At(s, "apply") /\ order[job[s].cmd].kind = "set"
      BY <2>1 DEF SetStart
    <3>2. At(s, "rename")' /\ job'[s].cmd = job[s].cmd
      <4>1. Ok \in Outcomes /\ "rename" \in Steps /\ Goes(s, "rename", Ok) /\ job[s] # NoJob
        BY <2>1 DEF SetStart, Ok, Outcomes, Errors, Steps, At
      <4> QED
        BY <4>1, GoesOn DEF Base, At
    <3> QED
      BY <1>1, <3>1, <3>2 DEF Asked
  <2>2. CASE SetFails(s) \/ Create(s) \/ Update(s) \/ Refuse(s)
    <3>1. Effects(s) /\ job'[s] # NoJob /\ job'[s].step \in {"rename", "announce", "remember"}
      BY <2>2, WorkIs DEF Work, Effects, Advances
    <3>2. CASE job'[s].step \in {"announce", "remember"}
      BY <1>1, <3>2, AskedStays
    <3>3. CASE job'[s].step = "rename"
      <4>1. PICK step \in {"announce", "remember"} :
              \E out : job' = [job EXCEPT ![s] = [cmd |-> job[s].cmd, step |-> step, out |-> out]]
        BY <2>2 DEF SetFails, Create, Update, Refuse, Refused, Applied, Goes
      <4>2. job'[s].step = step
        BY <4>1 DEF Base, TypeOK
      <4> QED
        BY <3>3, <4>2
    <3> QED
      BY <3>1, <3>2, <3>3
  <2>3. CASE Announce(s)
    BY <1>1, <2>3, AnnounceIs, AskedStays
  <2>4. CASE Remember(s)
    <3>1. job'[s] = NoJob
      BY <2>4 DEF Remember, Base, TypeOK
    <3> QED
      BY <1>1, <3>1, AskedStays
  <2> QED
    BY <2>1, <2>2, <2>3, <2>4 DEF Run
<1>4. Quiet
  BY <1>1, <1>2, <1>3, AskedStays DEF Quiet
<1> QED
  BY <1>4, QuietIsFail

(***************************************************************************)
(* Every step of the commands is a step of the contract.                   *)
(***************************************************************************)
LEMMA StepKeepsPromise == Base /\ [Next]_vars => Promise!Next
<1> SUFFICES ASSUME Base, [Next]_vars
             PROVE  Promise!Next
  OBVIOUS
<1>1. ASSUME NEW s \in Sockets, Receive(s)
      PROVE  Promise!Next
  BY <1>1, ReceiveBegins
<1>2. ASSUME NEW s \in Sockets, Run(s)
      PROVE  Promise!Next
  BY <1>2, EffectIs, RunIsQuiet
<1>3. ASSUME Crash
      PROVE  Promise!Next
  <2>1. order' = order /\ file' = file /\ job' = [t \in Sockets |-> NoJob]
    BY <1>3 DEF Crash, store
  <2>2. Quiet
    BY <2>1, AskedStays DEF Quiet
  <2> QED
    BY <2>2, QuietIsFail
<1>4. ASSUME \/ \E s \in Sockets : Connect(s) \/ SocketDies(s)
             \/ \E c \in Cmds : Send(c) \/ Resend(c) \/ Age(c)
             \/ Drop
             \/ \E x \in Keys \cup {Board} : Fetch(x)
             \/ UNCHANGED vars
      PROVE  Promise!Next
  <2>1. order' = order /\ file' = file /\ job' = job
    BY <1>4 DEF Connect, SocketDies, Send, Resend, Transmit, Age, Drop, Fetch, vars, server, store
  <2>2. Quiet
    BY <2>1, AskedStays DEF Quiet
  <2> QED
    BY <2>2, QuietIsFail
<1> QED
  BY <1>1, <1>2, <1>3, <1>4 DEF Next

(***************************************************************************)
(* The settings behind the commands are the store of the contract: with    *)
(* writers of several instances on one directory, with failures and        *)
(* restarts between the temporary file and the rename, a Set or a Delete   *)
(* takes effect at one instant or changes nothing.                         *)
(***************************************************************************)
THEOREM SettingsKeepPromise == Spec => ImplementsKeyValue
<1>1. Init => Promise!Init
  <2> SUFFICES ASSUME Init
               PROVE  file = [k \in Keys |-> NoDoc] /\ Call = [s \in Sockets |-> NoJob]
    BY DEF Promise!Init, Call
  <2>1. file = [k \in Keys |-> NoDoc] /\ job = [s \in Sockets |-> NoJob]
    BY DEF Init, SettingsInit
  <2>2. \A s \in Sockets : Asked(s) = NoJob
    BY <2>1, AskedIs DEF At
  <2> QED
    BY <2>1, <2>2 DEF Call
<1>2. Inv /\ [Next]_vars => [Promise!Next]_<< file, Call >>
  BY StepKeepsPromise DEF Inv
<1>3. ImplementsKeyValue <=> Promise!Init /\ [][Promise!Next]_<< file, Call >>
  BY DEF ImplementsKeyValue, Promise!Spec, Promise!vars, Call
<1> QED
  BY <1>1, <1>2, <1>3, InvHolds, PTL DEF Spec

=============================================================================
