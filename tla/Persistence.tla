---------------------------- MODULE Persistence ----------------------------
(***************************************************************************)
(* A write of the tracker's store, step by step, over its files: the file  *)
(* of the entity first, then the state in memory, then its events, each    *)
(* appended to events.jsonl and announced                                  *)
(* (src/services/api/internal/tracker/store: item.go, comment.go, event.go *)
(* and core.go; tracker/fs: files.go, codec.go).                           *)
(*                                                                         *)
(* Writers hold the store's lock throughout, so one operation is in flight *)
(* at a time; what interleaves with it is failure.  A file operation can   *)
(* fail before it changes anything, an append can also fail part way or    *)
(* after the line is in the file, and the process can stop at any step and *)
(* be started again.  What a stopped process wrote is still in its files:  *)
(* a machine losing power is not modelled.                                 *)
(***************************************************************************)
EXTENDS Integers, Sequences

CONSTANTS
  Keys,       \* the entities that have a file: types, items, comments, links
  Vals,       \* what such a file can hold
  Absent,     \* the entity does not exist
  NoOp,       \* no operation in flight
  Garbage,    \* a line of the feed that does not decode
  MaxEvents,  \* how many events one operation emits at most
  MaxSeq      \* bound of the model: events minted in one behaviour

ASSUME PersistenceAssumption ==
  /\ Absent \notin Vals
  /\ NoOp \notin [key : Keys, val : Vals \cup {Absent}, phase : {"save", "apply", "emit"}, left : Nat]
  /\ NoOp \notin [key : Keys, val : Vals \cup {Absent}, done : BOOLEAN]
  /\ Garbage \notin Nat
  /\ MaxEvents \in Nat /\ MaxSeq \in Nat

VARIABLES
  up,        \* whether a process has the tracker open
  disk,      \* the entity files
  log,       \* the lines of events.jsonl: the sequence number, or Garbage
  unended,   \* whether the last line lacks its newline
  mem,       \* the entities in memory
  feed,      \* the sequence numbers of the events in memory
  seq,       \* the counter behind them; keeps its last value while down
  op,        \* the operation in flight
  answer,    \* what the last caller was told
  shown      \* every sequence number a reader has been able to see

files  == << disk, log, unended >>
memory == << mem, feed, seq >>
vars   == << up, files, memory, op, answer, shown >>

Ops == [key : Keys, val : Vals \cup {Absent}, phase : {"save", "apply", "emit"}, left : Nat]

Elements(s) == {s[n] : n \in DOMAIN s}

Top(S) == CHOOSE m \in S : \A n \in S : n <= m

Init ==
  /\ up = TRUE
  /\ disk = [k \in Keys |-> Absent] /\ mem = disk
  /\ log = << >> /\ unended = FALSE
  /\ feed = << >> /\ seq = 0
  /\ op = NoOp /\ answer = "none"
  /\ shown = {}

----------------------------------------------------------------------------
\* A validated operation takes the lock.  A type emits no events, an item up
\* to one for its status, its parent and its content.
Begin(k, v, n) ==
  /\ up /\ op = NoOp
  /\ op' = [key |-> k, val |-> v, phase |-> "save", left |-> n]
  /\ answer' = "none"
  /\ UNCHANGED << up, files, memory, shown >>

At(phase) == up /\ op # NoOp /\ op.phase = phase

\* writeAtomic and remove: the file has the old contents or the new ones.
Save ==
  /\ At("save")
  /\ disk' = [disk EXCEPT ![op.key] = op.val]
  /\ op' = [op EXCEPT !.phase = "apply"]
  /\ UNCHANGED << up, log, unended, memory, answer, shown >>

\* A fault for the checks: memory is changed before the file is written.
FaultySaveFails ==
  /\ At("save")
  /\ mem' = [mem EXCEPT ![op.key] = op.val]
  /\ op' = NoOp /\ answer' = "error"
  /\ UNCHANGED << up, files, feed, seq, shown >>

\* The caller gets the error and nothing has changed.
SaveFails ==
  /\ At("save")
  /\ op' = NoOp /\ answer' = "error"
  /\ UNCHANGED << up, files, memory, shown >>

\* A fault for the checks: the change reaches the file and not the memory.
FaultyApply ==
  /\ At("apply")
  /\ op' = [op EXCEPT !.phase = "emit"]
  /\ UNCHANGED << up, files, memory, answer, shown >>

Apply ==
  /\ At("apply")
  /\ mem' = [mem EXCEPT ![op.key] = op.val]
  /\ op' = [op EXCEPT !.phase = "emit"]
  /\ UNCHANGED << up, files, feed, seq, answer, shown >>

----------------------------------------------------------------------------
\* A fault for the checks: one event more than the operation has.
FaultyEmits ==
  /\ At("emit") /\ seq < MaxSeq
  /\ seq' = seq + 1
  /\ op' = [op EXCEPT !.left = @ - 1]
  /\ UNCHANGED << up, disk, mem, answer >>

\* emit mints the number before it knows whether the event can be recorded.
Emits ==
  /\ At("emit") /\ op.left > 0 /\ seq < MaxSeq
  /\ seq' = seq + 1
  /\ op' = [op EXCEPT !.left = @ - 1]
  /\ UNCHANGED << up, disk, mem, answer >>

\* What a write to the file leaves of the line: after an unended line it
\* continues that line, and the two together do not decode.
LogWith(line) ==
  IF unended THEN [log EXCEPT ![Len(log)] = Garbage] ELSE Append(log, line)

EmitRecorded ==
  /\ Emits
  /\ log' = LogWith(seq') /\ unended' = FALSE
  /\ feed' = Append(feed, seq')
  /\ shown' = shown \cup {seq'}

\* The context is canceled or the file does not open: nothing is written.
EmitRefused ==
  /\ Emits
  /\ UNCHANGED << log, unended, feed, shown >>

\* The write stops part way, within the line or just before its newline.
EmitTorn(line) ==
  /\ Emits
  /\ line \in {seq', Garbage}
  /\ log' = LogWith(line) /\ unended' = TRUE
  /\ UNCHANGED << feed, shown >>

\* The line is written and Sync fails.
EmitUnsynced ==
  /\ Emits
  /\ log' = LogWith(seq') /\ unended' = FALSE
  /\ UNCHANGED << feed, shown >>

\* Every event is out or swallowed: the lock is released and the caller is
\* told the operation succeeded.
Answer ==
  /\ At("emit") /\ op.left = 0
  /\ op' = NoOp /\ answer' = "ok"
  /\ UNCHANGED << up, files, memory, shown >>

----------------------------------------------------------------------------
Crash ==
  /\ up
  /\ up' = FALSE
  /\ op' = NoOp /\ answer' = "none"
  /\ UNCHANGED << files, memory, shown >>

\* A fault for the checks: readLines skips what it cannot decode.
FaultyReopen ==
  /\ ~up
  /\ up' = TRUE
  /\ mem' = disk
  /\ feed' = SelectSeq(log, LAMBDA line : line # Garbage)
  /\ seq' = Top(Elements(feed') \cup {0})
  /\ shown' = shown \cup Elements(feed')
  /\ UNCHANGED << files, op, answer >>

\* Load and New: one line that does not decode refuses the whole tracker.
Reopen ==
  /\ ~up
  /\ Garbage \notin Elements(log)
  /\ up' = TRUE
  /\ mem' = disk
  /\ feed' = log
  /\ seq' = Top(Elements(log) \cup {0})
  /\ shown' = shown \cup Elements(log)
  /\ UNCHANGED << files, op, answer >>

Next ==
  \/ \E k \in Keys, v \in Vals \cup {Absent}, n \in 0 .. MaxEvents : Begin(k, v, n)
  \/ Save \/ SaveFails \/ Apply
  \/ EmitRecorded \/ EmitRefused \/ EmitUnsynced
  \/ \E line \in 1 .. MaxSeq \cup {Garbage} : EmitTorn(line)
  \/ Answer
  \/ Crash \/ Reopen

Spec == Init /\ [][Next]_vars

----------------------------------------------------------------------------
TypeOK ==
  /\ up \in BOOLEAN /\ unended \in BOOLEAN
  /\ disk \in [Keys -> Vals \cup {Absent}] /\ mem \in [Keys -> Vals \cup {Absent}]
  /\ log \in Seq(Nat \cup {Garbage}) /\ feed \in Seq(Nat)
  /\ seq \in Nat /\ shown \in SUBSET Nat
  /\ op \in Ops \cup {NoOp}
  /\ answer \in {"none", "ok", "error"}

(***************************************************************************)
(* Whenever no operation holds the lock, memory and files agree on every   *)
(* entity: whatever failed on the way, neither is ahead of the other.      *)
(***************************************************************************)
WriteThrough == up /\ op = NoOp => mem = disk

(***************************************************************************)
(* The store implements AtomicStore: readers see the memory of a running   *)
(* process, and the files once it has stopped.                             *)
(***************************************************************************)
Atomic == INSTANCE AtomicStore WITH
  value  <- IF up THEN mem ELSE disk,
  call   <- IF op = NoOp THEN NoOp
            ELSE [key |-> op.key, val |-> op.val, done |-> op.phase = "emit"],
  NoCall <- NoOp

ImplementsAtomicStore == Atomic!Spec

(***************************************************************************)
(* The sequence "never repeats" (event.go): an event that is recorded is   *)
(* numbered above every event a reader has seen, over all restarts.        *)
(***************************************************************************)
NeverRepeats ==
  [][EmitRecorded => \A s \in shown : s < seq']_vars

(***************************************************************************)
(* The cost of an append that fails "is a gap in the feed" (store/event.go)*)
(* and nothing more: between operations the feed on disk still decodes.    *)
(***************************************************************************)
OnlyAGap == up /\ op = NoOp => Garbage \notin Elements(log)
=============================================================================
