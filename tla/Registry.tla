------------------------------ MODULE Registry ------------------------------
(***************************************************************************)
(* The registry of projects and the decorator that announces its changes   *)
(* (src/services/api/internal/projects: registry.go, mutate.go, marker.go, *)
(* roots.go; projectsbus/store.go; PATCH in projectshttp/handler.go).      *)
(*                                                                         *)
(* A project is a record in a settings store and a directory that carries  *)
(* a marker naming it.  Every operation is several steps on the two, and   *)
(* no lock is held between them: calls interleave, a step fails, the       *)
(* process stops.  A call is the script of its steps and where it is.      *)
(***************************************************************************)
EXTENDS Naturals, Sequences, FiniteSets

CONSTANTS
  Projects,    \* identifiers that can be minted
  Names, Roots,
  Claimable,   \* roots that resolveRoot accepts
  Existing,    \* directories that are there before any project is
  Types,       \* item types a directory's tracker can hold
  Callers,
  NoRecord, NoDir,
  Unmarked,    \* the directory has no marker, or one that cannot be read
  Idle,        \* the caller has no call open
  Keep,        \* a change that leaves the field out
  MaxCalls,    \* bound of the model: calls in one behaviour
  MaxCrashes   \* bound of the model: restarts in one behaviour

Records == [name : Names, root : Roots]
Dirs    == [marker : Projects \cup {Unmarked}, types : SUBSET Types]
Bare    == [marker |-> Unmarked, types |-> {}]

\* A creation names both, a change (the body of PATCH) at least one of them,
\* and the other calls neither.
Requests ==
  [kind : {"create"}, name : Names, root : Roots]
  \cup ([kind : {"change"}, name : Names \cup {Keep}, root : Roots \cup {Keep}]
         \ {[kind |-> "change", name |-> Keep, root |-> Keep]})
  \cup [kind : {"remove", "settings", "tracker"}, name : {Keep}, root : {Keep}]

\* An open call: what it was asked, on which project, which step it is at and
\* the record it read.
Calls == [asked : Requests, id : Projects, at : Nat, read : Records \cup {NoRecord}]

ASSUME RegistryAssumption ==
  /\ NoRecord \notin Records /\ NoDir \notin Dirs \cup Roots /\ Unmarked \notin Projects
  /\ Keep \notin Names \cup Roots /\ Idle \notin Calls
  /\ Claimable \subseteq Roots /\ Existing \subseteq Roots
  /\ MaxCalls \in Nat /\ MaxCrashes \in Nat

VARIABLES
  record,   \* the registry: the record of each project
  dir,      \* what is at each root
  call,     \* the call each caller has open
  minted,   \* identifiers given out
  heard,    \* what a client knows that applies every announcement
  calls, crashes,
  want,     \* what the changes made so far add up to
  claims,   \* the projects that ever marked each root
  raced,    \* projects on which two calls were open at once
  mixed,    \* those on which the two write different fields of the record
  cut,      \* roots where marking or removing failed part way
  lost      \* projects changed without an announcement since the last one

disk   == << record, dir >>
ghosts == << want, claims, raced, mixed, cut, lost >>
rvars  == << disk, call, minted, heard, calls, crashes, ghosts >>

RegistryInit ==
  /\ record = [p \in Projects |-> NoRecord]
  /\ dir = [r \in Roots |-> IF r \in Existing THEN Bare ELSE NoDir]
  /\ call = [c \in Callers |-> Idle]
  /\ minted = {}
  /\ heard = record /\ want = record
  /\ claims = [r \in Roots |-> {}]
  /\ raced = {} /\ mixed = {} /\ cut = {} /\ lost = {}
  /\ calls = 0 /\ crashes = 0

----------------------------------------------------------------------------
(* Scripts. *)

RenameScript  == << "read", "putName", "announce" >>
RepointScript == << "read", "mark", "putRoot", "announce" >>
RemoveScript  == << "read", "check", "clear", "delete", "announce" >>

\* PATCH renames, re-points, or does both in this order, each a call of its own.
ChangeScript(q) ==
  (IF q.name = Keep THEN << >> ELSE RenameScript) \o (IF q.root = Keep THEN << >> ELSE RepointScript)

Others(q) ==
  CASE q.kind = "create"   -> << "mark", "put", "announce" >>
    [] q.kind = "settings" -> << "read", "write" >>
    [] q.kind = "tracker"  -> << "read", "open", "author" >>

Scripts(q, change, remove) ==
  IF q.kind = "change" THEN change ELSE IF q.kind = "remove" THEN remove ELSE Others(q)

\* Faults for the checks: a removal deletes the record first; the directory
\* is marked last; a removal is announced before it is made.
FaultyRecordFirst(q) ==
  Scripts(q, ChangeScript(q), << "read", "check", "delete", "clear", "announce" >>)
FaultyMarkLast(q) ==
  Scripts(q, IF q.root = Keep THEN RenameScript ELSE << "read", "putRoot", "announce", "mark" >>, RemoveScript)
FaultyEarlyNews(q) ==
  Scripts(q, ChangeScript(q), << "read", "check", "announce", "clear", "delete" >>)

Script(q) == Scripts(q, ChangeScript(q), RemoveScript)

At(c, step) == call[c] # Idle /\ Script(call[c].asked)[call[c].at] = step

Project(c) == call[c].id
Asked(c)   == call[c].asked

Done(c) == call' = [call EXCEPT ![c] = Idle]

Advanced(k, read) == [asked |-> k.asked, id |-> k.id, at |-> k.at + 1, read |-> read]

\* A fault for the checks: a call goes on past its last step.
FaultyGoesOn(c, read) == call' = [call EXCEPT ![c] = Advanced(call[c], read)]

GoesOn(c, read) ==
  IF call[c].at = Len(Script(Asked(c))) THEN Done(c)
  ELSE call' = [call EXCEPT ![c] = Advanced(call[c], read)]

OnTo(c) == GoesOn(c, call[c].read)

Open(p) == {c \in Callers : call[c] # Idle /\ call[c].id = p}

Fields(q) ==
  CASE q.kind = "change" -> {f \in {"name", "root"} : q[f] # Keep}
    [] q.kind = "remove" -> {"name", "root"}
    [] OTHER             -> {}

\* Two calls that may undo each other: one writes back a field it has read
\* and the other changes it.
Collide(q, r) ==
  Fields(q) # {} /\ Fields(r) # {} /\ Cardinality(Fields(q) \cup Fields(r)) > 1

Start(c) ==
  /\ call[c] = Idle /\ calls < MaxCalls
  /\ calls' = calls + 1
  /\ \E q \in Requests, p \in Projects :
       /\ (q.kind = "create") = (p \notin minted)
       /\ q.root \in Claimable \cup {Keep}
       /\ minted' = minted \cup {p}
       /\ call' = [call EXCEPT ![c] = [asked |-> q, id |-> p, at |-> 1, read |-> NoRecord]]
       /\ raced' = IF Open(p) = {} THEN raced ELSE raced \cup {p}
       /\ mixed' = IF \E o \in Open(p) : Collide(q, Asked(o)) THEN mixed \cup {p} ELSE mixed
  /\ UNCHANGED << disk, heard, crashes, want, claims, cut, lost >>

----------------------------------------------------------------------------
(* Steps.  Each may fail; a call that fails ends and leaves what it did. *)

\* Get: the record, or ErrNotFound.
Read(c) ==
  /\ At(c, "read")
  /\ IF record[Project(c)] # NoRecord THEN GoesOn(c, record[Project(c)]) ELSE Done(c)
  /\ UNCHANGED << disk, minted, heard, calls, crashes, ghosts >>

Made(r) == IF dir[r] = NoDir THEN Bare ELSE dir[r]

Marked(r, m) == dir' = [dir EXCEPT ![r] = [Made(r) EXCEPT !.marker = m]]

\* writeMarker takes over a directory whatever it was marked for; when it
\* fails the directory may have been made, or the old marker cut short.
Mark(c) ==
  /\ At(c, "mark")
  /\ LET r == Asked(c).root
     IN  /\ claims' = [claims EXCEPT ![r] = @ \cup {Project(c)}]
         /\ \/ Marked(r, Project(c)) /\ cut' = cut \ {r} /\ OnTo(c)
            \/ Marked(r, Unmarked) /\ cut' = cut \cup {r} /\ Done(c)
            \/ UNCHANGED << dir, cut >> /\ Done(c)
  /\ UNCHANGED << record, minted, heard, calls, crashes, want, raced, mixed, lost >>

\* A fault for the checks: a change starts from the record last announced.
FaultyWritten(c, step) ==
  LET p    == Project(c)
      base == IF heard[p] = NoRecord THEN call[c].read ELSE heard[p]
  IN  CASE step = "put"     -> [name |-> Asked(c).name, root |-> Asked(c).root]
        [] step = "putName" -> [base EXCEPT !.name = Asked(c).name]
        [] step = "putRoot" -> [base EXCEPT !.root = Asked(c).root]

\* The record that a call writes, from the one it read.
Written(c, step) ==
  CASE step = "put"     -> [name |-> Asked(c).name, root |-> Asked(c).root]
    [] step = "putName" -> [call[c].read EXCEPT !.name = Asked(c).name]
    [] step = "putRoot" -> [call[c].read EXCEPT !.root = Asked(c).root]

\* What the call was asked to make of the record that is there.
Intended(c, step) ==
  CASE step = "put"     -> [name |-> Asked(c).name, root |-> Asked(c).root]
    [] step = "putName" -> [want[Project(c)] EXCEPT !.name = Asked(c).name]
    [] step = "putRoot" -> [want[Project(c)] EXCEPT !.root = Asked(c).root]

Put(c) ==
  /\ \E step \in {"put", "putName", "putRoot"} :
       /\ At(c, step)
       /\ \/ /\ record' = [record EXCEPT ![Project(c)] = Written(c, step)]
             /\ want' = IF step # "put" /\ want[Project(c)] = NoRecord THEN want
                        ELSE [want EXCEPT ![Project(c)] = Intended(c, step)]
             /\ GoesOn(c, record'[Project(c)])
          \/ Done(c) /\ UNCHANGED << record, want >>
  /\ UNCHANGED << dir, minted, heard, calls, crashes, claims, raced, mixed, cut, lost >>

\* checkMarker: the directory is this project's, or is not there.
Check(c) ==
  /\ At(c, "check")
  /\ LET r == call[c].read.root
     IN  IF dir[r] = NoDir \/ dir[r].marker = Project(c) THEN OnTo(c) ELSE Done(c)
  /\ UNCHANGED << disk, minted, heard, calls, crashes, ghosts >>

\* os.RemoveAll takes what it can: when it fails, what is left of the
\* directory may have lost its marker, its types or both.
Clear(c) ==
  /\ At(c, "clear")
  /\ LET r == call[c].read.root
     IN  \/ dir' = [dir EXCEPT ![r] = NoDir] /\ OnTo(c) /\ UNCHANGED cut
         \/ /\ dir[r] # NoDir
            /\ \E m \in {dir[r].marker, Unmarked}, ts \in SUBSET dir[r].types :
                 dir' = [dir EXCEPT ![r] = [marker |-> m, types |-> ts]]
            /\ Done(c) /\ cut' = cut \cup {call[c].read.root}
  /\ UNCHANGED << record, minted, heard, calls, crashes, want, claims, raced, mixed, lost >>

DeleteRecord(c) ==
  /\ At(c, "delete")
  /\ \/ /\ record' = [record EXCEPT ![Project(c)] = NoRecord]
        /\ want' = [want EXCEPT ![Project(c)] = NoRecord]
        /\ OnTo(c) /\ UNCHANGED cut
     \/ Done(c) /\ cut' = cut \cup {call[c].read.root} /\ UNCHANGED << record, want >>
  /\ UNCHANGED << dir, minted, heard, calls, crashes, claims, raced, mixed, lost >>

\* The record as the call wrote it, or that it is gone.  The bus may refuse
\* the caller's context, which is logged and swallowed.
Announce(c) ==
  /\ At(c, "announce")
  /\ LET p    == Project(c)
         news == IF Asked(c).kind = "remove" THEN NoRecord ELSE call[c].read
     IN  \/ heard' = [heard EXCEPT ![p] = news] /\ lost' = lost \ {p}
         \/ UNCHANGED heard /\ lost' = lost \cup {p}
  /\ OnTo(c)
  /\ UNCHANGED << disk, minted, calls, crashes, want, claims, raced, mixed, cut >>

\* The process stops: every open call with it.
Crash ==
  /\ crashes < MaxCrashes
  /\ crashes' = crashes + 1
  /\ call' = [c \in Callers |-> Idle]
  /\ lost' = lost \cup {Project(c) : c \in {d \in Callers : At(d, "announce")}}
  /\ cut' = cut \cup {call[c].read.root : c \in {d \in Callers : At(d, "delete")}}
  /\ UNCHANGED << disk, minted, heard, calls, want, claims, raced, mixed >>

RegistryStep(c) ==
  Start(c) \/ Read(c) \/ Mark(c) \/ Put(c) \/ Check(c) \/ Clear(c) \/ DeleteRecord(c) \/ Announce(c)

----------------------------------------------------------------------------
RegistryTypeOK ==
  /\ record \in [Projects -> Records \cup {NoRecord}]
  /\ dir \in [Roots -> Dirs \cup {NoDir}]
  /\ call \in [Callers -> Calls \cup {Idle}]
  /\ \A c \in Callers : call[c] # Idle =>
       call[c].id \in minted /\ call[c].at \in DOMAIN Script(call[c].asked)
  /\ minted \subseteq Projects
  /\ heard \in [Projects -> Records \cup {NoRecord}]
  /\ want \in [Projects -> Records \cup {NoRecord}]
  /\ claims \in [Roots -> SUBSET Projects]
  /\ raced \cup lost \subseteq Projects /\ mixed \subseteq raced /\ cut \subseteq Roots

\* No other project ever marked its directory.
Alone(p) == claims[record[p].root] \subseteq {p}

Quiet(p) == Open(p) = {} /\ p \notin raced

(***************************************************************************)
(* A project stays removable (mutate.go, Remove): between calls its        *)
(* directory carries its marker or is gone, whatever failed or crashed     *)
(* half way.  Not promised where the code does not hold it: two projects   *)
(* that claim one directory, two calls at once, and a removal or a marking *)
(* that failed part way, since both can lose the marker before the rest.   *)
(***************************************************************************)
Removable ==
  \A p \in Projects : record[p] # NoRecord /\ Quiet(p) /\ Alone(p) /\ record[p].root \notin cut =>
    dir[record[p].root] = NoDir \/ dir[record[p].root].marker = p

(***************************************************************************)
(* "The record goes last" (mutate.go): whenever a record disappears its    *)
(* directory is gone already, so nothing on disk is left that no record    *)
(* knows; unless another call on the project or a second owner of the      *)
(* directory came between.                                                 *)
(***************************************************************************)
GoesLast(p) ==
  record[p] # NoRecord /\ record'[p] = NoRecord =>
    p \in raced \/ ~Alone(p) \/ dir[record[p].root] = NoDir

RecordGoesLast == [][\A p \in Projects : GoesLast(p)]_rvars

(***************************************************************************)
(* Nothing acknowledged is undone: the record is what the changes made to  *)
(* it add up to, failures and PATCHes that stop half way included.  The    *)
(* record is read, changed and written back without a lock, so this holds  *)
(* only as long as calls that write different fields do not overlap.       *)
(***************************************************************************)
Kept == \A p \in Projects \ mixed : record[p] = want[p]

(***************************************************************************)
(* A client that applies the announcements in order ends with the record:  *)
(* when no call is open and none overlapped, what was heard of a project is*)
(* what is stored, unless its last announcement was lost.                  *)
(***************************************************************************)
NewsIsCurrent == \A p \in Projects : Quiet(p) /\ p \notin lost => heard[p] = record[p]
=============================================================================
