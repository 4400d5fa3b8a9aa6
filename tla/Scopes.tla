------------------------------- MODULE Scopes -------------------------------
(***************************************************************************)
(* The stores that belong to a project, over the registry                  *)
(* (src/services/api/internal/scopes: scopes.go, tracker.go, seed.go).     *)
(*                                                                         *)
(* Both kinds of store are found by reading the project's record first.  A *)
(* settings store is made for each call and forgotten.  A tracker is opened*)
(* once in the life of the process, under a lock, at the root the record   *)
(* had when it was read, and kept; one that holds no types gets the starter*)
(* type.  Of a tracker only its item types are modelled here.              *)
(***************************************************************************)
EXTENDS Registry

CONSTANTS
  Starter,   \* the type a tracker is seeded with
  Closed     \* the process has not opened the project's tracker

Trackers == [root : Roots, types : SUBSET Types]

ASSUME ScopesAssumption == Starter \in Types /\ Closed \notin Trackers

VARIABLES
  tracker,   \* the tracker of each project that the process holds
  moved      \* projects whose directory changed under an open tracker

svars == << tracker, moved >>
vars  == << rvars, svars >>

Init ==
  /\ RegistryInit
  /\ tracker = [p \in Projects |-> Closed]
  /\ moved = {}

TypesAt(r) == IF dir[r] = NoDir THEN {} ELSE dir[r].types

\* Writing into a directory that is not there makes it, without a marker.
Stored(r, ts) == [Made(r) EXCEPT !.types = ts]

\* Settings(id), then one Set in the store it returns: its MkdirAll makes the
\* root when it is gone.
Write(c) ==
  /\ At(c, "write")
  /\ dir' = [dir EXCEPT ![call[c].read.root] = Made(call[c].read.root)]
  /\ OnTo(c)
  /\ UNCHANGED << record, minted, heard, calls, crashes, ghosts, svars >>

\* seed: only a tracker without types gets one.
Seeded(ts) == IF ts = {} THEN {Starter} ELSE ts

Held(p) == tracker[p] # Closed

\* Tracker(id) under its lock: the one that is held, or a new one that loads
\* its directory.  Loading or seeding may fail, and then nothing is kept.
OpenTracker(c) ==
  /\ At(c, "open")
  /\ LET p  == Project(c)
         r  == call[c].read.root
         ts == Seeded(TypesAt(r))
     IN  IF Held(p) THEN OnTo(c) /\ UNCHANGED << dir, tracker >>
         ELSE \/ /\ tracker' = [tracker EXCEPT ![p] = [root |-> r, types |-> ts]]
                 /\ dir' = IF ts = TypesAt(r) THEN dir ELSE [dir EXCEPT ![r] = Stored(r, ts)]
                 /\ OnTo(c)
              \/ Done(c) /\ UNCHANGED << dir, tracker >>
  /\ UNCHANGED << record, minted, heard, calls, crashes, ghosts, moved >>

\* A fault for the checks: a type leaves the memory and not the directory.
FaultyRemoved(r, t) == TypesAt(r)

Removed(r, t) == TypesAt(r) \ {t}

\* PutItemType or DeleteItemType on the tracker that is held: the file of one
\* type at the root it was opened at, then the memory.  (A call that is refused changes nothing and is left out.)
Author(c) ==
  /\ At(c, "author")
  /\ LET p == Project(c)
         r == tracker[p].root
     IN  \E t \in Types :
           \/ /\ tracker' = [tracker EXCEPT ![p].types = @ \cup {t}]
              /\ dir' = [dir EXCEPT ![r] = Stored(r, TypesAt(r) \cup {t})]
           \/ /\ t \in tracker[p].types
              /\ tracker' = [tracker EXCEPT ![p].types = @ \ {t}]
              /\ dir' = IF dir[r] = NoDir THEN dir ELSE [dir EXCEPT ![r] = Stored(r, Removed(r, t))]
  /\ OnTo(c)
  /\ UNCHANGED << record, minted, heard, calls, crashes, ghosts, moved >>

\* The tracker of p is open, or a call is about to open it.
InUse(p) == tracker[p] # Closed \/ \E c \in Open(p) : Asked(c).kind = "tracker"

\* Under its tracker, a removal has begun or the record changes its root.
RootOf(p) == IF record[p] = NoRecord THEN NoDir ELSE record[p].root

Moves(c) ==
  moved' = moved \cup {p \in Projects :
    InUse(p) /\ (RootOf(p)' # RootOf(p) \/ (At(c, "clear") /\ p = Project(c)))}

Registers(c) == RegistryStep(c) /\ Moves(c) /\ UNCHANGED tracker

Restart == Crash /\ tracker' = [p \in Projects |-> Closed] /\ moved' = {}

Next ==
  \/ \E c \in Callers : Registers(c) \/ Write(c) \/ OpenTracker(c) \/ Author(c)
  \/ Restart

Spec == Init /\ [][Next]_vars

----------------------------------------------------------------------------
TypeOK ==
  /\ RegistryTypeOK
  /\ tracker \in [Projects -> Trackers \cup {Closed}]
  /\ moved \subseteq Projects

(***************************************************************************)
(* A restart would lose nothing of an open tracker: it holds the types of  *)
(* the directory that the project's record names.  The cache is never told *)
(* of a re-pointing or a removal, so those break it, as does a directory   *)
(* with two owners.                                                        *)
(***************************************************************************)
Restartable ==
  \A p \in Projects \ moved : tracker[p] # Closed /\ record[p] # NoRecord /\ Alone(p) =>
    tracker[p] = [root |-> record[p].root, types |-> TypesAt(record[p].root)]

(***************************************************************************)
(* "One per project is a correctness requirement" (tracker.go): as long as *)
(* the process runs, what an open tracker holds changes only by a call on  *)
(* it.  So a starter type that was deleted comes back no sooner than a     *)
(* restart.                                                                *)
(***************************************************************************)
OneTracker ==
  [][\A p \in Projects :
       tracker[p] # Closed /\ tracker'[p] \notin {tracker[p], Closed} =>
         \E c \in Callers : At(c, "author") /\ Project(c) = p]_vars
=============================================================================
