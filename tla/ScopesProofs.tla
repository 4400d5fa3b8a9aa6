---------------------------- MODULE ScopesProofs ----------------------------
(***************************************************************************)
(* Proofs about the registry and the stores over it, for any projects,     *)
(* roots, types and callers: what is stored is what was asked for, a       *)
(* project stays removable, its record goes last, announcements end with   *)
(* the record, and an open tracker is its directory.                       *)
(***************************************************************************)
EXTENDS Scopes, FiniteSetTheorems, SequenceTheorems, TLAPS

----------------------------------------------------------------------------
(* Scripts. *)

\* The step that an open call is at.
StepOf(k) == Script(k.asked)[k.at]

\* A sequence of three steps and one of four, joined.
LEMMA ThreeAndFour ==
  ASSUME NEW S, NEW a \in S, NEW b \in S, NEW c \in S, NEW d \in S, NEW e \in S, NEW f \in S, NEW g \in S
  PROVE  << a, b, c >> \o << d, e, f, g >> = << a, b, c, d, e, f, g >>
<1> DEFINE s == << a, b, c >>
           t == << d, e, f, g >>
           u == << a, b, c, d, e, f, g >>
<1>1. s \in Seq(S) /\ Len(s) = 3 /\ s[1] = a /\ s[2] = b /\ s[3] = c
  OBVIOUS
<1>2. t \in Seq(S) /\ Len(t) = 4 /\ t[1] = d /\ t[2] = e /\ t[3] = f /\ t[4] = g
  OBVIOUS
<1>3. u \in Seq(S) /\ Len(u) = 7
  OBVIOUS
<1>4. u[1] = a /\ u[2] = b /\ u[3] = c /\ u[4] = d /\ u[5] = e /\ u[6] = f /\ u[7] = g
  OBVIOUS
<1> HIDE DEF s, t, u
<1>5. /\ s \o t \in Seq(S) /\ Len(s \o t) = 7
      /\ \A i \in 1 .. 7 : (s \o t)[i] = IF i <= 3 THEN s[i] ELSE t[i - 3]
  <2>1. /\ s \o t \in Seq(S) /\ Len(s \o t) = Len(s) + Len(t)
        /\ \A i \in 1 .. Len(s) + Len(t) : (s \o t)[i] = IF i <= Len(s) THEN s[i] ELSE t[i - Len(s)]
    BY <1>1, <1>2, ConcatProperties, Zenon
  <2>2. Len(s) + Len(t) = 7
    BY <1>1, <1>2
  <2> QED  BY <1>1, <2>1, <2>2
<1>6. ASSUME NEW i \in 1 .. 7 PROVE (s \o t)[i] = u[i]
  <2>1. i = 1 \/ i = 2 \/ i = 3 \/ i = 4 \/ i = 5 \/ i = 6 \/ i = 7
    OBVIOUS
  <2> QED BY <1>1, <1>2, <1>4, <1>5, <2>1
<1>7. s \o t = u
  BY <1>3, <1>5, <1>6, SeqEqual
<1> QED BY <1>7 DEF s, t, u

\* A request names what its kind needs.
LEMMA RequestShape ==
  ASSUME NEW q \in Requests
  PROVE  \/ q.kind = "create" /\ q.name \in Names /\ q.root \in Roots
         \/ q.kind = "change" /\ q.name \in Names \cup {Keep} /\ q.root \in Roots \cup {Keep}
            /\ (q.name # Keep \/ q.root # Keep)
         \/ q.kind \in {"remove", "settings", "tracker"} /\ q.name = Keep /\ q.root = Keep
  BY DEF Requests

\* The seven scripts there are.
LEMMA ScriptTable ==
  ASSUME NEW q \in Requests
  PROVE  \/ q.kind = "create" /\ Script(q) = << "mark", "put", "announce" >>
         \/ q.kind = "change" /\ q.root = Keep /\ q.name \in Names /\ Script(q) = << "read", "putName", "announce" >>
         \/ q.kind = "change" /\ q.name = Keep /\ q.root \in Roots /\ Script(q) = << "read", "mark", "putRoot", "announce" >>
         \/ q.kind = "change" /\ q.name \in Names /\ q.root \in Roots
            /\ Script(q) = << "read", "putName", "announce", "read", "mark", "putRoot", "announce" >>
         \/ q.kind = "remove" /\ Script(q) = << "read", "check", "clear", "delete", "announce" >>
         \/ q.kind = "settings" /\ Script(q) = << "read", "write" >>
         \/ q.kind = "tracker" /\ Script(q) = << "read", "open", "author" >>
<1>1. CASE q.kind = "create"
  BY <1>1 DEF Script, Scripts, Others
<1>2. CASE q.kind = "settings"
  BY <1>2 DEF Script, Scripts, Others
<1>3. CASE q.kind = "tracker"
  BY <1>3 DEF Script, Scripts, Others
<1>4. CASE q.kind = "remove"
  BY <1>4 DEF Script, Scripts, RemoveScript
<1>5. CASE q.kind = "change"
  <2>0. Script(q) = ChangeScript(q)
    BY <1>5 DEF Script, Scripts
  <2>1. CASE q.root = Keep
    <3>1. q.name \in Names /\ q.name # Keep
      BY <1>5, <2>1, RequestShape, RegistryAssumption
    <3>2. << "read", "putName", "announce" >> \o << >> = << "read", "putName", "announce" >>
      OBVIOUS
    <3> QED  BY <1>5, <2>0, <2>1, <3>1, <3>2 DEF ChangeScript, RenameScript, RepointScript
  <2>2. CASE q.root # Keep /\ q.name = Keep
    <3>1. << >> \o << "read", "mark", "putRoot", "announce" >> = << "read", "mark", "putRoot", "announce" >>
      OBVIOUS
    <3> QED  BY <1>5, <2>0, <2>2, <3>1, RequestShape DEF ChangeScript, RenameScript, RepointScript
  <2>3. CASE q.root # Keep /\ q.name # Keep
    <3>1. << "read", "putName", "announce" >> \o << "read", "mark", "putRoot", "announce" >>
            = << "read", "putName", "announce", "read", "mark", "putRoot", "announce" >>
      <4> DEFINE S == {"read", "putName", "announce", "mark", "putRoot"}
      <4>1. "read" \in S /\ "putName" \in S /\ "announce" \in S /\ "mark" \in S /\ "putRoot" \in S
        OBVIOUS
      <4> HIDE DEF S
      <4> QED  BY <4>1, ThreeAndFour
    <3> QED  BY <1>5, <2>0, <2>3, <3>1, RequestShape DEF ChangeScript, RenameScript, RepointScript
  <2> QED  BY <2>1, <2>2, <2>3
<1> QED  BY <1>1, <1>2, <1>3, <1>4, <1>5, RequestShape

\* The first step of a call.
LEMMA FirstStep ==
  ASSUME NEW q \in Requests
  PROVE  1 \in DOMAIN Script(q) /\ Script(q)[1] = IF q.kind = "create" THEN "mark" ELSE "read"
BY ScriptTable

\* After step s of the script of q comes step t.
Leads(q, s, t) ==
  /\ s = "read" => t \in {"putName", "mark", "check", "write", "open"}
  /\ s = "mark" => t = IF q.kind = "create" THEN "put" ELSE "putRoot"
  /\ s \in {"put", "putName", "putRoot", "delete"} => t = "announce"
  /\ s = "check" => t = "clear"
  /\ s = "clear" => t = "delete"
  /\ s = "open" => t = "author"
  /\ s = "announce" => t = "read" /\ q.kind = "change"
  /\ s \notin {"write", "author"}

\* Which step follows which, and where a script may end.
LEMMA Follows ==
  ASSUME NEW q \in Requests, NEW k \in DOMAIN Script(q)
  PROVE  /\ k \in Nat
         /\ k = Len(Script(q)) => Script(q)[k] \in {"announce", "write", "author"}
         /\ k # Len(Script(q)) => k + 1 \in DOMAIN Script(q) /\ Leads(q, Script(q)[k], Script(q)[k + 1])
<1>1. CASE q.kind = "create" /\ Script(q) = << "mark", "put", "announce" >>
  <2>1. k = 1 \/ k = 2 \/ k = 3
    BY <1>1
  <2> QED  BY <1>1, <2>1 DEF Leads
<1>2. CASE q.kind = "change" /\ Script(q) = << "read", "putName", "announce" >>
  <2>1. k = 1 \/ k = 2 \/ k = 3
    BY <1>2
  <2> QED  BY <1>2, <2>1 DEF Leads
<1>3. CASE q.kind = "change" /\ Script(q) = << "read", "mark", "putRoot", "announce" >>
  <2>1. k = 1 \/ k = 2 \/ k = 3 \/ k = 4
    BY <1>3
  <2> QED  BY <1>3, <2>1 DEF Leads
<1>4. CASE /\ q.kind = "change"
            /\ Script(q) = << "read", "putName", "announce", "read", "mark", "putRoot", "announce" >>
  <2>1. k = 1 \/ k = 2 \/ k = 3 \/ k = 4 \/ k = 5 \/ k = 6 \/ k = 7
    BY <1>4
  <2> QED  BY <1>4, <2>1 DEF Leads
<1>5. CASE q.kind = "remove" /\ Script(q) = << "read", "check", "clear", "delete", "announce" >>
  <2>1. k = 1 \/ k = 2 \/ k = 3 \/ k = 4 \/ k = 5
    BY <1>5
  <2> QED  BY <1>5, <2>1 DEF Leads
<1>6. CASE q.kind = "settings" /\ Script(q) = << "read", "write" >>
  <2>1. k = 1 \/ k = 2
    BY <1>6
  <2> QED  BY <1>6, <2>1 DEF Leads
<1>7. CASE q.kind = "tracker" /\ Script(q) = << "read", "open", "author" >>
  <2>1. k = 1 \/ k = 2 \/ k = 3
    BY <1>7
  <2> QED  BY <1>7, <2>1 DEF Leads
<1> QED  BY ScriptTable, <1>1, <1>2, <1>3, <1>4, <1>5, <1>6, <1>7

\* What a call asks for that is at a step.
LEMMA StepsOf ==
  ASSUME NEW q \in Requests, NEW k \in DOMAIN Script(q)
  PROVE  LET s == Script(q)[k]
         IN  /\ s \in {"mark", "put", "announce"} \/ q.kind # "create"
             /\ s \in {"check", "clear", "delete"} => q.kind = "remove"
             /\ s = "put" => q.kind = "create" /\ q.name \in Names /\ q.root \in Roots
             /\ s \in {"putName", "putRoot"} => q.kind = "change"
             /\ s = "putName" => q.name \in Names
             /\ s \in {"mark", "putRoot"} => q.root \in Roots
             /\ s = "mark" => q.kind \in {"create", "change"}
             /\ s \in {"open", "author"} => q.kind = "tracker"
             /\ s = "write" => q.kind = "settings"
             /\ s \in {"read", "mark", "put", "putName", "putRoot", "check", "clear", "delete", "announce",
                        "write", "open", "author"}
<1>1. CASE q.kind = "create" /\ q.name \in Names /\ q.root \in Roots /\ Script(q) = << "mark", "put", "announce" >>
  <2>1. k = 1 \/ k = 2 \/ k = 3
    BY <1>1
  <2> QED  BY <1>1, <2>1
<1>2. CASE q.kind = "change" /\ q.name \in Names /\ Script(q) = << "read", "putName", "announce" >>
  <2>1. k = 1 \/ k = 2 \/ k = 3
    BY <1>2
  <2> QED  BY <1>2, <2>1
<1>3. CASE q.kind = "change" /\ q.root \in Roots /\ Script(q) = << "read", "mark", "putRoot", "announce" >>
  <2>1. k = 1 \/ k = 2 \/ k = 3 \/ k = 4
    BY <1>3
  <2> QED  BY <1>3, <2>1
<1>4. CASE /\ q.kind = "change" /\ q.name \in Names /\ q.root \in Roots
            /\ Script(q) = << "read", "putName", "announce", "read", "mark", "putRoot", "announce" >>
  <2>1. k = 1 \/ k = 2 \/ k = 3 \/ k = 4 \/ k = 5 \/ k = 6 \/ k = 7
    BY <1>4
  <2> QED  BY <1>4, <2>1
<1>5. CASE q.kind = "remove" /\ Script(q) = << "read", "check", "clear", "delete", "announce" >>
  <2>1. k = 1 \/ k = 2 \/ k = 3 \/ k = 4 \/ k = 5
    BY <1>5
  <2> QED  BY <1>5, <2>1
<1>6. CASE q.kind = "settings" /\ Script(q) = << "read", "write" >>
  <2>1. k = 1 \/ k = 2
    BY <1>6
  <2> QED  BY <1>6, <2>1
<1>7. CASE q.kind = "tracker" /\ Script(q) = << "read", "open", "author" >>
  <2>1. k = 1 \/ k = 2 \/ k = 3
    BY <1>7
  <2> QED  BY <1>7, <2>1
<1> QED  BY ScriptTable, RequestShape, <1>1, <1>2, <1>3, <1>4, <1>5, <1>6, <1>7

----------------------------------------------------------------------------
(* The inductive invariant. *)

\* Steps that follow a read without another one between.
AfterRead == {"putName", "putRoot", "check", "clear", "delete", "write", "open", "author", "announce"}

At1(c, steps) == call[c] # Idle /\ StepOf(call[c]) \in steps

HasRead ==
  \A c \in Callers :
    At1(c, AfterRead) \/ (At1(c, {"mark"}) /\ Asked(c).kind = "change") => call[c].read \in Records

Minted == \A p \in Projects : record[p] # NoRecord => p \in minted

\* Until a creation has written its record, nobody else gets past reading it.
Creating ==
  \A c, d \in Callers :
    At1(c, {"mark", "put"}) /\ Asked(c).kind = "create" =>
      /\ record[Project(c)] = NoRecord
      /\ d # c /\ call[d] # Idle /\ Project(d) = Project(c) => At1(d, {"read"})

\* Calls that are not counted as overlapping do not.
Counted ==
  \A c, d \in Callers :
    c # d /\ call[c] # Idle /\ call[d] # Idle /\ Project(c) = Project(d) =>
      Project(c) \in raced /\ (Project(c) \notin mixed => ~Collide(Asked(c), Asked(d)))

\* A record that a call will write back is the one that is there, but for the
\* one field that others write as well.
Agrees(c) ==
  LET r == record[Project(c)]
  IN  /\ r # NoRecord
      /\ call[c].read.name = r.name \/ Fields(Asked(c)) = {"name"}
      /\ call[c].read.root = r.root \/ Fields(Asked(c)) = {"root"}

WritesBack(c) ==
  \/ At1(c, {"putName", "putRoot", "check", "clear", "delete"})
  \/ At1(c, {"mark"}) /\ Asked(c).kind = "change"

Agreeing == \A c \in Callers : WritesBack(c) /\ Project(c) \notin mixed => Agrees(c)

\* Every root that a record, a call or a tracker names was marked for it.
Claimed ==
  /\ \A p \in Projects : record[p] # NoRecord => p \in claims[record[p].root]
  /\ \A c \in Callers : call[c] # Idle /\ call[c].read # NoRecord => Project(c) \in claims[call[c].read.root]
  /\ \A c \in Callers : At1(c, {"put", "putRoot"}) => Project(c) \in claims[Asked(c).root]
  /\ \A p \in Projects : tracker[p] # Closed => p \in claims[tracker[p].root]

\* r is a directory marked for p, as long as nobody else claims it and no
\* marking or removing of it failed.
Bears(p, r) == claims[r] \subseteq {p} /\ r \notin cut => dir[r] # NoDir /\ dir[r].marker = p

Deleting(p) == \E c \in Open(p) : At1(c, {"delete"})

MarksOf(p) ==
  /\ record[p] # NoRecord /\ ~Deleting(p) => Bears(p, record[p].root)
  /\ \A c \in Open(p) : At1(c, {"put", "putRoot"}) => Bears(p, Asked(c).root)
  /\ \A c \in Open(p) :
       At1(c, {"delete"}) /\ claims[call[c].read.root] \subseteq {p} => dir[call[c].read.root] = NoDir

Marks == \A p \in Projects \ raced : MarksOf(p)

Announcing(p) == \E c \in Open(p) : At1(c, {"announce"})

\* An announcement on its way tells the record, and without one it was told.
News ==
  /\ \A c \in Callers : At1(c, {"announce"}) /\ Project(c) \notin raced =>
       record[Project(c)] = IF Asked(c).kind = "remove" THEN NoRecord ELSE call[c].read
  /\ \A p \in Projects \ raced : p \notin lost /\ ~Announcing(p) => heard[p] = record[p]

\* What a tracker is opened at is the root that the record names.
Opening ==
  \A c \in Callers :
    /\ At1(c, {"open"}) /\ Project(c) \notin moved => RootOf(Project(c)) = call[c].read.root
    /\ At1(c, {"author"}) => tracker[Project(c)] # Closed

Inv ==
  /\ TypeOK /\ HasRead /\ Minted /\ Creating /\ Counted
  /\ Agreeing /\ Kept
  /\ Claimed /\ Marks
  /\ News
  /\ Opening /\ Restartable

----------------------------------------------------------------------------
(* What a step of a call does to the calls. *)

\* c's call was at step s; it has ended, or gone on with the record r.
Advances(c, s, r) ==
  /\ call[c] # Idle /\ StepOf(call[c]) = s /\ call' \in [Callers -> Calls \cup {Idle}]
  /\ \A d \in Callers : d # c => call'[d] = call[d]
  /\ call'[c] # Idle =>
       /\ call'[c].asked = call[c].asked /\ call'[c].id = call[c].id /\ call'[c].read = r
       /\ call'[c].at \in DOMAIN Script(call[c].asked)
       /\ Leads(call[c].asked, s, StepOf(call'[c]))

\* A call that is at step s is open, and asks for what the step needs.
LEMMA AtStep ==
  ASSUME TypeOK, NEW c \in Callers, call[c] # Idle
  PROVE  /\ call[c] \in Calls /\ Asked(c) \in Requests /\ Project(c) \in Projects
         /\ call[c].at \in DOMAIN Script(Asked(c)) /\ StepOf(call[c]) = Script(Asked(c))[call[c].at]
BY DEF TypeOK, RegistryTypeOK, Calls, Asked, Project, StepOf

\* A call that is done has ended.
LEMMA EndsThere ==
  ASSUME TypeOK, NEW c \in Callers, NEW s, NEW r, At(c, s), Done(c)
  PROVE  Advances(c, s, r) /\ call'[c] = Idle
BY DEF TypeOK, RegistryTypeOK, At, Done, Advances, StepOf

\* A call that goes on is at its next step, or was at its last.
LEMMA GoesOnFrom ==
  ASSUME TypeOK, NEW c \in Callers, NEW s, NEW r \in Records \cup {NoRecord}, At(c, s), GoesOn(c, r)
  PROVE  Advances(c, s, r) /\ (s \notin {"announce", "write", "author"} => call'[c] # Idle)
<1> DEFINE k == call[c]
<1>1. k \in Calls /\ k # Idle /\ k.asked \in Requests /\ k.at \in DOMAIN Script(k.asked) /\ Script(k.asked)[k.at] = s
  BY AtStep DEF At, Asked
<1>2. CASE k.at = Len(Script(k.asked))
  <2>1. Done(c)
    BY <1>2 DEF GoesOn, Asked
  <2> QED  BY <1>1, <1>2, <2>1, EndsThere, Follows
<1>3. CASE k.at # Len(Script(k.asked))
  <2> DEFINE m == Advanced(k, r)
  <2>1. call' = [call EXCEPT ![c] = m]
    BY <1>3 DEF GoesOn, Asked
  <2>2. k.at + 1 \in DOMAIN Script(k.asked) /\ Leads(k.asked, s, Script(k.asked)[k.at + 1]) /\ k.at \in Nat
    BY <1>1, <1>3, Follows
  <2>3. m \in Calls /\ m.asked = k.asked /\ m.id = k.id /\ m.read = r /\ m.at = k.at + 1
    BY <1>1, <2>2 DEF Calls, Advanced
  <2> HIDE DEF m
  <2>4. m # Idle
    BY <2>3, RegistryAssumption
  <2>5. call' \in [Callers -> Calls \cup {Idle}] /\ call'[c] = m /\ \A d \in Callers : d # c => call'[d] = call[d]
    BY <2>1, <2>3 DEF TypeOK, RegistryTypeOK
  <2> QED  BY <1>1, <2>2, <2>3, <2>4, <2>5 DEF Advances, StepOf
<1> QED  BY <1>2, <1>3


\* The calls stay well typed.
LEMMA AdvancesTyped ==
  ASSUME TypeOK, NEW c \in Callers, NEW s, NEW r, Advances(c, s, r), minted \subseteq minted'
  PROVE  /\ call' \in [Callers -> Calls \cup {Idle}]
         /\ \A d \in Callers : call'[d] # Idle =>
              call'[d].id \in minted' /\ call'[d].at \in DOMAIN Script(call'[d].asked)
BY DEF TypeOK, RegistryTypeOK, Advances

\* What a write makes of the record.
LEMMA WrittenIs ==
  ASSUME TypeOK, HasRead, NEW c \in Callers, NEW step \in {"put", "putName", "putRoot"}, At(c, step)
  PROVE  /\ Written(c, step) \in Records
         /\ step = "put" => Written(c, step) = [name |-> Asked(c).name, root |-> Asked(c).root]
         /\ step = "putName" => Written(c, step) = [name |-> Asked(c).name, root |-> call[c].read.root]
         /\ step = "putRoot" => Written(c, step) = [name |-> call[c].read.name, root |-> Asked(c).root]
<1>1. call[c] # Idle /\ StepOf(call[c]) = step /\ Asked(c) \in Requests
  BY AtStep DEF At, StepOf, Asked
<1>2. step = "put" => Asked(c).name \in Names /\ Asked(c).root \in Roots
  BY <1>1, AtStep, StepsOf
<1>3. step = "putName" => Asked(c).name \in Names
  BY <1>1, AtStep, StepsOf
<1>4. step = "putRoot" => Asked(c).root \in Roots
  BY <1>1, AtStep, StepsOf
<1>5. step # "put" => call[c].read \in Records
  BY <1>1 DEF HasRead, At1, AfterRead
<1>6. CASE step = "put"
  BY <1>2, <1>6 DEF Written, Records
<1>7. CASE step = "putName"
  BY <1>3, <1>5, <1>7 DEF Written, Records
<1>8. CASE step = "putRoot"
  BY <1>4, <1>5, <1>8 DEF Written, Records
<1> QED  BY <1>6, <1>7, <1>8

\* What a write makes of the sum of the changes so far.
LEMMA IntendedIs ==
  ASSUME TypeOK, NEW c \in Callers, NEW step \in {"put", "putName", "putRoot"}, At(c, step),
         step = "put" \/ want[Project(c)] # NoRecord
  PROVE  /\ Intended(c, step) \in Records
         /\ step = "put" => Intended(c, step) = [name |-> Asked(c).name, root |-> Asked(c).root]
         /\ step = "putName" => Intended(c, step) = [name |-> Asked(c).name, root |-> want[Project(c)].root]
         /\ step = "putRoot" => Intended(c, step) = [name |-> want[Project(c)].name, root |-> Asked(c).root]
<1>1. call[c] # Idle /\ StepOf(call[c]) = step /\ Asked(c) \in Requests /\ Project(c) \in Projects
  BY AtStep DEF At, StepOf, Asked
<1>2. step = "put" => Asked(c).name \in Names /\ Asked(c).root \in Roots
  BY <1>1, AtStep, StepsOf
<1>3. step = "putName" => Asked(c).name \in Names
  BY <1>1, AtStep, StepsOf
<1>4. step = "putRoot" => Asked(c).root \in Roots
  BY <1>1, AtStep, StepsOf
<1>5. step # "put" => want[Project(c)] \in Records
  BY <1>1 DEF TypeOK, RegistryTypeOK
<1>6. CASE step = "put"
  BY <1>2, <1>6 DEF Intended, Records
<1>7. CASE step = "putName"
  BY <1>3, <1>5, <1>7 DEF Intended, Records
<1>8. CASE step = "putRoot"
  BY <1>4, <1>5, <1>8 DEF Intended, Records
<1> QED  BY <1>6, <1>7, <1>8

----------------------------------------------------------------------------
(* What each step does, with the types of what it touches. *)

\* Reading hands the record on, or ends the call where there is none.
LEMMA ReadIs ==
  ASSUME TypeOK, NEW c \in Callers, Read(c)
  PROVE  /\ Advances(c, "read", record[Project(c)])
         /\ record[Project(c)] = NoRecord => call'[c] = Idle
<1>1. Project(c) \in Projects /\ record[Project(c)] \in Records \cup {NoRecord}
  BY AtStep DEF Read, At, TypeOK, RegistryTypeOK
<1> QED  BY <1>1, GoesOnFrom, EndsThere DEF Read

\* The types at r after a step; r itself is taken before it.
TypesAfter(r) == IF dir'[r] = NoDir THEN {} ELSE dir'[r].types

\* Only the directory at r changes.
OnlyAt(r) == dir' \in [Roots -> Dirs \cup {NoDir}] /\ \A x \in Roots : x # r => dir'[x] = dir[x]

\* A marked directory is there, carries the marker and keeps its types.
LEMMA MarkedIs ==
  ASSUME TypeOK, NEW r \in Roots, NEW m \in Projects \cup {Unmarked}, Marked(r, m)
  PROVE  OnlyAt(r) /\ dir'[r] # NoDir /\ dir'[r].marker = m /\ TypesAfter(r) = TypesAt(r)
<1>1. Made(r) \in Dirs /\ Made(r).types = TypesAt(r)
  BY DEF TypeOK, RegistryTypeOK, Made, Bare, Dirs, TypesAt
<1> DEFINE d == [Made(r) EXCEPT !.marker = m]
<1>2. d \in Dirs /\ d.marker = m /\ d.types = TypesAt(r) /\ d # NoDir
  BY <1>1, RegistryAssumption DEF Dirs
<1>3. dir' = [dir EXCEPT ![r] = d]
  BY DEF Marked
<1> HIDE DEF d
<1>4. OnlyAt(r) /\ dir'[r] = d
  BY <1>2, <1>3 DEF TypeOK, RegistryTypeOK, OnlyAt
<1> QED  BY <1>2, <1>4 DEF TypesAfter

\* Marking claims the root; it succeeds, cuts the marker short or does nothing.
LEMMA MarkIs ==
  ASSUME TypeOK, NEW c \in Callers, Mark(c)
  PROVE  LET r == Asked(c).root  p == Project(c)
         IN  /\ r \in Roots /\ p \in Projects /\ Advances(c, "mark", call[c].read)
             /\ OnlyAt(r) /\ TypesAfter(r) = TypesAt(r)
             /\ claims' = [claims EXCEPT ![r] = @ \cup {p}]
             /\ \/ dir'[r] # NoDir /\ dir'[r].marker = p /\ cut' = cut \ {r}
                \/ cut' = cut \cup {r} /\ call'[c] = Idle
                \/ dir' = dir /\ cut' = cut /\ call'[c] = Idle
<1> DEFINE r == Asked(c).root
           p == Project(c)
<1>1. At(c, "mark") /\ call[c] # Idle
  BY DEF Mark, At
<1>2. r \in Roots /\ p \in Projects /\ call[c].read \in Records \cup {NoRecord}
  BY <1>1, AtStep, StepsOf DEF At, Asked, Calls, StepOf
<1>3. claims' = [claims EXCEPT ![r] = @ \cup {p}]
  BY DEF Mark
<1>4. CASE Marked(r, p) /\ cut' = cut \ {r} /\ OnTo(c)
  <2>1. Advances(c, "mark", call[c].read)
    BY <1>1, <1>2, <1>4, GoesOnFrom DEF OnTo
  <2> QED  BY <1>2, <1>3, <1>4, <2>1, MarkedIs
<1>5. CASE Marked(r, Unmarked) /\ cut' = cut \cup {r} /\ Done(c)
  BY <1>1, <1>2, <1>3, <1>5, MarkedIs, EndsThere
<1>6. CASE UNCHANGED << dir, cut >> /\ Done(c)
  <2>1. OnlyAt(r) /\ TypesAfter(r) = TypesAt(r)
    BY <1>6 DEF OnlyAt, TypesAt, TypesAfter, TypeOK, RegistryTypeOK
  <2> QED  BY <1>1, <1>2, <1>3, <1>6, <2>1, EndsThere
<1> QED  BY <1>4, <1>5, <1>6 DEF Mark

\* A write stores the record and goes on, or ends the call.
LEMMA PutIs ==
  ASSUME TypeOK, HasRead, NEW c \in Callers, Put(c)
  PROVE  \E step \in {"put", "putName", "putRoot"} :
           /\ At(c, step) /\ Project(c) \in Projects
           /\ \/ /\ record' = [record EXCEPT ![Project(c)] = Written(c, step)]
                 /\ want' = IF step # "put" /\ want[Project(c)] = NoRecord THEN want
                            ELSE [want EXCEPT ![Project(c)] = Intended(c, step)]
                 /\ Advances(c, step, Written(c, step)) /\ call'[c] # Idle
              \/ record' = record /\ want' = want /\ call'[c] = Idle /\ Advances(c, step, call[c].read)
<1>1. PICK step \in {"put", "putName", "putRoot"} :
        /\ At(c, step)
        /\ \/ /\ record' = [record EXCEPT ![Project(c)] = Written(c, step)]
              /\ want' = IF step # "put" /\ want[Project(c)] = NoRecord THEN want
                         ELSE [want EXCEPT ![Project(c)] = Intended(c, step)]
              /\ GoesOn(c, record'[Project(c)])
           \/ Done(c) /\ UNCHANGED << record, want >>
  BY DEF Put
<1>2. Project(c) \in Projects
  BY <1>1, AtStep DEF At
<1>3. CASE Done(c) /\ UNCHANGED << record, want >>
  BY <1>1, <1>2, <1>3, EndsThere
<1>4. ASSUME record' = [record EXCEPT ![Project(c)] = Written(c, step)], GoesOn(c, record'[Project(c)])
      PROVE  Advances(c, step, Written(c, step)) /\ call'[c] # Idle
  <2>1. Written(c, step) \in Records /\ record'[Project(c)] = Written(c, step)
    BY <1>1, <1>2, <1>4, WrittenIs DEF TypeOK, RegistryTypeOK
  <2> QED  BY <1>1, <1>4, <2>1, GoesOnFrom
<1> QED  BY <1>1, <1>2, <1>3, <1>4

\* Checking the marker changes nothing.
LEMMA CheckIs ==
  ASSUME TypeOK, NEW c \in Callers, Check(c)
  PROVE  Advances(c, "check", call[c].read)
<1>1. call[c].read \in Records \cup {NoRecord}
  BY AtStep DEF Check, At, Calls
<1> QED  BY <1>1, GoesOnFrom, EndsThere DEF Check, OnTo

\* Clearing takes the directory away, or counts as a failure part way.
LEMMA ClearIs ==
  ASSUME TypeOK, HasRead, NEW c \in Callers, Clear(c)
  PROVE  LET r == call[c].read.root
         IN  /\ r \in Roots /\ Project(c) \in Projects /\ Advances(c, "clear", call[c].read) /\ OnlyAt(r)
             /\ \/ dir'[r] = NoDir /\ cut' = cut /\ call'[c] # Idle
                \/ cut' = cut \cup {r} /\ call'[c] = Idle
<1> DEFINE r == call[c].read.root
<1>1. At(c, "clear") /\ call[c] # Idle
  BY DEF Clear, At
<1>2. call[c].read \in Records /\ r \in Roots /\ Project(c) \in Projects
  BY <1>1, AtStep DEF HasRead, At1, AfterRead, At, StepOf, Records
<1>3. CASE dir' = [dir EXCEPT ![r] = NoDir] /\ OnTo(c) /\ UNCHANGED cut
  <2>1. Advances(c, "clear", call[c].read) /\ call'[c] # Idle
    BY <1>1, <1>2, <1>3, GoesOnFrom DEF OnTo
  <2> QED  BY <1>2, <1>3, <2>1 DEF OnlyAt, TypeOK, RegistryTypeOK
<1>4. ASSUME dir[r] # NoDir, Done(c), cut' = cut \cup {r},
             NEW m \in {dir[r].marker, Unmarked}, NEW ts \in SUBSET dir[r].types,
             dir' = [dir EXCEPT ![r] = [marker |-> m, types |-> ts]]
      PROVE  OnlyAt(r)
  <2>1. dir[r] \in Dirs
    BY <1>2, <1>4 DEF TypeOK, RegistryTypeOK
  <2>2. [marker |-> m, types |-> ts] \in Dirs
    BY <1>4, <2>1 DEF Dirs
  <2> QED  BY <1>2, <1>4, <2>2 DEF OnlyAt, TypeOK, RegistryTypeOK
<1>5. CASE /\ dir[r] # NoDir
           /\ \E m \in {dir[r].marker, Unmarked}, ts \in SUBSET dir[r].types :
                dir' = [dir EXCEPT ![r] = [marker |-> m, types |-> ts]]
           /\ Done(c) /\ cut' = cut \cup {r}
  BY <1>1, <1>2, <1>4, <1>5, EndsThere
<1> QED  BY <1>3, <1>5 DEF Clear

\* Deleting takes the record away, or counts as a failure part way.
LEMMA DeleteIs ==
  ASSUME TypeOK, HasRead, NEW c \in Callers, DeleteRecord(c)
  PROVE  /\ call[c].read \in Records /\ Project(c) \in Projects /\ Asked(c).kind = "remove"
         /\ Advances(c, "delete", call[c].read)
         /\ \/ /\ record' = [record EXCEPT ![Project(c)] = NoRecord]
               /\ want' = [want EXCEPT ![Project(c)] = NoRecord]
               /\ cut' = cut /\ call'[c] # Idle
            \/ /\ record' = record /\ want' = want
               /\ cut' = cut \cup {call[c].read.root} /\ call'[c] = Idle
<1>1. At(c, "delete") /\ call[c] # Idle
  BY DEF DeleteRecord, At
<1>2. call[c].read \in Records /\ Project(c) \in Projects /\ Asked(c).kind = "remove"
  BY <1>1, AtStep, StepsOf DEF HasRead, At1, AfterRead, At, StepOf, Asked
<1> QED  BY <1>1, <1>2, GoesOnFrom, EndsThere DEF DeleteRecord, OnTo

\* An announcement is heard or lost.
LEMMA AnnounceIs ==
  ASSUME TypeOK, HasRead, NEW c \in Callers, Announce(c)
  PROVE  LET p    == Project(c)
             news == IF Asked(c).kind = "remove" THEN NoRecord ELSE call[c].read
         IN  /\ call[c].read \in Records /\ p \in Projects /\ Advances(c, "announce", call[c].read)
             /\ \/ heard' = [heard EXCEPT ![p] = news] /\ lost' = lost \ {p}
                \/ heard' = heard /\ lost' = lost \cup {p}
<1>1. At(c, "announce") /\ call[c] # Idle
  BY DEF Announce, At
<1>2. call[c].read \in Records /\ Project(c) \in Projects
  BY <1>1, AtStep DEF HasRead, At1, AfterRead, At, StepOf
<1>3. Advances(c, "announce", call[c].read)
  BY <1>1, <1>2, GoesOnFrom DEF Announce, OnTo
<1> QED  BY <1>2, <1>3 DEF Announce

\* A store writes into the directory at r: it is there afterwards if it was,
\* with the same marker, and holds ts.
Stores(r, ts) ==
  /\ OnlyAt(r) /\ TypesAfter(r) = ts
  /\ dir[r] # NoDir => dir'[r] # NoDir /\ dir'[r].marker = dir[r].marker

\* Storing types is such a write.
LEMMA StoredIs ==
  ASSUME TypeOK, NEW r \in Roots, NEW ts \in SUBSET Types, dir' = [dir EXCEPT ![r] = Stored(r, ts)]
  PROVE  Stores(r, ts)
<1>1. Made(r) \in Dirs /\ (dir[r] # NoDir => Made(r) = dir[r])
  BY DEF TypeOK, RegistryTypeOK, Made, Bare, Dirs
<1> DEFINE d == [Made(r) EXCEPT !.types = ts]
<1>2. d \in Dirs /\ d.types = ts /\ d.marker = Made(r).marker /\ d # NoDir
  BY <1>1, RegistryAssumption DEF Dirs
<1>3. dir' = [dir EXCEPT ![r] = d]
  BY DEF Stored
<1> HIDE DEF d
<1>4. OnlyAt(r) /\ dir'[r] = d
  BY <1>2, <1>3 DEF TypeOK, RegistryTypeOK, OnlyAt
<1> QED  BY <1>1, <1>2, <1>4 DEF TypesAfter, Stores

\* So is storing nothing.
LEMMA NotStored ==
  ASSUME TypeOK, NEW r \in Roots, dir' = dir
  PROVE  Stores(r, TypesAt(r))
BY DEF Stores, OnlyAt, TypesAt, TypesAfter, TypeOK, RegistryTypeOK

\* A settings store makes its directory at most.
LEMMA WriteIs ==
  ASSUME TypeOK, HasRead, NEW c \in Callers, Write(c)
  PROVE  LET r == call[c].read.root
         IN  /\ call[c].read \in Records /\ r \in Roots /\ Project(c) \in Projects
             /\ Advances(c, "write", call[c].read) /\ Stores(r, TypesAt(r))
<1> DEFINE r == call[c].read.root
<1>1. At(c, "write") /\ call[c] # Idle
  BY DEF Write, At
<1>2. call[c].read \in Records /\ r \in Roots /\ Project(c) \in Projects
  BY <1>1, AtStep DEF HasRead, At1, AfterRead, At, StepOf, Records
<1>3. Advances(c, "write", call[c].read)
  BY <1>1, <1>2, GoesOnFrom DEF Write, OnTo
<1>4. Made(r) \in Dirs /\ (dir[r] # NoDir => Made(r) = dir[r]) /\ Made(r).types = TypesAt(r) /\ Made(r) # NoDir
  BY <1>2, RegistryAssumption DEF TypeOK, RegistryTypeOK, Made, Bare, Dirs, TypesAt
<1>5. OnlyAt(r) /\ dir'[r] = Made(r)
  BY <1>2, <1>4 DEF Write, OnlyAt, TypeOK, RegistryTypeOK
<1> QED  BY <1>2, <1>3, <1>4, <1>5 DEF Stores, TypesAfter

\* A directory holds item types.
LEMMA TypesAtIs ==
  ASSUME TypeOK, NEW r \in Roots
  PROVE  TypesAt(r) \in SUBSET Types
BY DEF TypeOK, RegistryTypeOK, TypesAt, Dirs

\* A tracker is held already, or is opened at the root that was read, or not at all.
LEMMA OpenIs ==
  ASSUME TypeOK, HasRead, NEW c \in Callers, OpenTracker(c)
  PROVE  LET p == Project(c)  r == call[c].read.root
         IN  /\ call[c].read \in Records /\ r \in Roots /\ p \in Projects
             /\ Advances(c, "open", call[c].read)
             /\ \/ dir' = dir /\ tracker' = tracker /\ (tracker[p] # Closed \/ call'[c] = Idle)
                \/ \E ts \in SUBSET Types :
                     /\ tracker[p] = Closed /\ Stores(r, ts)
                     /\ tracker' = [tracker EXCEPT ![p] = [root |-> r, types |-> ts]]
<1> DEFINE p  == Project(c)
           r  == call[c].read.root
           ts == Seeded(TypesAt(r))
<1>1. At(c, "open") /\ call[c] # Idle
  BY DEF OpenTracker, At
<1>2. call[c].read \in Records /\ r \in Roots /\ p \in Projects
  BY <1>1, AtStep DEF HasRead, At1, AfterRead, At, StepOf, Records
<1>3. ts \in SUBSET Types
  BY <1>2, TypesAtIs, ScopesAssumption DEF Seeded
<1>4. CASE Held(p) /\ OnTo(c) /\ UNCHANGED << dir, tracker >>
  BY <1>1, <1>2, <1>4, GoesOnFrom DEF OnTo, Held
<1>5. CASE /\ ~Held(p) /\ OnTo(c)
           /\ tracker' = [tracker EXCEPT ![p] = [root |-> r, types |-> ts]]
           /\ dir' = IF ts = TypesAt(r) THEN dir ELSE [dir EXCEPT ![r] = Stored(r, ts)]
  <2>1. Advances(c, "open", call[c].read)
    BY <1>1, <1>2, <1>5, GoesOnFrom DEF OnTo
  <2>2. Stores(r, ts)
    BY <1>2, <1>3, <1>5, StoredIs, NotStored
  <2> QED  BY <1>2, <1>3, <1>5, <2>1, <2>2 DEF Held
<1>6. CASE ~Held(p) /\ Done(c) /\ UNCHANGED << dir, tracker >>
  BY <1>1, <1>2, <1>6, EndsThere
<1> QED  BY <1>4, <1>5, <1>6 DEF OpenTracker

\* A call on a tracker changes its types and those of its directory alike.
LEMMA AuthorIs ==
  ASSUME TypeOK, HasRead, Opening, NEW c \in Callers, Author(c)
  PROVE  LET p == Project(c)  r == tracker[p].root
         IN  /\ p \in Projects /\ r \in Roots /\ tracker[p] \in Trackers /\ tracker[p] # Closed
             /\ Advances(c, "author", call[c].read)
             /\ \E ts \in SUBSET Types :
                  /\ tracker' = [tracker EXCEPT ![p].types = ts]
                  /\ \E us \in SUBSET Types : Stores(r, us) /\ (TypesAt(r) = tracker[p].types => us = ts)
<1> DEFINE p == Project(c)
           r == tracker[p].root
<1>1. At(c, "author") /\ call[c] # Idle
  BY DEF Author, At
<1>2. p \in Projects /\ call[c].read \in Records \cup {NoRecord} /\ tracker[p] # Closed
  BY <1>1, AtStep DEF Opening, At1, At, StepOf, Calls
<1>3. tracker[p] \in Trackers /\ r \in Roots /\ tracker[p].types \in SUBSET Types
  BY <1>2 DEF TypeOK, Trackers
<1>4. Advances(c, "author", call[c].read)
  BY <1>1, <1>2, GoesOnFrom DEF Author, OnTo
<1>5. PICK t \in Types :
        \/ /\ tracker' = [tracker EXCEPT ![p].types = @ \cup {t}]
           /\ dir' = [dir EXCEPT ![r] = Stored(r, TypesAt(r) \cup {t})]
        \/ /\ t \in tracker[p].types
           /\ tracker' = [tracker EXCEPT ![p].types = @ \ {t}]
           /\ dir' = IF dir[r] = NoDir THEN dir ELSE [dir EXCEPT ![r] = Stored(r, Removed(r, t))]
  BY DEF Author
<1>6. TypesAt(r) \in SUBSET Types
  BY <1>3, TypesAtIs
<1>9. ASSUME NEW ts \in SUBSET Types, NEW us \in SUBSET Types, Stores(r, us),
             tracker' = [tracker EXCEPT ![p].types = ts], TypesAt(r) = tracker[p].types => us = ts
      PROVE  /\ p \in Projects /\ r \in Roots /\ tracker[p] \in Trackers /\ tracker[p] # Closed
             /\ Advances(c, "author", call[c].read)
             /\ \E xs \in SUBSET Types :
                  /\ tracker' = [tracker EXCEPT ![p].types = xs]
                  /\ \E ys \in SUBSET Types : Stores(r, ys) /\ (TypesAt(r) = tracker[p].types => ys = xs)
  BY <1>2, <1>3, <1>4, <1>9
<1>7. CASE /\ tracker' = [tracker EXCEPT ![p].types = @ \cup {t}]
           /\ dir' = [dir EXCEPT ![r] = Stored(r, TypesAt(r) \cup {t})]
  <2>1. Stores(r, TypesAt(r) \cup {t})
    BY <1>3, <1>6, <1>7, StoredIs
  <2>2. tracker' = [tracker EXCEPT ![p].types = tracker[p].types \cup {t}]
    BY <1>7
  <2>3. tracker[p].types \cup {t} \in SUBSET Types /\ TypesAt(r) \cup {t} \in SUBSET Types
    BY <1>3, <1>6
  <2> QED  BY <1>9, <2>1, <2>2, <2>3
<1>8. CASE /\ t \in tracker[p].types
           /\ tracker' = [tracker EXCEPT ![p].types = @ \ {t}]
           /\ dir' = IF dir[r] = NoDir THEN dir ELSE [dir EXCEPT ![r] = Stored(r, Removed(r, t))]
  <2>0. tracker[p].types \ {t} \in SUBSET Types /\ TypesAt(r) \ {t} \in SUBSET Types
    BY <1>3, <1>6
  <2>1. tracker' = [tracker EXCEPT ![p].types = tracker[p].types \ {t}]
    BY <1>8
  <2>2. CASE dir[r] = NoDir
    <3>1. Stores(r, TypesAt(r))
      BY <1>3, <1>8, <2>2, NotStored
    <3>2. t \notin TypesAt(r)
      BY <2>2 DEF TypesAt
    <3> QED  BY <1>6, <1>8, <1>9, <2>0, <2>1, <3>1, <3>2
  <2>3. CASE dir[r] # NoDir
    <3>1. Stores(r, TypesAt(r) \ {t})
      BY <1>3, <1>6, <1>8, <2>3, StoredIs DEF Removed
    <3> QED  BY <1>6, <1>9, <2>0, <2>1, <3>1
  <2> QED  BY <2>2, <2>3
<1> QED  BY <1>5, <1>7, <1>8

----------------------------------------------------------------------------
(* Types. *)

\* A call starts at the first step of its script.
LEMMA StartIs ==
  ASSUME TypeOK, NEW c \in Callers, Start(c)
  PROVE  \E q \in Requests, p \in Projects :
           LET k == [asked |-> q, id |-> p, at |-> 1, read |-> NoRecord]
           IN  /\ call[c] = Idle /\ k \in Calls
               /\ call' \in [Callers -> Calls \cup {Idle}] /\ call'[c] = k /\ k # Idle
               /\ \A d \in Callers : d # c => call'[d] = call[d]
               /\ 1 \in DOMAIN Script(q) /\ StepOf(k) = IF q.kind = "create" THEN "mark" ELSE "read"
               /\ q.kind = "create" <=> p \notin minted
               /\ minted' = minted \cup {p}
               /\ raced' = IF Open(p) = {} THEN raced ELSE raced \cup {p}
               /\ mixed' = IF \E o \in Open(p) : Collide(q, Asked(o)) THEN mixed \cup {p} ELSE mixed
<1>1. PICK q \in Requests, p \in Projects :
        /\ (q.kind = "create") = (p \notin minted)
        /\ minted' = minted \cup {p}
        /\ call' = [call EXCEPT ![c] = [asked |-> q, id |-> p, at |-> 1, read |-> NoRecord]]
        /\ raced' = IF Open(p) = {} THEN raced ELSE raced \cup {p}
        /\ mixed' = IF \E o \in Open(p) : Collide(q, Asked(o)) THEN mixed \cup {p} ELSE mixed
  BY DEF Start
<1> DEFINE k == [asked |-> q, id |-> p, at |-> 1, read |-> NoRecord]
<1>2. k \in Calls /\ k # Idle /\ k.asked = q /\ k.at = 1
  BY RegistryAssumption DEF Calls
<1>3. 1 \in DOMAIN Script(q) /\ StepOf(k) = IF q.kind = "create" THEN "mark" ELSE "read"
  BY <1>2, FirstStep DEF StepOf
<1>4. call[c] = Idle
  BY DEF Start
<1>5. call' = [call EXCEPT ![c] = k]
  BY <1>1
<1> HIDE DEF k
<1>6. call' \in [Callers -> Calls \cup {Idle}] /\ call'[c] = k /\ \A d \in Callers : d # c => call'[d] = call[d]
  BY <1>2, <1>5 DEF TypeOK, RegistryTypeOK
<1>7. (q.kind = "create") <=> (p \notin minted)
  BY <1>1, Zenon
<1> QED  BY <1>1, <1>2, <1>3, <1>4, <1>6, <1>7 DEF k

\* The variables keep their types.
LEMMA TypeStep ==
  ASSUME TypeOK, HasRead, Opening, [Next]_vars
  PROVE  TypeOK'
<1>1. CASE UNCHANGED vars
  BY <1>1 DEF vars, rvars, disk, ghosts, svars, TypeOK, RegistryTypeOK
<1>2. CASE Restart
  <2>1. /\ lost' \subseteq Projects /\ cut' \subseteq Roots
    <3>1. \A c \in Callers : At(c, "announce") => Project(c) \in Projects
      BY AtStep DEF At
    <3>2. \A c \in Callers : At(c, "delete") => call[c].read.root \in Roots
      BY DEF At, HasRead, At1, AfterRead, StepOf, Records
    <3> QED  BY <1>2, <3>1, <3>2 DEF Restart, Crash, TypeOK, RegistryTypeOK
  <2>2. call' \in [Callers -> Calls \cup {Idle}] /\ \A c \in Callers : call'[c] = Idle
    BY <1>2 DEF Restart, Crash
  <2> QED  BY <1>2, <2>1, <2>2 DEF Restart, Crash, disk, TypeOK, RegistryTypeOK
<1>3. ASSUME NEW c \in Callers, Registers(c)
      PROVE  TypeOK'
  <2>1. moved' \subseteq Projects /\ tracker' \in [Projects -> Trackers \cup {Closed}]
    BY <1>3 DEF Registers, Moves, TypeOK
  <2>2. CASE Start(c)
    <3>1. PICK q \in Requests, p \in Projects :
             LET k == [asked |-> q, id |-> p, at |-> 1, read |-> NoRecord]
             IN  /\ call' \in [Callers -> Calls \cup {Idle}] /\ call'[c] = k
                 /\ \A d \in Callers : d # c => call'[d] = call[d]
                 /\ 1 \in DOMAIN Script(q)
                 /\ minted' = minted \cup {p}
                 /\ raced' = IF Open(p) = {} THEN raced ELSE raced \cup {p}
                 /\ mixed' = IF \E o \in Open(p) : Collide(q, Asked(o)) THEN mixed \cup {p} ELSE mixed
      BY <2>2, StartIs
    <3>2. \A d \in Callers : call'[d] # Idle =>
            call'[d].id \in minted' /\ call'[d].at \in DOMAIN Script(call'[d].asked)
      BY <3>1 DEF TypeOK, RegistryTypeOK
    <3>3. raced' \subseteq Projects /\ mixed' \subseteq raced' /\ minted' \subseteq Projects
      <4>1. mixed' # mixed => p \in raced'
        BY <3>1
      <4> QED  BY <3>1, <4>1 DEF TypeOK, RegistryTypeOK
    <3> QED  BY <2>1, <2>2, <3>1, <3>2, <3>3 DEF Start, disk, TypeOK, RegistryTypeOK
  <2>3. CASE Read(c)
    BY <2>1, <2>3, ReadIs, AdvancesTyped DEF Read, disk, ghosts, TypeOK, RegistryTypeOK
  <2>4. CASE Mark(c)
    <3>1. claims' \in [Roots -> SUBSET Projects] /\ cut' \subseteq Roots
      BY <2>4, MarkIs DEF TypeOK, RegistryTypeOK
    <3> QED  BY <2>1, <2>4, <3>1, MarkIs, AdvancesTyped DEF Mark, OnlyAt, TypeOK, RegistryTypeOK
  <2>5. CASE Put(c)
    <3>1. PICK step \in {"put", "putName", "putRoot"} :
             /\ At(c, step) /\ Project(c) \in Projects
             /\ \/ /\ record' = [record EXCEPT ![Project(c)] = Written(c, step)]
                   /\ want' = IF step # "put" /\ want[Project(c)] = NoRecord THEN want
                              ELSE [want EXCEPT ![Project(c)] = Intended(c, step)]
                   /\ Advances(c, step, Written(c, step))
                \/ record' = record /\ want' = want /\ Advances(c, step, call[c].read)
      BY <2>5, PutIs
    <3>2. record' \in [Projects -> Records \cup {NoRecord}]
      BY <3>1, WrittenIs DEF TypeOK, RegistryTypeOK
    <3>3. want' \in [Projects -> Records \cup {NoRecord}]
      BY <3>1, IntendedIs DEF TypeOK, RegistryTypeOK
    <3>4. minted' = minted
      BY <2>5 DEF Put
    <3>5. /\ call' \in [Callers -> Calls \cup {Idle}]
          /\ \A d \in Callers : call'[d] # Idle =>
               call'[d].id \in minted' /\ call'[d].at \in DOMAIN Script(call'[d].asked)
      BY <3>1, <3>4, AdvancesTyped
    <3> QED  BY <2>1, <2>5, <3>2, <3>3, <3>5 DEF Put, TypeOK, RegistryTypeOK
  <2>6. CASE Check(c)
    BY <2>1, <2>6, CheckIs, AdvancesTyped DEF Check, disk, ghosts, TypeOK, RegistryTypeOK
  <2>7. CASE Clear(c)
    <3>1. cut' \subseteq Roots
      BY <2>7, ClearIs DEF TypeOK, RegistryTypeOK
    <3> QED  BY <2>1, <2>7, <3>1, ClearIs, AdvancesTyped DEF Clear, OnlyAt, TypeOK, RegistryTypeOK
  <2>8. CASE DeleteRecord(c)
    <3>1. cut' \subseteq Roots
      BY <2>8, DeleteIs DEF TypeOK, RegistryTypeOK, Records
    <3>2. /\ record' \in [Projects -> Records \cup {NoRecord}] /\ want' \in [Projects -> Records \cup {NoRecord}]
      BY <2>8, DeleteIs DEF TypeOK, RegistryTypeOK
    <3> QED  BY <2>1, <2>8, <3>1, <3>2, DeleteIs, AdvancesTyped DEF DeleteRecord, TypeOK, RegistryTypeOK
  <2>9. CASE Announce(c)
    <3>1. heard' \in [Projects -> Records \cup {NoRecord}] /\ lost' \subseteq Projects
      BY <2>9, AnnounceIs DEF TypeOK, RegistryTypeOK
    <3> QED  BY <2>1, <2>9, <3>1, AnnounceIs, AdvancesTyped DEF Announce, disk, TypeOK, RegistryTypeOK
  <2> QED  BY <1>3, <2>2, <2>3, <2>4, <2>5, <2>6, <2>7, <2>8, <2>9 DEF Registers, RegistryStep
<1>4. ASSUME NEW c \in Callers, Write(c)
      PROVE  TypeOK'
  BY <1>4, WriteIs, AdvancesTyped DEF Write, ghosts, svars, Stores, OnlyAt, TypeOK, RegistryTypeOK
<1>5. ASSUME NEW c \in Callers, OpenTracker(c)
      PROVE  TypeOK'
  <2>1. /\ tracker' \in [Projects -> Trackers \cup {Closed}] /\ dir' \in [Roots -> Dirs \cup {NoDir}]
    BY <1>5, OpenIs DEF TypeOK, RegistryTypeOK, Trackers, Stores, OnlyAt
  <2> QED  BY <1>5, <2>1, OpenIs, AdvancesTyped DEF OpenTracker, ghosts, TypeOK, RegistryTypeOK
<1>6. ASSUME NEW c \in Callers, Author(c)
      PROVE  TypeOK'
  <2>1. PICK ts \in SUBSET Types, us \in SUBSET Types :
          tracker' = [tracker EXCEPT ![Project(c)].types = ts] /\ Stores(tracker[Project(c)].root, us)
    BY <1>6, AuthorIs
  <2>2. /\ tracker' \in [Projects -> Trackers \cup {Closed}] /\ dir' \in [Roots -> Dirs \cup {NoDir}]
    BY <1>6, <2>1, AuthorIs DEF TypeOK, RegistryTypeOK, Trackers, Stores, OnlyAt
  <2> QED  BY <1>6, <2>2, AuthorIs, AdvancesTyped DEF Author, ghosts, TypeOK, RegistryTypeOK
<1> QED  BY <1>1, <1>2, <1>3, <1>4, <1>5, <1>6 DEF Next

----------------------------------------------------------------------------
(* Calls. *)


\* A call goes on past reading with a record only.
LEMMA HasReadAdvances ==
  ASSUME TypeOK, HasRead, NEW c \in Callers, NEW s, NEW r, Advances(c, s, r),
         s = "announce" \/ r \in Records \/ call'[c] = Idle \/ (s = "mark" /\ Asked(c).kind = "create")
  PROVE  HasRead'
<1> SUFFICES ASSUME NEW d \in Callers, call'[d] # Idle,
                    \/ StepOf(call'[d]) \in AfterRead
                    \/ StepOf(call'[d]) = "mark" /\ call'[d].asked.kind = "change"
             PROVE  call'[d].read \in Records
  BY DEF HasRead, At1, Asked
<1>1. CASE d # c
  BY <1>1 DEF Advances, HasRead, At1, Asked
<1>2. CASE d = c
  BY <1>2 DEF Advances, Leads, HasRead, At1, AfterRead, Asked
<1> QED  BY <1>1, <1>2

\* A call takes the step s and goes on with the record r, or ends.  It writes
\* the record only when it goes on.
Progress(c, s, r) ==
  LET p == Project(c)
  IN  /\ Advances(c, s, r) /\ UNCHANGED << minted, raced, mixed >>
      /\ s = "read" => r = record[p] /\ (r = NoRecord => call'[c] = Idle)
      /\ s \in {"put", "putName", "putRoot"} /\ call'[c] # Idle => r = Written(c, s) /\ At(c, s)
      /\ s \notin {"read", "put", "putName", "putRoot"} \/ call'[c] = Idle => s = "read" \/ r = call[c].read
      /\ s = "announce" => r \in Records
      /\ record' = IF s \in {"put", "putName", "putRoot", "delete"} /\ call'[c] # Idle
                   THEN [record EXCEPT ![p] = IF s = "delete" THEN NoRecord ELSE r] ELSE record
      /\ \A x \in Roots : claims[x] \subseteq claims'[x]
      /\ s = "mark" => p \in claims'[Asked(c).root]
      /\ IF s = "announce"
         THEN \/ /\ heard' = [heard EXCEPT ![p] = IF Asked(c).kind = "remove" THEN NoRecord ELSE call[c].read]
                 /\ lost' = lost \ {p}
              \/ heard' = heard /\ lost' = lost \cup {p}
         ELSE heard' = heard /\ lost' = lost

\* What a step of a call does.
LEMMA CallStep ==
  ASSUME TypeOK, HasRead, Opening, NEW c \in Callers,
         (Registers(c) /\ ~Start(c)) \/ Write(c) \/ OpenTracker(c) \/ Author(c)
  PROVE  \E s, r : Progress(c, s, r)
<1>1. ASSUME Registers(c), ~Start(c)
      PROVE  \E s, r : Progress(c, s, r)
  <2>1. CASE Read(c)
    <3>1. Progress(c, "read", record[Project(c)])
      BY <2>1, ReadIs DEF Read, Progress, disk, ghosts
    <3> QED  BY <3>1
  <2>2. CASE Mark(c)
    <3>1. Project(c) \in claims'[Asked(c).root] /\ \A x \in Roots : claims[x] \subseteq claims'[x]
      BY <2>2, MarkIs DEF TypeOK, RegistryTypeOK
    <3>2. Progress(c, "mark", call[c].read)
      BY <2>2, <3>1, MarkIs DEF Mark, Progress
    <3> QED  BY <3>2
  <2>3. CASE Put(c)
    <3>1. PICK step \in {"put", "putName", "putRoot"} :
             /\ At(c, step)
             /\ \/ /\ record' = [record EXCEPT ![Project(c)] = Written(c, step)]
                   /\ Advances(c, step, Written(c, step)) /\ call'[c] # Idle
                \/ record' = record /\ call'[c] = Idle /\ Advances(c, step, call[c].read)
      BY <2>3, PutIs
    <3>2. /\ minted' = minted /\ raced' = raced /\ mixed' = mixed /\ claims' = claims
          /\ heard' = heard /\ lost' = lost
      BY <2>3 DEF Put
    <3>3. Progress(c, step, Written(c, step)) \/ Progress(c, step, call[c].read)
      BY <3>1, <3>2 DEF Progress
    <3> QED  BY <3>3
  <2>4. CASE Check(c)
    <3>1. Progress(c, "check", call[c].read)
      BY <2>4, CheckIs DEF Check, Progress, disk, ghosts
    <3> QED  BY <3>1
  <2>5. CASE Clear(c)
    <3>1. Progress(c, "clear", call[c].read)
      BY <2>5, ClearIs DEF Clear, Progress
    <3> QED  BY <3>1
  <2>6. CASE DeleteRecord(c)
    <3>1. Progress(c, "delete", call[c].read)
      BY <2>6, DeleteIs DEF DeleteRecord, Progress
    <3> QED  BY <3>1
  <2>7. CASE Announce(c)
    <3>1. Progress(c, "announce", call[c].read)
      BY <2>7, AnnounceIs DEF Announce, Progress, disk
    <3> QED  BY <3>1
  <2> QED  BY <1>1, <2>1, <2>2, <2>3, <2>4, <2>5, <2>6, <2>7 DEF Registers, RegistryStep
<1>2. ASSUME Write(c)
      PROVE  Progress(c, "write", call[c].read)
  BY <1>2, WriteIs DEF Write, ghosts, Progress
<1>3. ASSUME OpenTracker(c)
      PROVE  Progress(c, "open", call[c].read)
  BY <1>3, OpenIs DEF OpenTracker, ghosts, Progress
<1>4. ASSUME Author(c)
      PROVE  Progress(c, "author", call[c].read)
  BY <1>4, AuthorIs DEF Author, ghosts, Progress
<1> QED  BY <1>1, <1>2, <1>3, <1>4

\* Every step is a start, a step of a call, a restart or none.
LEMMA Steps ==
  ASSUME TypeOK, HasRead, Opening, [Next]_vars
  PROVE  \/ UNCHANGED vars
         \/ Restart
         \/ \E c \in Callers : Start(c) /\ Moves(c) /\ tracker' = tracker
         \/ \E c \in Callers : \E s, r : Progress(c, s, r)
BY CallStep DEF Next, Registers

\* A call that is past reading has a record.
LEMMA HasReadStep ==
  ASSUME TypeOK, HasRead, Opening, [Next]_vars
  PROVE  HasRead'
<1>1. CASE UNCHANGED vars
  BY <1>1 DEF vars, rvars, HasRead, At1, Asked
<1>2. CASE Restart
  BY <1>2 DEF Restart, Crash, HasRead, At1
<1>3. ASSUME NEW c \in Callers, Start(c)
      PROVE  HasRead'
  <2>1. PICK q \in Requests, p \in Projects :
          LET k == [asked |-> q, id |-> p, at |-> 1, read |-> NoRecord]
          IN  /\ call'[c] = k /\ \A d \in Callers : d # c => call'[d] = call[d]
              /\ StepOf(k) = IF q.kind = "create" THEN "mark" ELSE "read"
    BY <1>3, StartIs
  <2>2. \A d \in Callers : d # c => call'[d] = call[d]
    BY <2>1
  <2>3. ~(At1(c, AfterRead) \/ (At1(c, {"mark"}) /\ Asked(c).kind = "change"))'
    BY <2>1 DEF At1, AfterRead, Asked
  <2> QED  BY <2>2, <2>3 DEF HasRead, At1, Asked
<1>4. ASSUME NEW c \in Callers, NEW s, NEW r, Progress(c, s, r)
      PROVE  HasRead'
  <2>1. call[c] # Idle /\ StepOf(call[c]) = s /\ Advances(c, s, r)
    BY <1>4 DEF Progress, Advances
  <2>2. s = "announce" \/ r \in Records \/ call'[c] = Idle \/ (s = "mark" /\ Asked(c).kind = "create")
    <3>1. CASE s = "read"
      BY <1>4, <2>1, <3>1, AtStep DEF Progress, TypeOK, RegistryTypeOK
    <3>2. CASE s \in {"put", "putName", "putRoot"}
      BY <1>4, <2>1, <3>2, WrittenIs DEF Progress
    <3>3. CASE s = "mark"
      BY <1>4, <2>1, <3>3, AtStep, StepsOf DEF Progress, HasRead, At1
    <3>4. CASE s \in AfterRead /\ s \notin {"put", "putName", "putRoot"}
      BY <1>4, <2>1, <3>4 DEF Progress, HasRead, At1, AfterRead
    <3> QED  BY <2>1, <3>1, <3>2, <3>3, <3>4, AtStep, StepsOf DEF AfterRead
  <2> QED  BY <2>1, <2>2, HasReadAdvances
<1> QED  BY <1>1, <1>2, <1>3, <1>4, Steps

\* A project that has a record has been minted.
LEMMA MintedStep ==
  ASSUME TypeOK, HasRead, Opening, Minted, [Next]_vars
  PROVE  Minted'
<1>1. CASE UNCHANGED vars \/ Restart \/ \E c \in Callers : Start(c)
  BY <1>1 DEF vars, rvars, disk, Restart, Crash, Start, Minted
<1>2. ASSUME NEW c \in Callers, NEW s, NEW r, Progress(c, s, r)
      PROVE  Minted'
  <2>1. Project(c) \in minted /\ minted' = minted /\ \A p \in Projects : p # Project(c) => record'[p] = record[p]
    BY <1>2 DEF Progress, Advances, TypeOK, RegistryTypeOK, Project
  <2> QED  BY <2>1 DEF Minted
<1> QED  BY <1>1, <1>2, Steps

\* A creation is alone until its record is there.
LEMMA CreatingStep ==
  ASSUME TypeOK, HasRead, Opening, Minted, Creating, [Next]_vars
  PROVE  Creating'
<1>1. CASE UNCHANGED vars
  BY <1>1 DEF vars, rvars, disk, Creating, At1, Asked, Project
<1>2. CASE Restart
  BY <1>2 DEF Restart, Crash, Creating, At1
<1>3. ASSUME NEW c \in Callers, Start(c)
      PROVE  Creating'
  <2>1. PICK q \in Requests, p \in Projects :
          LET k == [asked |-> q, id |-> p, at |-> 1, read |-> NoRecord]
          IN  /\ call[c] = Idle /\ call'[c] = k /\ k # Idle
              /\ \A d \in Callers : d # c => call'[d] = call[d]
              /\ StepOf(k) = IF q.kind = "create" THEN "mark" ELSE "read"
              /\ q.kind = "create" <=> p \notin minted
    BY <1>3, StartIs
  <2>2. record' = record
    BY <1>3 DEF Start, disk
  <2>3. \A d \in Callers : call[d] # Idle => Project(d) \in minted
    BY DEF TypeOK, RegistryTypeOK, Project
  <2> QED  BY <2>1, <2>2, <2>3 DEF Creating, Minted, At1, Asked, Project
<1>4. ASSUME NEW c \in Callers, NEW s, NEW r, Progress(c, s, r)
      PROVE  Creating'
  <2> SUFFICES ASSUME NEW e \in Callers, At1(e, {"mark", "put"})', Asked(e)'.kind = "create"
               PROVE  /\ record'[Project(e)'] = NoRecord
                      /\ \A d \in Callers : d # e /\ call'[d] # Idle /\ Project(d)' = Project(e)' => At1(d, {"read"})'
    BY DEF Creating
  <2>1. Project(e)' = Project(e) /\ Asked(e)' = Asked(e) /\ At1(e, {"mark", "put"}) /\ Asked(e).kind = "create"
    <3>1. CASE e # c
      BY <1>4, <3>1 DEF Progress, Advances, At1, Asked, Project
    <3>2. CASE e = c
      <4>1. s \in {"read", "mark"} /\ call[c] # Idle /\ StepOf(call[c]) = s /\ Asked(c).kind = "create"
        BY <1>4, <3>2, AtStep, StepsOf DEF Progress, Advances, At1, Asked, Leads
      <4> QED  BY <1>4, <3>2, <4>1, AtStep, StepsOf DEF Progress, Advances, At1, Asked, Project
    <3> QED  BY <3>1, <3>2
  <2>2. record[Project(e)] = NoRecord
    BY <2>1 DEF Creating
  <2>3. ASSUME NEW d \in Callers, d # e, call[d] # Idle, Project(d) = Project(e)
        PROVE  At1(d, {"read"})
    BY <2>1, <2>3 DEF Creating
  <2>4. record'[Project(e)] = NoRecord
    <3>1. CASE c = e
      <4>1. s # "put" \/ call'[c] = Idle
        BY <1>4, <3>1 DEF Progress, Advances, Leads, At1
      <4>2. s \in {"mark", "put"}
        BY <1>4, <2>1, <3>1 DEF Progress, Advances, At1
      <4> QED  BY <1>4, <2>2, <4>1, <4>2 DEF Progress
    <3>2. CASE c # e /\ Project(c) = Project(e)
      <4>1. s = "read"
        BY <1>4, <2>3, <3>2 DEF Progress, Advances, At1
      <4> QED  BY <1>4, <2>2, <4>1 DEF Progress
    <3>3. CASE Project(c) # Project(e)
      <4>1. record'[Project(e)] = record[Project(e)]
        BY <1>4, <2>1, <3>3, AtStep DEF Progress, TypeOK, RegistryTypeOK, At1
      <4> QED  BY <2>2, <4>1
    <3> QED  BY <3>1, <3>2, <3>3
  <2>5. ASSUME NEW d \in Callers, d # e, call'[d] # Idle, Project(d)' = Project(e)
        PROVE  At1(d, {"read"})'
    <3>1. CASE d # c
      BY <1>4, <2>3, <2>5, <3>1 DEF Progress, Advances, At1, Project
    <3>2. CASE d = c
      <4>1. Project(c) = Project(e) /\ call[c] # Idle
        BY <1>4, <2>5, <3>2 DEF Progress, Advances, Project
      <4>2. s = "read"
        BY <1>4, <2>3, <2>5, <3>2, <4>1 DEF Progress, Advances, At1
      <4> QED  BY <1>4, <2>2, <2>5, <3>2, <4>1, <4>2 DEF Progress
    <3> QED  BY <3>1, <3>2
  <2> QED  BY <2>1, <2>4, <2>5
<1> QED  BY <1>1, <1>2, <1>3, <1>4, Steps

\* A ghost counts every overlap.
LEMMA CountedStep ==
  ASSUME TypeOK, HasRead, Opening, Counted, [Next]_vars
  PROVE  Counted'
<1>1. CASE UNCHANGED vars
  BY <1>1 DEF vars, rvars, ghosts, Counted, Asked, Project
<1>2. CASE Restart
  BY <1>2 DEF Restart, Crash, Counted
<1>3. ASSUME NEW c \in Callers, Start(c)
      PROVE  Counted'
  <2>1. PICK q \in Requests, p \in Projects :
          LET k == [asked |-> q, id |-> p, at |-> 1, read |-> NoRecord]
          IN  /\ call[c] = Idle /\ call'[c] = k
              /\ \A d \in Callers : d # c => call'[d] = call[d]
              /\ raced' = IF Open(p) = {} THEN raced ELSE raced \cup {p}
              /\ mixed' = IF \E o \in Open(p) : Collide(q, Asked(o)) THEN mixed \cup {p} ELSE mixed
    BY <1>3, StartIs
  <2>2. raced \subseteq raced' /\ mixed \subseteq mixed'
    BY <2>1
  <2>3. ASSUME NEW d \in Callers, d # c, call[d] # Idle, Project(d) = p
        PROVE  p \in raced' /\ (p \notin mixed' => ~Collide(q, Asked(d)))
    <3>1. d \in Open(p)
      BY <2>3 DEF Open, Project
    <3> QED  BY <2>1, <3>1
  <2>4. \A x, y : Collide(x, y) <=> Collide(y, x)
    <3>1. \A x, y : Fields(x) \cup Fields(y) = Fields(y) \cup Fields(x)
      OBVIOUS
    <3> QED  BY <3>1 DEF Collide
  <2>5. ASSUME NEW d \in Callers, NEW e \in Callers, d # e, call'[d] # Idle, call'[e] # Idle, Project(d)' = Project(e)'
        PROVE  Project(d)' \in raced' /\ (Project(d)' \notin mixed' => ~Collide(Asked(d)', Asked(e)'))
    <3>1. CASE d # c /\ e # c
      BY <2>1, <2>2, <2>5, <3>1 DEF Counted, Asked, Project
    <3>2. CASE d = c
      BY <2>1, <2>3, <2>5, <3>2 DEF Asked, Project
    <3>3. CASE e = c
      BY <2>1, <2>3, <2>4, <2>5, <3>3 DEF Asked, Project
    <3> QED  BY <3>1, <3>2, <3>3
  <2> QED  BY <2>5 DEF Counted
<1>4. ASSUME NEW c \in Callers, NEW s, NEW r, Progress(c, s, r)
      PROVE  Counted'
  <2>1. \A d \in Callers : call'[d] # Idle => call[d] # Idle /\ Asked(d)' = Asked(d) /\ Project(d)' = Project(d)
    BY <1>4 DEF Progress, Advances, Asked, Project
  <2> QED  BY <1>4, <2>1 DEF Progress, Counted
<1> QED  BY <1>1, <1>2, <1>3, <1>4, Steps

----------------------------------------------------------------------------
(* The record. *)

\* A record has two fields.
LEMMA TwoFields == Cardinality({"name", "root"}) = 2
<1>1. IsFiniteSet({"name"}) /\ Cardinality({"name"}) = 1
  BY FS_Singleton
<1>2. {"name", "root"} = {"name"} \cup {"root"} /\ "root" \notin {"name"}
  OBVIOUS
<1> QED  BY <1>1, <1>2, FS_AddElement

\* The fields a request is about.
LEMMA FieldsOf ==
  ASSUME NEW q \in Requests
  PROVE  /\ Fields(q) \subseteq {"name", "root"}
         /\ q.kind = "remove" => Fields(q) = {"name", "root"}
         /\ q.kind = "change" => Fields(q) # {} /\ ("name" \in Fields(q) <=> q.name # Keep)
                                 /\ ("root" \in Fields(q) <=> q.root # Keep)
         /\ q.kind \notin {"remove", "change"} => Fields(q) = {}
<1>1. CASE q.kind = "change"
  BY <1>1, RequestShape DEF Fields
<1>2. CASE q.kind = "remove"
  BY <1>2 DEF Fields
<1>3. CASE q.kind \notin {"remove", "change"}
  BY <1>3 DEF Fields
<1> QED  BY <1>1, <1>2, <1>3

\* Two writers of a record that do not collide are changes of the same field.
LEMMA SameField ==
  ASSUME NEW q \in Requests, NEW r \in Requests,
         q.kind \in {"change", "remove"}, r.kind \in {"change", "remove"}, ~Collide(q, r)
  PROVE  \E f \in {"name", "root"} : Fields(q) = {f} /\ Fields(r) = {f}
<1> DEFINE F == Fields(q)
           G == Fields(r)
<1>1. F # {} /\ G # {} /\ F \subseteq {"name", "root"} /\ G \subseteq {"name", "root"}
  BY FieldsOf
<1>2. ~(Cardinality(F \cup G) > 1)
  BY <1>1 DEF Collide
<1> HIDE DEF F, G
<1>3. F \cup G # {"name", "root"}
  BY <1>2, TwoFields
<1>4. CASE "name" \notin F \cup G
  <2>1. F = {"root"} /\ G = {"root"}
    BY <1>1, <1>4
  <2> QED  BY <2>1 DEF F, G
<1>5. CASE "root" \notin F \cup G
  <2>1. F = {"name"} /\ G = {"name"}
    BY <1>1, <1>5
  <2> QED  BY <2>1 DEF F, G
<1> QED  BY <1>1, <1>3, <1>4, <1>5

\* A record read under no other writer of other fields is written back whole.
LEMMA AgreeingStep ==
  ASSUME TypeOK, HasRead, Opening, Creating, Counted, Agreeing, [Next]_vars
  PROVE  Agreeing'
<1>1. CASE UNCHANGED vars
  BY <1>1 DEF vars, rvars, disk, ghosts, Agreeing, WritesBack, Agrees, At1, Asked, Project
<1>2. CASE Restart
  BY <1>2 DEF Restart, Crash, Agreeing, WritesBack, At1
<1>3. ASSUME NEW c \in Callers, Start(c)
      PROVE  Agreeing'
  <2>1. PICK q \in Requests, p \in Projects :
          LET k == [asked |-> q, id |-> p, at |-> 1, read |-> NoRecord]
          IN  /\ call'[c] = k
              /\ \A d \in Callers : d # c => call'[d] = call[d]
              /\ StepOf(k) = IF q.kind = "create" THEN "mark" ELSE "read"
              /\ mixed' = IF \E o \in Open(p) : Collide(q, Asked(o)) THEN mixed \cup {p} ELSE mixed
    BY <1>3, StartIs
  <2>2. record' = record /\ mixed \subseteq mixed'
    BY <1>3, <2>1 DEF Start, disk
  <2>3. ~WritesBack(c)'
    BY <2>1 DEF WritesBack, At1, Asked
  <2> QED  BY <2>1, <2>2, <2>3 DEF Agreeing, WritesBack, Agrees, At1, Asked, Project
<1>4. ASSUME NEW c \in Callers, NEW s, NEW r, Progress(c, s, r)
      PROVE  Agreeing'
  <2> SUFFICES ASSUME NEW d \in Callers, WritesBack(d)', Project(d)' \notin mixed'
               PROVE  Agrees(d)'
    BY DEF Agreeing
  <2>1. /\ Advances(c, s, r) /\ mixed' = mixed /\ call[c] # Idle /\ StepOf(call[c]) = s
        /\ Asked(c) \in Requests /\ Project(c) \in Projects
    BY <1>4, AtStep DEF Progress, Advances
  <2>2. CASE d = c
    <3>1. call'[c] # Idle /\ Asked(c)' = Asked(c) /\ Project(c)' = Project(c) /\ call'[c].read = r
      BY <2>1, <2>2 DEF WritesBack, At1, Advances, Asked, Project
    <3>2. CASE s = "read"
      BY <1>4, <2>2, <3>1, <3>2 DEF Progress, Agrees
    <3>3. CASE s # "read"
      <4>1. s \in {"mark", "check", "clear"}
        BY <2>1, <2>2, <3>1, <3>3, AtStep, StepsOf DEF WritesBack, At1, Advances, Leads
      <4>2. WritesBack(c)
        <5>1. CASE s = "mark"
          <6>1. StepOf(call'[c]) \in {"putName", "putRoot", "check", "clear", "delete", "mark"}
            BY <2>2 DEF WritesBack, At1
          <6>2. StepOf(call'[c]) = IF Asked(c).kind = "create" THEN "put" ELSE "putRoot"
            BY <2>1, <3>1, <5>1 DEF Advances, Leads, Asked
          <6>3. Asked(c).kind = "change"
            BY <2>1, <5>1, <6>1, <6>2, AtStep, StepsOf
          <6> QED  BY <2>1, <5>1, <6>3 DEF WritesBack, At1
        <5> QED  BY <2>1, <4>1, <5>1 DEF WritesBack, At1
      <4>3. record' = record /\ r = call[c].read
        BY <1>4, <4>1 DEF Progress
      <4> QED  BY <2>1, <2>2, <3>1, <4>2, <4>3 DEF Agreeing, Agrees
    <3> QED  BY <3>2, <3>3
  <2>3. CASE d # c
    <3>1. call'[d] = call[d] /\ WritesBack(d) /\ Agrees(d) /\ Project(d) \notin mixed /\ call[d] # Idle
      BY <2>1, <2>3 DEF Advances, WritesBack, At1, Asked, Project, Agreeing
    <3>2. CASE record'[Project(d)] = record[Project(d)]
      BY <3>1, <3>2 DEF Agrees, Asked, Project
    <3>3. CASE record'[Project(d)] # record[Project(d)]
      <4>1. /\ s \in {"put", "putName", "putRoot", "delete"} /\ call'[c] # Idle /\ Project(d) = Project(c)
            /\ record'[Project(c)] = IF s = "delete" THEN NoRecord ELSE r
        BY <1>4, <2>1, <3>1, <3>3, AtStep DEF Progress, TypeOK, RegistryTypeOK
      <4>2. s # "put"
        <5>1. StepOf(call[d]) # "read"
          BY <3>1 DEF WritesBack, At1
        <5> QED  BY <2>1, <2>3, <3>1, <4>1, <5>1, AtStep, StepsOf DEF Creating, At1
      <4>3. /\ Asked(d) \in Requests /\ Asked(d).kind \in {"change", "remove"}
            /\ Asked(c).kind \in {"change", "remove"}
            /\ s = "delete" => Asked(c).kind = "remove"
        BY <2>1, <3>1, <4>1, <4>2, AtStep, StepsOf DEF WritesBack, At1
      <4>4. ~Collide(Asked(c), Asked(d))
        BY <2>1, <2>3, <3>1, <4>1 DEF Counted
      <4>5. PICK f \in {"name", "root"} : Fields(Asked(c)) = {f} /\ Fields(Asked(d)) = {f}
        BY <2>1, <4>3, <4>4, SameField
      <4>6. Asked(c).kind = "change" /\ s # "delete"
        BY <2>1, <4>3, <4>5, FieldsOf
      <4>7. Agrees(c)
        BY <2>1, <3>1, <4>1, <4>2 DEF Agreeing, WritesBack, At1
      <4>8. r = Written(c, s) /\ At(c, s)
        BY <1>4, <4>1, <4>6 DEF Progress
      <4>9. CASE s = "putName"
        <5>1. f = "name"
          BY <2>1, <4>5, <4>6, <4>9, AtStep, StepsOf, FieldsOf, RegistryAssumption
        <5>2. r \in Records /\ r.root = call[c].read.root
          BY <4>8, <4>9, WrittenIs
        <5>3. call[d].read.root = r.root
          BY <3>1, <4>1, <4>5, <4>7, <5>1, <5>2 DEF Agrees
        <5> QED  BY <3>1, <4>1, <4>5, <4>6, <5>1, <5>2, <5>3, RegistryAssumption DEF Agrees, Asked, Project
      <4>10. CASE s = "putRoot"
        <5>1. f = "root"
          BY <2>1, <4>5, <4>6, <4>10, AtStep, StepsOf, FieldsOf, RegistryAssumption
        <5>2. r \in Records /\ r.name = call[c].read.name
          BY <4>8, <4>10, WrittenIs
        <5>3. call[d].read.name = r.name
          BY <3>1, <4>1, <4>5, <4>7, <5>1, <5>2 DEF Agrees
        <5> QED  BY <3>1, <4>1, <4>5, <4>6, <5>1, <5>2, <5>3, RegistryAssumption DEF Agrees, Asked, Project
      <4> QED  BY <4>1, <4>2, <4>6, <4>9, <4>10
    <3> QED  BY <3>2, <3>3
  <2> QED  BY <2>2, <2>3
<1> QED  BY <1>1, <1>2, <1>3, <1>4, Steps

\* The record and what it ought to be change together.
LEMMA WantStep ==
  ASSUME [Next]_vars
  PROVE  \/ record' = record /\ want' = want /\ mixed \subseteq mixed'
         \/ \E c \in Callers : (Put(c) \/ DeleteRecord(c)) /\ mixed' = mixed
<1>1. ASSUME NEW c \in Callers, Start(c)
      PROVE  record' = record /\ want' = want /\ mixed \subseteq mixed'
  BY <1>1 DEF Start, disk
<1>2. ASSUME NEW c \in Callers, Registers(c), ~Start(c), ~Put(c), ~DeleteRecord(c)
      PROVE  record' = record /\ want' = want /\ mixed' = mixed
  BY <1>2 DEF Registers, RegistryStep, Read, Mark, Check, Clear, Announce, disk, ghosts
<1>3. ASSUME NEW c \in Callers, Put(c) \/ DeleteRecord(c)
      PROVE  mixed' = mixed
  BY <1>3 DEF Put, DeleteRecord
<1>4. ASSUME NEW c \in Callers, Write(c) \/ OpenTracker(c) \/ Author(c)
      PROVE  record' = record /\ want' = want /\ mixed' = mixed
  BY <1>4 DEF Write, OpenTracker, Author, ghosts
<1>5. CASE Restart \/ UNCHANGED vars
  BY <1>5 DEF Restart, Crash, vars, rvars, disk, ghosts
<1> QED  BY <1>1, <1>2, <1>3, <1>4, <1>5 DEF Next

\* The record is what the changes add up to.
LEMMA KeptStep ==
  ASSUME TypeOK, HasRead, Agreeing, Kept, [Next]_vars
  PROVE  Kept'
<1>1. CASE record' = record /\ want' = want /\ mixed \subseteq mixed'
  BY <1>1 DEF Kept
<1>2. ASSUME NEW c \in Callers, DeleteRecord(c), mixed' = mixed
      PROVE  Kept'
  BY <1>2, DeleteIs DEF Kept, TypeOK, RegistryTypeOK
<1>3. ASSUME NEW c \in Callers, Put(c), mixed' = mixed
      PROVE  Kept'
  <2>1. PICK step \in {"put", "putName", "putRoot"} :
           /\ At(c, step) /\ Project(c) \in Projects
           /\ \/ /\ record' = [record EXCEPT ![Project(c)] = Written(c, step)]
                 /\ want' = IF step # "put" /\ want[Project(c)] = NoRecord THEN want
                            ELSE [want EXCEPT ![Project(c)] = Intended(c, step)]
              \/ record' = record /\ want' = want
    BY <1>3, PutIs
  <2>2. CASE record' = record /\ want' = want
    BY <1>3, <2>2 DEF Kept
  <2>3. CASE record' # record \/ want' # want
    <3> SUFFICES ASSUME Project(c) \notin mixed
                 PROVE  record'[Project(c)] = want'[Project(c)]
      BY <1>3, <2>1, <2>3 DEF Kept, TypeOK, RegistryTypeOK
    <3>1. record'[Project(c)] = Written(c, step)
      BY <2>1, <2>3 DEF TypeOK, RegistryTypeOK
    <3>2. CASE step = "put"
      <4>1. want'[Project(c)] = Intended(c, step)
        BY <2>1, <2>3, <3>2 DEF TypeOK, RegistryTypeOK
      <4> QED  BY <2>1, <3>1, <3>2, <4>1, WrittenIs, IntendedIs
    <3>3. CASE step # "put"
      <4>1. call[c] # Idle /\ StepOf(call[c]) = step /\ Asked(c) \in Requests /\ Asked(c).kind = "change"
            /\ (step = "putName" => Asked(c).name \in Names) /\ (step = "putRoot" => Asked(c).root \in Roots)
        BY <2>1, <3>3, AtStep, StepsOf DEF At, StepOf, Asked
      <4>2. Agrees(c)
        BY <3>3, <4>1 DEF Agreeing, WritesBack, At1
      <4>3. record[Project(c)] = want[Project(c)] /\ want[Project(c)] # NoRecord
        BY <2>1, <4>2 DEF Kept, Agrees
      <4>4. want'[Project(c)] = Intended(c, step)
        BY <2>1, <2>3, <4>3 DEF TypeOK, RegistryTypeOK
      <4>5. CASE step = "putName"
        <5>1. "name" \in Fields(Asked(c))
          BY <4>1, <4>5, FieldsOf, RegistryAssumption
        <5>2. call[c].read.root = want[Project(c)].root
          BY <4>2, <4>3, <5>1 DEF Agrees
        <5> QED  BY <2>1, <3>1, <4>3, <4>4, <4>5, <5>2, WrittenIs, IntendedIs
      <4>6. CASE step = "putRoot"
        <5>1. "root" \in Fields(Asked(c))
          BY <4>1, <4>6, FieldsOf, RegistryAssumption
        <5>2. call[c].read.name = want[Project(c)].name
          BY <4>2, <4>3, <5>1 DEF Agrees
        <5> QED  BY <2>1, <3>1, <4>3, <4>4, <4>6, <5>2, WrittenIs, IntendedIs
      <4> QED  BY <2>1, <3>3, <4>5, <4>6
    <3> QED  BY <3>2, <3>3
  <2> QED  BY <2>2, <2>3
<1> QED  BY <1>1, <1>2, <1>3, WantStep

----------------------------------------------------------------------------
(* Claims. *)

\* Roots are claimed before they are named.
LEMMA ClaimedStep ==
  ASSUME TypeOK, HasRead, Opening, Claimed, [Next]_vars
  PROVE  Claimed'
<1>1. CASE UNCHANGED vars
  BY <1>1 DEF vars, rvars, disk, ghosts, svars, Claimed, At1, Asked, Project
<1>2. CASE Restart
  BY <1>2 DEF Restart, Crash, disk, Claimed, At1
<1>3. ASSUME NEW c \in Callers, Start(c), tracker' = tracker
      PROVE  Claimed'
  <2>1. PICK q \in Requests, p \in Projects :
          LET k == [asked |-> q, id |-> p, at |-> 1, read |-> NoRecord]
          IN  /\ call'[c] = k /\ \A d \in Callers : d # c => call'[d] = call[d]
              /\ StepOf(k) = IF q.kind = "create" THEN "mark" ELSE "read"
    BY <1>3, StartIs
  <2>2. record' = record /\ claims' = claims /\ tracker' = tracker
    BY <1>3 DEF Start, disk
  <2>3. call'[c].read = NoRecord /\ ~At1(c, {"put", "putRoot"})'
    BY <2>1 DEF At1
  <2>4. \A d \in Callers : d # c => call'[d] = call[d]
    BY <2>1
  <2> QED  BY <2>2, <2>3, <2>4 DEF Claimed, At1, Asked, Project
<1>4. \A p \in Projects : tracker'[p] # Closed => p \in claims'[tracker'[p].root]
  <2>1. \A x \in Roots : claims[x] \subseteq claims'[x]
    <3>1. CASE UNCHANGED vars \/ Restart \/ \E c \in Callers : Start(c)
      BY <3>1 DEF vars, rvars, ghosts, Restart, Crash, Start
    <3>2. CASE \E c \in Callers : \E s, r : Progress(c, s, r)
      BY <3>2 DEF Progress
    <3> QED  BY <3>1, <3>2, Steps
  <2>2. CASE tracker' = tracker
    BY <2>1, <2>2 DEF Claimed, TypeOK, Trackers
  <2>3. CASE Restart
    BY <2>3 DEF Restart
  <2>4. ASSUME NEW c \in Callers, OpenTracker(c)
        PROVE  \A p \in Projects : tracker'[p] # Closed => p \in claims'[tracker'[p].root]
    <3>1. call[c].read \in Records /\ call[c] # Idle /\ Project(c) \in Projects
      BY <2>4, OpenIs DEF Advances
    <3>2. Project(c) \in claims[call[c].read.root] /\ call[c].read.root \in Roots
      BY <3>1, RegistryAssumption DEF Claimed, Records
    <3>3. \A p \in Projects : tracker'[p] = tracker[p] \/ (p = Project(c) /\ tracker'[p].root = call[c].read.root)
      BY <2>4, OpenIs DEF TypeOK
    <3> QED  BY <2>1, <3>2, <3>3 DEF Claimed, TypeOK, Trackers
  <2>5. ASSUME NEW c \in Callers, Author(c)
        PROVE  \A p \in Projects : tracker'[p] # Closed => p \in claims'[tracker'[p].root]
    <3>1. \A p \in Projects : tracker'[p] = tracker[p] \/ (tracker[p] \in Trackers /\ tracker'[p].root = tracker[p].root)
      BY <2>5, AuthorIs DEF TypeOK, Trackers
    <3> QED  BY <2>1, <3>1, ScopesAssumption DEF Claimed, TypeOK, Trackers
  <2>6. \/ tracker' = tracker \/ Restart \/ \E c \in Callers : OpenTracker(c) \/ Author(c)
    BY DEF Next, Registers, Write, svars, vars
  <2> QED  BY <2>2, <2>3, <2>4, <2>5, <2>6
<1>5. ASSUME NEW c \in Callers, NEW s, NEW r, Progress(c, s, r)
      PROVE  Claimed'
  <2>1. /\ Advances(c, s, r) /\ call[c] # Idle /\ StepOf(call[c]) = s /\ Project(c) \in Projects
        /\ Asked(c) \in Requests /\ call[c].read \in Records \cup {NoRecord}
    BY <1>5, AtStep DEF Progress, Advances, Calls
  <2>2. \A x \in Roots : claims[x] \subseteq claims'[x]
    BY <1>5 DEF Progress
  <2>3. call'[c] # Idle /\ r # NoRecord => r \in Records /\ Project(c) \in claims[r.root]
    <3>1. CASE s = "read"
      BY <1>5, <2>1, <3>1 DEF Progress, Claimed, TypeOK, RegistryTypeOK
    <3>2. CASE s \in {"put", "putName", "putRoot"} /\ call'[c] # Idle
      <4>1. r = Written(c, s) /\ At(c, s) /\ r \in Records
        BY <1>5, <3>2, WrittenIs DEF Progress
      <4>2. CASE s = "putName"
        <5>1. call[c].read \in Records
          BY <2>1, <4>2 DEF HasRead, At1, AfterRead
        <5> QED  BY <2>1, <4>1, <4>2, <5>1, WrittenIs, RegistryAssumption DEF Claimed
      <4>3. CASE s \in {"put", "putRoot"}
        <5>1. Project(c) \in claims[Asked(c).root]
          BY <2>1, <4>3 DEF Claimed, At1
        <5> QED  BY <4>1, <4>3, <5>1, WrittenIs
      <4> QED  BY <3>2, <4>2, <4>3
    <3>3. CASE s \notin {"read", "put", "putName", "putRoot"}
      BY <1>5, <2>1, <3>3 DEF Progress, Claimed
    <3> QED  BY <3>1, <3>2, <3>3
  <2>4. \A p \in Projects : record'[p] # NoRecord => p \in claims'[record'[p].root]
    <3> SUFFICES ASSUME NEW p \in Projects, record'[p] # NoRecord
                 PROVE  p \in claims'[record'[p].root]
      OBVIOUS
    <3>1. CASE record'[p] = record[p]
      BY <2>2, <3>1 DEF Claimed, TypeOK, RegistryTypeOK, Records
    <3>2. CASE record'[p] # record[p]
      <4>1. p = Project(c) /\ record'[p] = r /\ call'[c] # Idle
        BY <1>5, <2>1, <3>2 DEF Progress, TypeOK, RegistryTypeOK
      <4> QED  BY <2>2, <2>3, <4>1 DEF Records
    <3> QED  BY <3>1, <3>2
  <2>5. \A d \in Callers : call'[d] # Idle /\ call'[d].read # NoRecord => Project(d)' \in claims'[call'[d].read.root]
    <3>1. \A d \in Callers : d # c /\ call'[d] # Idle /\ call'[d].read # NoRecord =>
            Project(d)' \in claims'[call'[d].read.root]
      <4>1. \A d \in Callers : call[d] # Idle /\ call[d].read # NoRecord => call[d].read.root \in Roots
        BY DEF TypeOK, RegistryTypeOK, Calls, Records
      <4> QED  BY <2>1, <2>2, <4>1 DEF Advances, Claimed, Project
    <3>2. call'[c] # Idle /\ call'[c].read # NoRecord => Project(c)' \in claims'[call'[c].read.root]
      BY <2>1, <2>2, <2>3 DEF Advances, Project, Records
    <3> QED  BY <3>1, <3>2
  <2>6. \A d \in Callers : At1(d, {"put", "putRoot"})' => Project(d)' \in claims'[Asked(d)'.root]
    <3>1. \A d \in Callers : d # c /\ At1(d, {"put", "putRoot"})' => Project(d)' \in claims'[Asked(d)'.root]
      <4>1. \A d \in Callers : At1(d, {"put", "putRoot"}) => Asked(d).root \in Roots
        <5> SUFFICES ASSUME NEW d \in Callers, At1(d, {"put", "putRoot"})  PROVE Asked(d).root \in Roots
          OBVIOUS
        <5> QED  BY AtStep, StepsOf DEF At1
      <4> QED  BY <2>1, <2>2, <4>1 DEF Advances, Claimed, At1, Asked, Project
    <3>2. At1(c, {"put", "putRoot"})' => Project(c)' \in claims'[Asked(c)'.root]
      <4>1. At1(c, {"put", "putRoot"})' => s = "mark"
        BY <2>1, AtStep, StepsOf DEF Advances, Leads, At1
      <4> QED  BY <1>5, <2>1, <4>1 DEF Progress, Advances, At1, Asked, Project
    <3> QED  BY <3>1, <3>2
  <2> QED  BY <1>4, <2>4, <2>5, <2>6 DEF Claimed
<1> QED  BY <1>1, <1>2, <1>3, <1>5, Steps

----------------------------------------------------------------------------
(* Directories. *)

\* What a step on the project q changes of directories, claims and failures
\* is at one root that q claims.
Own(q) ==
  \/ dir' = dir /\ claims' = claims /\ cut' = cut
  \/ \E r \in Roots :
       /\ OnlyAt(r) /\ q \in claims'[r]
       /\ \A x \in Roots : x # r => claims'[x] = claims[x] /\ (x \in cut' <=> x \in cut)

\* So it leaves alone a directory that only p claims.
LEMMA OwnIs ==
  ASSUME NEW q, NEW p, p # q, Own(q), NEW x \in Roots, claims'[x] \subseteq {p}
  PROVE  claims[x] \subseteq {p} /\ dir'[x] = dir[x] /\ (x \in cut' <=> x \in cut)
BY DEF Own, OnlyAt

\* Every step of a call is such a step.
LEMMA OwnStep ==
  ASSUME TypeOK, HasRead, Opening, Claimed, NEW c \in Callers, Registers(c) \/ Write(c) \/ OpenTracker(c) \/ Author(c)
  PROVE  Own(Project(c))
<1>0. ASSUME call[c] # Idle, call[c].read \in Records
      PROVE  Project(c) \in claims[call[c].read.root]
  BY <1>0, RegistryAssumption DEF Claimed
<1>1. CASE Start(c) \/ Read(c) \/ Put(c) \/ Check(c) \/ Announce(c)
  BY <1>1 DEF Start, Read, Put, Check, Announce, disk, ghosts, Own
<1>2. CASE Mark(c)
  <2>1. Project(c) \in claims'[Asked(c).root] /\ \A x \in Roots : x # Asked(c).root => claims'[x] = claims[x]
    BY <1>2, MarkIs DEF TypeOK, RegistryTypeOK
  <2>2. \A x \in Roots : x # Asked(c).root => (x \in cut' <=> x \in cut)
    BY <1>2, MarkIs
  <2> QED  BY <1>2, <2>1, <2>2, MarkIs DEF Own
<1>3. CASE Clear(c)
  <2>1. call[c].read \in Records /\ call[c] # Idle
    BY <1>3 DEF Clear, At, HasRead, At1, AfterRead, StepOf
  <2>2. claims' = claims /\ \A x \in Roots : x # call[c].read.root => (x \in cut' <=> x \in cut)
    BY <1>3, ClearIs DEF Clear
  <2> QED  BY <1>0, <1>3, <2>1, <2>2, ClearIs DEF Own
<1>4. CASE DeleteRecord(c)
  <2>1. call[c].read \in Records /\ call[c] # Idle /\ call[c].read.root \in Roots
    BY <1>4, DeleteIs DEF Advances, Records
  <2>2. claims' = claims /\ dir' = dir /\ \A x \in Roots : x # call[c].read.root => (x \in cut' <=> x \in cut)
    BY <1>4, DeleteIs DEF DeleteRecord
  <2>3. OnlyAt(call[c].read.root)
    BY <2>2 DEF OnlyAt, TypeOK, RegistryTypeOK
  <2> QED  BY <1>0, <2>1, <2>2, <2>3 DEF Own
<1>5. CASE Write(c)
  <2>1. claims' = claims /\ cut' = cut /\ call[c] # Idle
    BY <1>5 DEF Write, ghosts, At
  <2> QED  BY <1>0, <1>5, <2>1, WriteIs DEF Own, Stores
<1>6. CASE OpenTracker(c)
  <2>1. claims' = claims /\ cut' = cut /\ call[c] # Idle
    BY <1>6 DEF OpenTracker, ghosts, At
  <2> QED  BY <1>0, <1>6, <2>1, OpenIs DEF Own, Stores
<1>7. CASE Author(c)
  <2>1. claims' = claims /\ cut' = cut
    BY <1>7 DEF Author, ghosts
  <2>2. Project(c) \in claims[tracker[Project(c)].root]
    BY <1>7, AuthorIs DEF Claimed
  <2> QED  BY <1>7, <2>1, <2>2, AuthorIs DEF Own, Stores
<1> QED  BY <1>1, <1>2, <1>3, <1>4, <1>5, <1>6, <1>7 DEF Registers, RegistryStep

\* Nobody else has a call on a project that is not counted as overlapped.
LEMMA OnlyCall ==
  ASSUME Counted, NEW c \in Callers, call[c] # Idle, Project(c) \notin raced,
         NEW d \in Callers, d # c, call[d] # Idle
  PROVE  Project(d) # Project(c)
BY DEF Counted

BearsAfter(p, x) == claims'[x] \subseteq {p} /\ x \notin cut' => dir'[x] # NoDir /\ dir'[x].marker = p

\* The marks of one project after a step, when c has the only call on it.
LEMMA MarksAfter ==
  ASSUME NEW c \in Callers, NEW p,
         \A d \in Callers : d # c /\ call'[d] # Idle => call'[d].id # p,
         record'[p] # NoRecord /\ ~(call'[c] # Idle /\ call'[c].id = p /\ StepOf(call'[c]) = "delete") =>
           BearsAfter(p, record'[p].root),
         call'[c] # Idle /\ StepOf(call'[c]) \in {"put", "putRoot"} => BearsAfter(p, call'[c].asked.root),
         call'[c] # Idle /\ StepOf(call'[c]) = "delete" /\ claims'[call'[c].read.root] \subseteq {p} =>
           dir'[call'[c].read.root] = NoDir
  PROVE  MarksOf(p)'
<1>1. \A d \in Callers : d \in Open(p)' <=> d = c /\ call'[c] # Idle /\ call'[c].id = p
  BY DEF Open
<1>2. Deleting(p)' <=> (call'[c] # Idle /\ call'[c].id = p /\ StepOf(call'[c]) = "delete")
  BY <1>1 DEF Deleting, At1, Open
<1>3. (record[p] # NoRecord /\ ~Deleting(p) => Bears(p, record[p].root))'
  BY <1>2 DEF Bears, BearsAfter
<1>4. (\A d \in Open(p) : At1(d, {"put", "putRoot"}) => Bears(p, Asked(d).root))'
  BY <1>1 DEF Bears, BearsAfter, At1, Asked, Open
<1>5. (\A d \in Open(p) :
         At1(d, {"delete"}) /\ claims[call[d].read.root] \subseteq {p} => dir[call[d].read.root] = NoDir)'
  BY <1>1 DEF At1, Open
<1> QED  BY <1>3, <1>4, <1>5 DEF MarksOf

\* A step of a call leaves the other projects' directories alone.
LEMMA MarksOthers ==
  ASSUME TypeOK, HasRead, Claimed, Marks, NEW c \in Callers, NEW s, NEW r, Progress(c, s, r), Own(Project(c)),
         NEW p \in Projects \ raced, p # Project(c)
  PROVE  MarksOf(p)'
<1>1. /\ \A d \in Callers : call'[d] # Idle /\ call'[d].id = p => call[d] = call'[d]
      /\ \A d \in Callers : call[d] # Idle /\ call[d].id = p => call[d] = call'[d]
  BY DEF Progress, Advances, Project
<1>2. record'[p] = record[p]
  BY AtStep DEF Progress, Advances, TypeOK, RegistryTypeOK
<1>3. ASSUME NEW x \in Roots, Bears(p, x)  PROVE BearsAfter(p, x)
  BY <1>3, OwnIs DEF Bears, BearsAfter
<1>4. \A d \in Callers : d \in Open(p)' <=> d \in Open(p)
  BY <1>1 DEF Open
<1>5. (\E d \in Open(p) : At1(d, {"delete"}))' <=> \E d \in Open(p) : At1(d, {"delete"})
  BY <1>1, <1>4 DEF Open, At1
<1>6. (record[p] # NoRecord /\ ~Deleting(p) => Bears(p, record[p].root))'
  <2>1. record[p] # NoRecord => record[p].root \in Roots
    BY DEF TypeOK, RegistryTypeOK, Records
  <2>2. record[p] # NoRecord /\ ~Deleting(p) => Bears(p, record[p].root)
    BY DEF Marks, MarksOf
  <2>3. Deleting(p)' <=> Deleting(p)
    BY <1>5 DEF Deleting
  <2>4. record[p] # NoRecord /\ ~Deleting(p) => BearsAfter(p, record[p].root)
    BY <1>3, <2>1, <2>2
  <2> QED  BY <1>2, <2>3, <2>4 DEF Bears, BearsAfter
<1>7. (\A d \in Open(p) : At1(d, {"put", "putRoot"}) => Bears(p, Asked(d).root))'
  <2> SUFFICES ASSUME NEW d \in Callers, call'[d] # Idle, call'[d].id = p, StepOf(call'[d]) \in {"put", "putRoot"}
               PROVE  BearsAfter(p, call'[d].asked.root)
    BY DEF Bears, BearsAfter, Open, At1, Asked
  <2>1. call[d] = call'[d] /\ d \in Open(p)
    BY <1>1 DEF Open
  <2>2. Asked(d).root \in Roots /\ Bears(p, Asked(d).root)
    BY <2>1, AtStep, StepsOf DEF Marks, MarksOf, At1
  <2>3. BearsAfter(p, Asked(d).root)
    BY <1>3, <2>2
  <2> QED  BY <2>1, <2>3 DEF Asked
<1>8. (\A d \in Open(p) :
         At1(d, {"delete"}) /\ claims[call[d].read.root] \subseteq {p} => dir[call[d].read.root] = NoDir)'
  <2> SUFFICES ASSUME NEW d \in Callers, call'[d] # Idle, call'[d].id = p, StepOf(call'[d]) = "delete",
                      claims'[call'[d].read.root] \subseteq {p}
               PROVE  dir'[call'[d].read.root] = NoDir
    BY DEF Open, At1
  <2>1. call[d] = call'[d] /\ d \in Open(p) /\ At1(d, {"delete"})
    BY <1>1 DEF Open, At1
  <2>2. call[d].read.root \in Roots
    BY <2>1 DEF HasRead, At1, AfterRead, Records
  <2>3. claims[call[d].read.root] \subseteq {p} /\ dir'[call[d].read.root] = dir[call[d].read.root]
    BY <2>1, <2>2, OwnIs
  <2> QED  BY <2>1, <2>3 DEF Marks, MarksOf
<1> QED  BY <1>6, <1>7, <1>8 DEF MarksOf

\* Nor does a step of the project's only call break what is marked for it.
LEMMA MarksOwn ==
  ASSUME TypeOK, HasRead, Opening, Counted, Agreeing, Claimed, Marks, NEW c \in Callers,
         (Registers(c) /\ ~Start(c)) \/ Write(c) \/ OpenTracker(c) \/ Author(c),
         NEW p \in Projects \ raced, p = Project(c)
  PROVE  MarksOf(p)'
<1> DEFINE k == call[c]
<1>1. PICK s, r : Progress(c, s, r)
  BY CallStep
<1>2. /\ Advances(c, s, r) /\ k # Idle /\ StepOf(k) = s /\ p \in Projects /\ Asked(c) \in Requests /\ p \notin mixed
      /\ p = k.id
  BY <1>1, AtStep DEF Progress, Advances, Project, TypeOK, RegistryTypeOK
<1>3. \A d \in Callers : d # c /\ call'[d] # Idle => call'[d].id # p
  BY <1>2, OnlyCall DEF Advances, Project
<1>4. call'[c] # Idle => /\ call'[c].asked = Asked(c) /\ call'[c].id = p /\ call'[c].read = r
                         /\ Leads(Asked(c), s, StepOf(call'[c]))
  BY <1>2 DEF Advances, Asked
<1>5. record[p] # NoRecord /\ s # "delete" => Bears(p, record[p].root)
  <2>1. \A d \in Open(p) : d = c
    BY <1>2, OnlyCall DEF Open, Project
  <2>2. Deleting(p) => s = "delete"
    BY <1>2, <2>1 DEF Deleting, At1
  <2> QED  BY <1>2, <2>2 DEF Marks, MarksOf
<1>6. /\ s \in {"put", "putRoot"} => Bears(p, Asked(c).root)
      /\ s = "delete" /\ claims[k.read.root] \subseteq {p} => dir[k.read.root] = NoDir
  BY <1>2 DEF Marks, MarksOf, Open, At1, Project
<1>7. s \in {"putName", "putRoot", "check", "clear", "delete"} => Agrees(c)
  BY <1>2 DEF Agreeing, WritesBack, At1
<1>8. record[p] # NoRecord => record[p].root \in Roots /\ p \in claims[record[p].root]
  BY <1>2 DEF Claimed, TypeOK, RegistryTypeOK, Records
<1>9. s \notin {"put", "putName", "putRoot", "delete"} \/ call'[c] = Idle => record' = record
  BY <1>1 DEF Progress
<1> HIDE DEF k
<1>10. ASSUME dir' = dir, claims' = claims, cut' = cut, NEW x, Bears(p, x)  PROVE BearsAfter(p, x)
  BY <1>10 DEF Bears, BearsAfter
<1>11. CASE Read(c) \/ Check(c) \/ Announce(c)
  <2>1. dir' = dir /\ claims' = claims /\ cut' = cut /\ s \in {"read", "check", "announce"}
    BY <1>2, <1>11 DEF Read, Check, Announce, disk, ghosts, At, StepOf, k
  <2>2. call'[c] # Idle => StepOf(call'[c]) \notin {"put", "putRoot", "delete"}
    BY <1>4, <2>1 DEF Leads
  <2>3. record'[p] # NoRecord => BearsAfter(p, record'[p].root)
    BY <1>5, <1>9, <1>10, <2>1
  <2> QED  BY <1>3, <2>2, <2>3, MarksAfter
<1>12. CASE Mark(c)
  <2>1. s = "mark"
    BY <1>2, <1>12 DEF Mark, At, StepOf, k
  <2>2. call'[c] # Idle => StepOf(call'[c]) \in {"put", "putRoot"}
    BY <1>4, <2>1 DEF Leads
  <2> DEFINE q == Asked(c).root
  <2>3. /\ q \in Roots /\ OnlyAt(q) /\ p \in claims'[q]
        /\ \A x \in Roots : x # q => claims'[x] = claims[x]
        /\ p \in claims[q] => claims'[q] = claims[q]
        /\ \/ dir'[q] # NoDir /\ dir'[q].marker = p /\ cut' = cut \ {q}
           \/ cut' = cut \cup {q} /\ call'[c] = Idle
           \/ dir' = dir /\ cut' = cut /\ call'[c] = Idle
    <3>1. /\ q \in Roots /\ OnlyAt(q) /\ claims' = [claims EXCEPT ![q] = claims[q] \cup {p}]
          /\ \/ dir'[q] # NoDir /\ dir'[q].marker = p /\ cut' = cut \ {q}
             \/ cut' = cut \cup {q} /\ call'[c] = Idle
             \/ dir' = dir /\ cut' = cut /\ call'[c] = Idle
      BY <1>12, MarkIs
    <3> HIDE DEF q
    <3>2. claims'[q] = claims[q] \cup {p} /\ \A x \in Roots : x # q => claims'[x] = claims[x]
      BY <3>1 DEF TypeOK, RegistryTypeOK
    <3>3. p \in claims[q] => claims'[q] = claims[q]
      BY <3>2
    <3> QED  BY <3>1, <3>2, <3>3
  <2> HIDE DEF q
  <2>4. call'[c] # Idle => BearsAfter(p, q)
    BY <2>3 DEF BearsAfter
  <2>5. ASSUME NEW x \in Roots, p \in claims[x], Bears(p, x)  PROVE BearsAfter(p, x)
    <3>1. CASE x = q
      BY <2>3, <2>5, <3>1 DEF Bears, BearsAfter
    <3>2. CASE x # q
      BY <2>3, <2>5, <3>2 DEF Bears, BearsAfter, OnlyAt
    <3> QED  BY <3>1, <3>2
  <2>6. record'[p] # NoRecord => BearsAfter(p, record'[p].root)
    BY <1>5, <1>8, <1>9, <2>1, <2>5
  <2>7. call'[c] # Idle => call'[c].asked.root = q
    BY <1>4 DEF q
  <2> QED  BY <1>3, <2>2, <2>4, <2>6, <2>7, MarksAfter
<1>13. CASE Put(c)
  <2>1. dir' = dir /\ claims' = claims /\ cut' = cut /\ s \in {"put", "putName", "putRoot"}
    BY <1>2, <1>13 DEF Put, At, StepOf, k
  <2>2. call'[c] # Idle => StepOf(call'[c]) = "announce"
    BY <1>4, <2>1 DEF Leads
  <2>3. record'[p] # NoRecord => BearsAfter(p, record'[p].root)
    <3>1. CASE call'[c] = Idle
      BY <1>5, <1>9, <1>10, <2>1, <3>1
    <3>2. CASE call'[c] # Idle
      <4>1. record'[p] = r /\ r = Written(c, s) /\ At(c, s)
        BY <1>1, <1>2, <2>1, <3>2 DEF Progress, TypeOK, RegistryTypeOK
      <4>2. CASE s = "putName"
        <5>1. record[p] # NoRecord /\ k.read.root = record[p].root
          <6>1. Asked(c).kind = "change" /\ Asked(c).name \in Names
            BY <1>2, <4>2, AtStep, StepsOf DEF k
          <6>2. "name" \in Fields(Asked(c))
            BY <1>2, <6>1, FieldsOf, RegistryAssumption
          <6> QED  BY <1>7, <4>2, <6>2 DEF Agrees, k
        <5>2. r.root = record[p].root
          BY <4>1, <4>2, <5>1, WrittenIs DEF k
        <5> QED  BY <1>5, <1>10, <2>1, <4>1, <4>2, <5>1, <5>2
      <4>3. CASE s \in {"put", "putRoot"}
        <5>1. r.root = Asked(c).root
          BY <4>1, <4>3, WrittenIs
        <5> QED  BY <1>6, <1>10, <2>1, <4>1, <4>3, <5>1
      <4> QED  BY <2>1, <4>2, <4>3
    <3> QED  BY <3>1, <3>2
  <2> QED  BY <1>3, <2>2, <2>3, MarksAfter
<1>14. CASE Clear(c)
  <2> DEFINE q == k.read.root
  <2>1. s = "clear" /\ claims' = claims
    BY <1>2, <1>14 DEF Clear, At, StepOf, k
  <2>2. call'[c] # Idle => StepOf(call'[c]) = "delete" /\ call'[c].id = p /\ call'[c].read.root = q
    <3>1. r = k.read
      BY <1>1, <2>1 DEF Progress, k
    <3> QED  BY <1>4, <2>1, <3>1 DEF Leads
  <2>3. /\ q \in Roots /\ OnlyAt(q)
        /\ \/ dir'[q] = NoDir /\ cut' = cut /\ call'[c] # Idle
           \/ cut' = cut \cup {q} /\ call'[c] = Idle
    BY <1>14, ClearIs DEF k
  <2>4. call'[c] = Idle => (record'[p] # NoRecord => BearsAfter(p, record'[p].root))
    <3> HIDE DEF q
    <3>1. call'[c] = Idle => cut' = cut \cup {q}
      BY <2>3
    <3> QED  BY <1>5, <1>8, <1>9, <2>1, <2>3, <3>1 DEF Bears, BearsAfter, OnlyAt
  <2>5. call'[c] # Idle => dir'[q] = NoDir
    BY <2>3
  <2> QED  BY <1>3, <2>2, <2>4, <2>5, MarksAfter
<1>15. CASE DeleteRecord(c)
  <2>1. s = "delete" /\ claims' = claims /\ dir' = dir
    BY <1>2, <1>15 DEF DeleteRecord, At, StepOf, k
  <2>2. call'[c] # Idle => StepOf(call'[c]) = "announce"
    BY <1>4, <2>1 DEF Leads
  <2>3. \/ record'[p] = NoRecord
        \/ record' = record /\ cut' = cut \cup {k.read.root} /\ call'[c] = Idle
    BY <1>2, <1>15, DeleteIs DEF TypeOK, RegistryTypeOK, k
  <2>4. record[p] # NoRecord => k.read.root = record[p].root
    <3>1. Asked(c).kind = "remove" /\ Fields(Asked(c)) = {"name", "root"}
      BY <1>2, <1>15, DeleteIs, FieldsOf
    <3> QED  BY <1>7, <2>1, <3>1 DEF Agrees, k
  <2>5. record'[p] # NoRecord => BearsAfter(p, record'[p].root)
    BY <2>3, <2>4 DEF BearsAfter
  <2> QED  BY <1>3, <2>2, <2>5, MarksAfter
<1>16. CASE Write(c) \/ OpenTracker(c) \/ Author(c)
  <2>1. claims' = claims /\ cut' = cut /\ s \in {"write", "open", "author"}
    BY <1>2, <1>16 DEF Write, OpenTracker, Author, ghosts, At, StepOf, k
  <2>2. call'[c] # Idle => StepOf(call'[c]) = "author"
    BY <1>4, <2>1 DEF Leads
  <2>3. \A x \in Roots : dir[x] # NoDir => dir'[x] # NoDir /\ dir'[x].marker = dir[x].marker
    BY <1>16, WriteIs, OpenIs, AuthorIs DEF Stores, OnlyAt
  <2>4. record'[p] # NoRecord => BearsAfter(p, record'[p].root)
    BY <1>5, <1>8, <1>9, <2>1, <2>3 DEF Bears, BearsAfter
  <2> QED  BY <1>3, <2>2, <2>4, MarksAfter
<1> QED  BY <1>11, <1>12, <1>13, <1>14, <1>15, <1>16 DEF Registers, RegistryStep

\* A directory bears the mark of the project that has it to itself.
LEMMA MarksStep ==
  ASSUME TypeOK, HasRead, Opening, Counted, Agreeing, Claimed, Marks, [Next]_vars
  PROVE  Marks'
<1>1. CASE UNCHANGED vars
  BY <1>1 DEF vars, rvars, disk, ghosts, Marks, MarksOf, Deleting, Open, Bears, At1, Asked
<1>2. CASE Restart
  <2> SUFFICES ASSUME NEW p \in Projects \ raced
               PROVE  MarksOf(p)'
    BY <1>2 DEF Restart, Crash, Marks
  <2>1. /\ record' = record /\ dir' = dir /\ claims' = claims /\ \A c \in Callers : call'[c] = Idle
        /\ cut' = cut \cup {call[c].read.root : c \in {d \in Callers : At(d, "delete")}}
    BY <1>2 DEF Restart, Crash, disk
  <2>2. record[p] # NoRecord => BearsAfter(p, record[p].root)
    <3>1. CASE Deleting(p)
      <4>1. PICK c \in Callers : call[c] # Idle /\ Project(c) = p /\ StepOf(call[c]) = "delete"
        BY <3>1 DEF Deleting, Open, At1, Project
      <4>2. Asked(c) \in Requests /\ Asked(c).kind = "remove" /\ p \notin mixed
        BY <4>1, AtStep, StepsOf DEF TypeOK, RegistryTypeOK
      <4>3. call[c].read.root = record[p].root
        BY <4>1, <4>2, FieldsOf DEF Agreeing, Agrees, WritesBack, At1
      <4>4. At(c, "delete")
        BY <4>1 DEF At, StepOf
      <4> QED  BY <2>1, <4>3, <4>4 DEF BearsAfter
    <3>2. CASE ~Deleting(p)
      BY <2>1, <3>2 DEF Marks, MarksOf, Bears, BearsAfter
    <3> QED  BY <3>1, <3>2
  <2>3. Open(p)' = {}
    BY <2>1 DEF Open
  <2> QED  BY <2>1, <2>2, <2>3 DEF MarksOf, Bears, BearsAfter
<1>3. ASSUME NEW c \in Callers, Start(c)
      PROVE  Marks'
  <2>1. PICK q \in Requests, p \in Projects :
          LET k == [asked |-> q, id |-> p, at |-> 1, read |-> NoRecord]
          IN  /\ call[c] = Idle /\ call'[c] = k /\ \A d \in Callers : d # c => call'[d] = call[d]
              /\ StepOf(k) = IF q.kind = "create" THEN "mark" ELSE "read"
              /\ raced' = IF Open(p) = {} THEN raced ELSE raced \cup {p}
    BY <1>3, StartIs
  <2>2. record' = record /\ dir' = dir /\ claims' = claims /\ cut' = cut /\ raced \subseteq raced'
    BY <1>3, <2>1 DEF Start, disk
  <2>3. call[c] = Idle /\ StepOf(call'[c]) \in {"mark", "read"} /\ \A d \in Callers : d # c => call'[d] = call[d]
    BY <2>1
  <2> SUFFICES ASSUME NEW x \in Projects \ raced
               PROVE  MarksOf(x)'
    BY <2>2 DEF Marks
  <2>4. MarksOf(x)
    BY DEF Marks
  <2>5. Deleting(x)' <=> Deleting(x)
    BY <2>3 DEF Deleting, Open, At1
  <2> QED  BY <2>2, <2>3, <2>4, <2>5 DEF MarksOf, Open, At1, Bears, Asked
<1>4. ASSUME NEW c \in Callers, (Registers(c) /\ ~Start(c)) \/ Write(c) \/ OpenTracker(c) \/ Author(c)
      PROVE  Marks'
  <2>1. PICK s, r : Progress(c, s, r)
    BY <1>4, CallStep
  <2>2. raced' = raced
    BY <2>1 DEF Progress
  <2>3. Own(Project(c))
    BY <1>4, OwnStep
  <2> QED  BY <1>4, <2>1, <2>2, <2>3, MarksOthers, MarksOwn DEF Marks
<1> QED  BY <1>1, <1>2, <1>3, <1>4 DEF Next, Registers

----------------------------------------------------------------------------
(* News. *)

\* What was announced is the record, or an announcement is under way.
LEMMA NewsStep ==
  ASSUME TypeOK, HasRead, Opening, Counted, News, [Next]_vars
  PROVE  News'
<1>1. CASE UNCHANGED vars
  BY <1>1 DEF vars, rvars, disk, ghosts, News, Announcing, Open, At1, Asked, Project
<1>2. CASE Restart
  <2>1. /\ record' = record /\ heard' = heard /\ raced' = raced /\ \A c \in Callers : call'[c] = Idle
        /\ lost' = lost \cup {Project(c) : c \in {d \in Callers : At(d, "announce")}}
    BY <1>2 DEF Restart, Crash, disk
  <2>2. ASSUME NEW p \in Projects, Announcing(p)
        PROVE  p \in lost'
    <3>1. PICK c \in Callers : call[c] # Idle /\ Project(c) = p /\ StepOf(call[c]) = "announce"
      BY <2>2 DEF Announcing, Open, At1, Project
    <3>2. At(c, "announce")
      BY <3>1 DEF At, StepOf
    <3> QED  BY <2>1, <3>1, <3>2
  <2>3. lost \subseteq lost'
    BY <2>1
  <2> QED  BY <2>1, <2>2, <2>3 DEF News, At1
<1>3. ASSUME NEW c \in Callers, Start(c)
      PROVE  News'
  <2>1. PICK q \in Requests, p \in Projects :
          LET k == [asked |-> q, id |-> p, at |-> 1, read |-> NoRecord]
          IN  /\ call[c] = Idle /\ call'[c] = k /\ \A d \in Callers : d # c => call'[d] = call[d]
              /\ StepOf(k) = IF q.kind = "create" THEN "mark" ELSE "read"
              /\ raced' = IF Open(p) = {} THEN raced ELSE raced \cup {p}
    BY <1>3, StartIs
  <2>2. record' = record /\ heard' = heard /\ lost' = lost /\ raced \subseteq raced'
    BY <1>3, <2>1 DEF Start, disk
  <2>3. call[c] = Idle /\ StepOf(call'[c]) \in {"mark", "read"} /\ \A d \in Callers : d # c => call'[d] = call[d]
    BY <2>1
  <2>4. \A x \in Projects : Announcing(x)' <=> Announcing(x)
    BY <2>3 DEF Announcing, Open, At1
  <2>5. \A d \in Callers : At1(d, {"announce"})' => d # c /\ At1(d, {"announce"})
    BY <2>3 DEF At1
  <2> QED  BY <2>2, <2>3, <2>4, <2>5 DEF News, Asked, Project
<1>4. ASSUME NEW c \in Callers, NEW s, NEW r, Progress(c, s, r)
      PROVE  News'
  <2>1. /\ Advances(c, s, r) /\ call[c] # Idle /\ StepOf(call[c]) = s /\ raced' = raced
        /\ Project(c) \in Projects /\ Asked(c) \in Requests
    BY <1>4, AtStep DEF Progress, Advances
  <2>2. \A x \in Projects : x # Project(c) =>
          record'[x] = record[x] /\ heard'[x] = heard[x] /\ (x \in lost' <=> x \in lost)
    BY <1>4, <2>1 DEF Progress, TypeOK, RegistryTypeOK
  <2>3. \A d \in Callers : d # c => call'[d] = call[d]
    BY <2>1 DEF Advances
  <2>4. call'[c] # Idle => /\ Asked(c)' = Asked(c) /\ Project(c)' = Project(c) /\ call'[c].read = r
                           /\ Leads(Asked(c), s, StepOf(call'[c]))
    BY <2>1 DEF Advances, Asked, Project
  <2>5. ASSUME NEW p \in Projects \ raced, p = Project(c)
        PROVE  /\ At1(c, {"announce"})' => record'[p] = IF Asked(c)'.kind = "remove" THEN NoRecord ELSE call'[c].read
               /\ p \notin lost' /\ ~At1(c, {"announce"})' => heard'[p] = record'[p]
    <3>1. Announcing(p) <=> s = "announce"
      BY <2>1, <2>5, OnlyCall DEF Announcing, Open, At1, Project
    <3>2. CASE s = "announce"
      <4>1. record' = record /\ (call'[c] # Idle => StepOf(call'[c]) = "read")
        BY <1>4, <2>4, <3>2 DEF Progress, Leads
      <4>2. record[p] = IF Asked(c).kind = "remove" THEN NoRecord ELSE call[c].read
        BY <2>1, <2>5, <3>2 DEF News, At1
      <4>3. p \notin lost' => heard'[p] = IF Asked(c).kind = "remove" THEN NoRecord ELSE call[c].read
        BY <1>4, <2>5, <3>2 DEF Progress, TypeOK, RegistryTypeOK
      <4> QED  BY <4>1, <4>2, <4>3 DEF At1
    <3>3. CASE s # "announce"
      <4>1. heard' = heard /\ lost' = lost
        BY <1>4, <3>3 DEF Progress
      <4>2. p \notin lost => heard[p] = record[p]
        BY <2>5, <3>1, <3>3 DEF News
      <4>3. CASE s \in {"put", "putName", "putRoot"} /\ call'[c] # Idle
        <5>1. StepOf(call'[c]) = "announce" /\ record'[p] = r /\ Asked(c).kind # "remove"
          BY <1>4, <2>1, <2>4, <2>5, <4>3, AtStep, StepsOf DEF Leads, Progress, TypeOK, RegistryTypeOK
        <5> QED  BY <2>4, <4>3, <5>1 DEF At1
      <4>4. CASE s = "delete" /\ call'[c] # Idle
        <5>1. StepOf(call'[c]) = "announce" /\ record'[p] = NoRecord /\ Asked(c).kind = "remove"
          BY <1>4, <2>1, <2>4, <2>5, <4>4, AtStep, StepsOf DEF Leads, Progress, TypeOK, RegistryTypeOK
        <5> QED  BY <2>4, <4>4, <5>1 DEF At1
      <4>5. CASE s \notin {"put", "putName", "putRoot", "delete"} \/ call'[c] = Idle
        <5>1. record' = record
          BY <1>4, <4>5 DEF Progress
        <5>2. ~At1(c, {"announce"})'
          BY <2>1, <2>4, <3>3, <4>5, AtStep, StepsOf DEF At1, Leads
        <5> QED  BY <4>1, <4>2, <5>1, <5>2
      <4> QED  BY <4>3, <4>4, <4>5
    <3> QED  BY <3>2, <3>3
  <2>6. ASSUME NEW d \in Callers, At1(d, {"announce"})', Project(d)' \notin raced'
        PROVE  record'[Project(d)'] = IF Asked(d)'.kind = "remove" THEN NoRecord ELSE call'[d].read
    <3>1. CASE d = c
      <4>1. Project(c)' = Project(c) /\ Project(c) \in Projects \ raced
        BY <2>1, <2>4, <2>6, <3>1 DEF At1
      <4> QED  BY <2>5, <2>6, <3>1, <4>1
    <3>2. CASE d # c
      <4>1. call'[d] = call[d] /\ call[d] # Idle /\ At1(d, {"announce"}) /\ Project(d) \notin raced /\ Project(d) \in Projects
        BY <2>1, <2>3, <2>6, <3>2, AtStep DEF At1, Project
      <4>2. Project(d) # Project(c)
        BY <2>1, <3>2, <4>1 DEF Counted
      <4> QED  BY <2>2, <4>1, <4>2 DEF News, Asked, Project
    <3> QED  BY <3>1, <3>2
  <2>7. ASSUME NEW p \in Projects, p \notin raced', p \notin lost', ~Announcing(p)'
        PROVE  heard'[p] = record'[p]
    <3>1. CASE p = Project(c)
      <4>1. ~At1(c, {"announce"})'
        BY <2>4, <2>7, <3>1 DEF Announcing, Open, At1, Project
      <4> QED  BY <2>1, <2>5, <2>7, <3>1, <4>1
    <3>2. CASE p # Project(c)
      <4>1. ~Announcing(p)
        BY <2>1, <2>3, <2>7, <3>2 DEF Announcing, Open, At1, Project
      <4> QED  BY <2>1, <2>2, <2>7, <3>2, <4>1 DEF News
    <3> QED  BY <3>1, <3>2
  <2> QED  BY <2>6, <2>7 DEF News
<1> QED  BY <1>1, <1>2, <1>3, <1>4, Steps

----------------------------------------------------------------------------
(* Trackers. *)

\* What a step does to trackers and to the projects moved under them.
LEMMA MovedStep ==
  ASSUME [Next]_vars
  PROVE  \/ Restart
         \/ UNCHANGED vars
         \/ \E c \in Callers : Registers(c)
         \/ record' = record /\ moved' = moved /\ \E c \in Callers : Write(c) \/ OpenTracker(c) \/ Author(c)
BY DEF Next, Write, OpenTracker, Author, svars

\* Where the record's root changes under a tracker in use, it is counted.
LEMMA RootStays ==
  ASSUME NEW c \in Callers, Registers(c), NEW p \in Projects, p \notin moved', InUse(p)
  PROVE  p \notin moved /\ RootOf(p)' = RootOf(p) /\ ~(At(c, "clear") /\ p = Project(c))
BY DEF Registers, Moves

\* A tracker is opened at the root of the record, and is open when it is used.
LEMMA OpeningStep ==
  ASSUME TypeOK, HasRead, Opening, [Next]_vars
  PROVE  Opening'
<1>1. CASE UNCHANGED vars
  BY <1>1 DEF vars, rvars, disk, svars, Opening, At1, Project, RootOf
<1>2. CASE Restart
  BY <1>2 DEF Restart, Crash, Opening, At1
<1>3. ASSUME NEW p \in Projects, p \notin moved', InUse(p), ~Restart
      PROVE  p \notin moved /\ RootOf(p)' = RootOf(p)
  <2>1. CASE \E c \in Callers : Registers(c)
    BY <1>3, <2>1, RootStays
  <2>2. CASE record' = record /\ moved' = moved
    BY <1>3, <2>2 DEF RootOf
  <2> QED  BY <1>3, <2>1, <2>2, MovedStep DEF vars, rvars, disk, svars
<1>4. ASSUME NEW p \in Projects, tracker[p] # Closed, ~Restart
      PROVE  tracker'[p] # Closed
  <2>1. CASE tracker' = tracker
    BY <1>4, <2>1
  <2>2. ASSUME NEW c \in Callers, OpenTracker(c)
        PROVE  tracker'[p] # Closed
    BY <1>4, <2>2, OpenIs, ScopesAssumption DEF TypeOK, Trackers
  <2>3. ASSUME NEW c \in Callers, Author(c)
        PROVE  tracker'[p] # Closed
    <3>1. tracker'[p] = tracker[p] \/ tracker'[p] \in Trackers
      BY <2>3, AuthorIs DEF TypeOK, Trackers
    <3> QED  BY <1>4, <3>1, ScopesAssumption
  <2> QED  BY <1>4, <2>1, <2>2, <2>3 DEF Next, Registers, Write, svars, vars
<1>5. ASSUME NEW c \in Callers, Start(c), ~Restart
      PROVE  Opening'
  <2>1. StepOf(call'[c]) \in {"mark", "read"} /\ \A d \in Callers : d # c => call'[d] = call[d]
    BY <1>5, StartIs
  <2> SUFFICES ASSUME NEW d \in Callers, d # c, call[d] # Idle, call'[d] = call[d], NEW p, p = Project(d)
               PROVE  /\ StepOf(call[d]) = "open" /\ p \notin moved' => RootOf(p)' = call[d].read.root
                      /\ StepOf(call[d]) = "author" => tracker'[p] # Closed
    BY <2>1 DEF Opening, At1, Project, RootOf
  <2>2. p \in Projects /\ (StepOf(call[d]) = "open" => InUse(p))
    BY AtStep, StepsOf DEF InUse, Open, Project
  <2> QED  BY <1>3, <1>4, <1>5, <2>2 DEF Opening, At1
<1>6. ASSUME NEW c \in Callers, (Registers(c) /\ ~Start(c)) \/ Write(c) \/ OpenTracker(c) \/ Author(c), ~Restart
      PROVE  Opening'
  <2>1. PICK s, r : Progress(c, s, r)
    BY <1>6, CallStep
  <2>2. /\ Advances(c, s, r) /\ call[c] # Idle /\ StepOf(call[c]) = s /\ Project(c) \in Projects /\ Asked(c) \in Requests
    BY <2>1, AtStep DEF Progress, Advances
  <2> SUFFICES ASSUME NEW d \in Callers, call'[d] # Idle, NEW p, p = call'[d].id
               PROVE  /\ StepOf(call'[d]) = "open" /\ p \notin moved' => RootOf(p)' = call'[d].read.root
                      /\ StepOf(call'[d]) = "author" => tracker'[p] # Closed
    BY DEF Opening, At1, Project, RootOf
  <2>3. CASE d # c
    <3>1. call'[d] = call[d] /\ call[d] # Idle /\ p = Project(d)
      BY <2>2, <2>3 DEF Advances, Project
    <3>2. p \in Projects /\ (StepOf(call[d]) = "open" => InUse(p))
      BY <3>1, AtStep, StepsOf DEF InUse, Open, Project
    <3> QED  BY <1>3, <1>4, <1>6, <3>1, <3>2 DEF Opening, At1
  <2>4. CASE d = c
    <3>1. p = Project(c) /\ call'[c].read = r /\ Leads(Asked(c), s, StepOf(call'[c]))
      BY <2>2, <2>4 DEF Advances, Project, Asked
    <3>2. StepOf(call'[c]) = "open" => s = "read"
      BY <2>2, <3>1, AtStep, StepsOf DEF Leads
    <3>3. StepOf(call'[c]) = "author" => s = "open"
      BY <2>2, <3>1, AtStep, StepsOf DEF Leads
    <3>4. s = "read" => record' = record /\ r = record[p] /\ r # NoRecord
      BY <2>1, <2>4, <3>1 DEF Progress
    <3>5. s = "open" => tracker'[p] # Closed
      <4>1. s = "open" => OpenTracker(c)
        BY <1>6, <2>2 DEF Registers, RegistryStep, Start, Read, Mark, Put, Check, Clear, DeleteRecord, Announce,
             Write, Author, At, StepOf
      <4>2. OpenTracker(c) => tracker'[p] # Closed
        BY <2>4, <3>1, OpenIs, ScopesAssumption DEF TypeOK, Trackers
      <4> QED  BY <4>1, <4>2
    <3> QED  BY <2>4, <3>1, <3>2, <3>3, <3>4, <3>5 DEF RootOf
  <2> QED  BY <2>3, <2>4
<1> QED  BY <1>1, <1>2, <1>5, <1>6 DEF Next, Registers

\* Claims are never given up.
LEMMA ClaimsGrow ==
  ASSUME TypeOK, HasRead, Opening, [Next]_vars, NEW x \in Roots
  PROVE  claims[x] \subseteq claims'[x]
<1>1. CASE UNCHANGED vars \/ Restart \/ \E c \in Callers : Start(c)
  BY <1>1 DEF vars, rvars, ghosts, Restart, Crash, Start
<1>2. CASE \E c \in Callers : \E s, r : Progress(c, s, r)
  BY <1>2 DEF Progress
<1> QED  BY <1>1, <1>2, Steps

\* An open tracker stays the directory that the record names.
LEMMA RestartableStep ==
  ASSUME TypeOK, HasRead, Claimed, Opening, Restartable, [Next]_vars
  PROVE  Restartable'
<1>1. CASE UNCHANGED vars
  BY <1>1 DEF vars, rvars, disk, ghosts, svars, Restartable, Alone, TypesAt
<1>2. CASE Restart
  BY <1>2 DEF Restart, Restartable
<1>3. ASSUME ~UNCHANGED vars, ~Restart
      PROVE  Restartable'
  <2> SUFFICES ASSUME NEW p \in Projects, p \notin moved', tracker'[p] # Closed, record'[p] # NoRecord,
                      NEW x, x = record'[p].root, claims'[x] \subseteq {p}
               PROVE  tracker'[p] = [root |-> x, types |-> TypesAfter(x)]
    BY DEF Restartable, Alone, TypesAt, TypesAfter
  <2>1. ASSUME record[p] # NoRecord, record[p].root = x, p \notin moved, tracker[p] # Closed
        PROVE  x \in Roots /\ tracker[p] = [root |-> x, types |-> TypesAt(x)]
    <3>1. x \in Roots
      BY <2>1 DEF TypeOK, RegistryTypeOK, Records
    <3>2. claims[x] \subseteq {p}
      BY <3>1, ClaimsGrow
    <3> QED  BY <2>1, <3>1, <3>2 DEF Restartable, Alone
  <2>2. ASSUME NEW c \in Callers, Registers(c)
        PROVE  tracker'[p] = [root |-> x, types |-> TypesAfter(x)]
    <3>1. tracker' = tracker /\ InUse(p)
      BY <2>2 DEF Registers, InUse
    <3>2. p \notin moved /\ RootOf(p)' = RootOf(p) /\ ~(At(c, "clear") /\ p = Project(c))
      BY <2>2, <3>1, RootStays
    <3>3. x \in Roots
      BY TypeStep DEF TypeOK, RegistryTypeOK, Records
    <3>4. record[p] # NoRecord /\ record[p].root = x
      BY <3>2, <3>3, RegistryAssumption DEF RootOf
    <3>5. TypesAfter(x) = TypesAt(x)
      <4>1. CASE Start(c) \/ Read(c) \/ Put(c) \/ Check(c) \/ DeleteRecord(c) \/ Announce(c)
        BY <4>1 DEF Start, Read, Put, Check, DeleteRecord, Announce, disk, TypesAt, TypesAfter
      <4>2. CASE Mark(c)
        <5>1. TypesAfter(Asked(c).root) = TypesAt(Asked(c).root) /\ OnlyAt(Asked(c).root)
          BY <4>2, MarkIs
        <5> QED  BY <3>3, <5>1 DEF OnlyAt, TypesAt, TypesAfter
      <4>3. CASE Clear(c)
        <5>1. p # Project(c) /\ Own(Project(c))
          BY <2>2, <3>2, <4>3, OwnStep DEF Clear
        <5> QED  BY <3>3, <5>1, OwnIs DEF TypesAt, TypesAfter
      <4> QED  BY <2>2, <4>1, <4>2, <4>3 DEF Registers, RegistryStep
    <3> QED  BY <2>1, <3>1, <3>2, <3>4, <3>5
  <2>3. ASSUME NEW c \in Callers, Write(c)
        PROVE  tracker'[p] = [root |-> x, types |-> TypesAfter(x)]
    <3>1. tracker' = tracker /\ record' = record /\ moved' = moved
      BY <2>3 DEF Write, svars
    <3>2. x \in Roots /\ tracker[p] = [root |-> x, types |-> TypesAt(x)]
      BY <2>1, <3>1
    <3>3. TypesAfter(call[c].read.root) = TypesAt(call[c].read.root) /\ OnlyAt(call[c].read.root)
      BY <2>3, WriteIs DEF Stores
    <3>4. TypesAfter(x) = TypesAt(x)
      BY <3>2, <3>3 DEF OnlyAt, TypesAt, TypesAfter
    <3> QED  BY <3>1, <3>2, <3>4
  <2>4. ASSUME NEW c \in Callers, OpenTracker(c)
        PROVE  tracker'[p] = [root |-> x, types |-> TypesAfter(x)]
    <3>1. record' = record /\ moved' = moved /\ x \in Roots
      BY <2>4 DEF OpenTracker, TypeOK, RegistryTypeOK, Records
    <3>2. CASE p # Project(c) \/ (dir' = dir /\ tracker' = tracker)
      <4>1. tracker'[p] = tracker[p]
        BY <2>4, <3>2, OpenIs DEF TypeOK
      <4>2. dir'[x] = dir[x]
        BY <2>4, <3>1, <3>2, OwnStep, OwnIs
      <4> QED  BY <2>1, <3>1, <4>1, <4>2 DEF TypesAt, TypesAfter
    <3>3. CASE p = Project(c) /\ ~(dir' = dir /\ tracker' = tracker)
      <4>1. PICK ts \in SUBSET Types :
              Stores(call[c].read.root, ts) /\ tracker' = [tracker EXCEPT ![p] = [root |-> call[c].read.root, types |-> ts]]
        BY <2>4, <3>3, OpenIs
      <4>2. RootOf(p) = call[c].read.root
        BY <2>4, <3>1, <3>3 DEF OpenTracker, At, Opening, At1, StepOf
      <4>3. x = call[c].read.root
        BY <3>1, <4>2 DEF RootOf
      <4>4. tracker'[p] = [root |-> x, types |-> ts] /\ TypesAfter(x) = ts
        BY <4>1, <4>3 DEF TypeOK, Stores
      <4> QED  BY <4>4
    <3> QED  BY <3>2, <3>3
  <2>5. ASSUME NEW c \in Callers, Author(c)
        PROVE  tracker'[p] = [root |-> x, types |-> TypesAfter(x)]
    <3>1. record' = record /\ moved' = moved /\ x \in Roots
      BY <2>5 DEF Author, TypeOK, RegistryTypeOK, Records
    <3>2. CASE p # Project(c)
      <4>1. tracker'[p] = tracker[p]
        BY <2>5, <3>2, AuthorIs DEF TypeOK
      <4>2. dir'[x] = dir[x]
        BY <2>5, <3>1, <3>2, OwnStep, OwnIs
      <4> QED  BY <2>1, <3>1, <4>1, <4>2 DEF TypesAt, TypesAfter
    <3>3. CASE p = Project(c)
      <4>1. tracker[p] = [root |-> x, types |-> TypesAt(x)]
        BY <2>1, <2>5, <3>1, <3>3, AuthorIs
      <4>2. PICK ts \in SUBSET Types, us \in SUBSET Types :
              /\ tracker' = [tracker EXCEPT ![p].types = ts] /\ Stores(tracker[p].root, us)
              /\ TypesAt(tracker[p].root) = tracker[p].types => us = ts
        BY <2>5, <3>3, AuthorIs
      <4>3. tracker[p].root = x /\ tracker[p].types = TypesAt(x)
        BY <4>1
      <4>4. us = ts /\ TypesAfter(x) = ts
        BY <4>2, <4>3 DEF Stores
      <4>5. tracker'[p] = [tracker[p] EXCEPT !.types = ts]
        BY <4>2 DEF TypeOK
      <4>6. tracker'[p] = [root |-> x, types |-> ts]
        BY <4>1, <4>5
      <4> QED  BY <4>4, <4>6
    <3> QED  BY <3>2, <3>3
  <2> QED  BY <1>3, <2>2, <2>3, <2>4, <2>5 DEF Next
<1> QED  BY <1>1, <1>2, <1>3

----------------------------------------------------------------------------
(* The theorems. *)

\* The invariant holds at the start.
LEMMA InvInit == Init => Inv
<1> SUFFICES ASSUME Init  PROVE Inv
  OBVIOUS
<1> USE DEF Init, RegistryInit
<1>1. TypeOK
  <2>1. Bare \in Dirs
    BY DEF Bare, Dirs
  <2> QED  BY <2>1 DEF TypeOK, RegistryTypeOK
<1>2. HasRead /\ Minted /\ Creating /\ Counted /\ Agreeing /\ Kept
  BY DEF HasRead, Minted, Creating, Counted, Agreeing, WritesBack, At1, Kept
<1>3. Claimed /\ News /\ Opening /\ Restartable
  BY DEF Claimed, News, Opening, Restartable, At1
<1>4. Marks
  BY DEF Marks, MarksOf, Open
<1> QED  BY <1>1, <1>2, <1>3, <1>4 DEF Inv

\* Every step keeps it.
LEMMA InvNext == Inv /\ [Next]_vars => Inv'
BY TypeStep, HasReadStep, MintedStep, CreatingStep, CountedStep, AgreeingStep, KeptStep, ClaimedStep, MarksStep,
   NewsStep, OpeningStep, RestartableStep DEF Inv

\* It holds in every behaviour.
LEMMA InvHolds == Spec => []Inv
<1>1. Init => Inv
  BY InvInit
<1>2. Inv /\ [Next]_vars => Inv'
  BY InvNext
<1> QED  BY <1>1, <1>2, PTL DEF Spec

\* The variables have their types, whatever interleaves, fails or restarts.
THEOREM TypeCorrect == Spec => []TypeOK
<1>1. Inv => TypeOK
  BY DEF Inv
<1> QED  BY <1>1, InvHolds, PTL

\* Nothing acknowledged is undone: the record is what the changes made to it
\* add up to, unless two calls that write different fields of it overlapped
\* (mutate.go reads, changes and writes back without a lock).
THEOREM RecordIsKept == Spec => []Kept
<1>1. Inv => Kept
  BY DEF Inv
<1> QED  BY <1>1, InvHolds, PTL

\* Between calls a project's directory carries its marker or is gone, so that
\* Remove accepts it (checkMarker), whatever failed or crashed.
THEOREM StaysRemovable == Spec => []Removable
<1>1. Inv => Removable
  <2> SUFFICES ASSUME Inv, NEW p \in Projects, record[p] # NoRecord, Quiet(p), Alone(p), record[p].root \notin cut
               PROVE  dir[record[p].root] = NoDir \/ dir[record[p].root].marker = p
    BY DEF Removable
  <2>1. MarksOf(p) /\ ~Deleting(p)
    BY DEF Inv, Marks, Quiet, Deleting
  <2> QED  BY <2>1 DEF MarksOf, Bears, Alone
<1> QED  BY <1>1, InvHolds, PTL

\* When no call is open and none overlapped, a client that applied every
\* announcement has the record, unless the last announcement was lost
\* (projectsbus/store.go announces after the change).
THEOREM AnnouncedIsStored == Spec => []NewsIsCurrent
<1>1. Inv => NewsIsCurrent
  <2> SUFFICES ASSUME Inv, NEW p \in Projects, Quiet(p), p \notin lost
               PROVE  heard[p] = record[p]
    BY DEF NewsIsCurrent
  <2>1. ~Announcing(p)
    BY DEF Quiet, Announcing
  <2> QED  BY <2>1 DEF Inv, News, Quiet
<1> QED  BY <1>1, InvHolds, PTL

\* An open tracker holds what a restart would load from the directory that
\* the record names, unless that moved under it or has a second owner.
THEOREM TrackerIsDirectory == Spec => []Restartable
<1>1. Inv => Restartable
  BY DEF Inv
<1> QED  BY <1>1, InvHolds, PTL

\* "The record goes last" (mutate.go): when a record disappears, its directory
\* is gone already.
THEOREM RecordIsLast == Spec => RecordGoesLast
<1>1. ASSUME Inv, [Next]_vars, NEW p \in Projects
      PROVE  GoesLast(p)
  <2> SUFFICES ASSUME record[p] # NoRecord, record'[p] = NoRecord, p \notin raced, Alone(p)
               PROVE  dir[record[p].root] = NoDir
    BY DEF GoesLast
  <2>1. PICK c \in Callers : Put(c) \/ DeleteRecord(c)
    BY <1>1, WantStep
  <2>2. ~Put(c)
    <3> SUFFICES ASSUME Put(c)  PROVE FALSE
      OBVIOUS
    <3>1. PICK step \in {"put", "putName", "putRoot"} :
            At(c, step) /\ (record' = [record EXCEPT ![Project(c)] = Written(c, step)] \/ record' = record)
      BY <1>1, PutIs DEF Inv
    <3>2. Written(c, step) # NoRecord
      BY <1>1, <3>1, WrittenIs, RegistryAssumption DEF Inv
    <3> QED  BY <1>1, <3>1, <3>2 DEF Inv, TypeOK, RegistryTypeOK
  <2>3. /\ p = Project(c) /\ call[c] # Idle /\ StepOf(call[c]) = "delete"
        /\ Asked(c) \in Requests /\ Asked(c).kind = "remove"
    BY <1>1, <2>1, <2>2, DeleteIs, AtStep DEF Inv, Advances, TypeOK, RegistryTypeOK
  <2>4. p \notin mixed
    BY <1>1 DEF Inv, TypeOK, RegistryTypeOK
  <2>5. Agrees(c)
    BY <1>1, <2>3, <2>4 DEF Inv, Agreeing, WritesBack, At1
  <2>6. call[c].read.root = record[p].root
    BY <2>3, <2>5, FieldsOf DEF Agrees
  <2> QED  BY <1>1, <2>3, <2>6 DEF Inv, Marks, MarksOf, Open, At1, Alone, Project
<1>2. Inv /\ [Next]_vars => [\A p \in Projects : GoesLast(p)]_rvars
  BY <1>1
<1> QED  BY <1>2, InvHolds, PTL DEF Spec, RecordGoesLast

\* What an open tracker holds changes only by a call on it, until the process
\* restarts: there is one per project (scopes/tracker.go).
THEOREM TrackerIsOne == Spec => OneTracker
<1>1. ASSUME Inv, [Next]_vars, NEW p \in Projects, tracker[p] # Closed, tracker'[p] \notin {tracker[p], Closed}
      PROVE  \E c \in Callers : At(c, "author") /\ Project(c) = p
  <2>1. ~Restart
    BY <1>1 DEF Restart
  <2>2. PICK c \in Callers : OpenTracker(c) \/ Author(c)
    BY <1>1, <2>1 DEF Next, Registers, Write, svars, vars
  <2>3. ~OpenTracker(c)
    BY <1>1, OpenIs DEF Inv, TypeOK
  <2>4. Author(c) /\ p = Project(c)
    BY <1>1, <2>2, <2>3, AuthorIs DEF Inv, TypeOK
  <2> QED  BY <2>4 DEF Author
<1>2. Inv /\ [Next]_vars =>
        [\A p \in Projects :
           tracker[p] # Closed /\ tracker'[p] \notin {tracker[p], Closed} =>
             \E c \in Callers : At(c, "author") /\ Project(c) = p]_vars
  BY <1>1
<1> QED  BY <1>2, InvHolds, PTL DEF Spec, OneTracker
=============================================================================
