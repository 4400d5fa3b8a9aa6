------------------------------ MODULE KeyValue ------------------------------
(***************************************************************************)
(* What a settings store promises (src/services/api/internal/settings/     *)
(* store.go), as its map-backed implementation has it (memory.go): a key   *)
(* holds one whole document or none; a call takes effect at one instant    *)
(* between its start and its end, or fails and changes nothing.            *)
(***************************************************************************)
CONSTANTS Keys, Docs, NoDoc, Callers, Idle

VARIABLES
  docs,   \* the document each key holds
  call    \* the call each caller has open; a removal has no document

vars == << docs, call >>

Calls == [key : Keys, doc : Docs \cup {NoDoc}]

Init ==
  /\ docs = [k \in Keys |-> NoDoc]
  /\ call = [c \in Callers |-> Idle]

Only(c) == \A other \in Callers \ {c} : call'[other] = call[other]

Begin(c) ==
  /\ call[c] = Idle /\ call'[c] \in Calls /\ Only(c)
  /\ UNCHANGED docs

Effect(c) ==
  /\ call[c] # Idle
  /\ docs' = [docs EXCEPT ![call[c].key] = call[c].doc]
  /\ call'[c] = Idle /\ Only(c)

\* Calls fail, several when the process stops.
Fail ==
  /\ \A c \in Callers : call'[c] \in {call[c], Idle}
  /\ UNCHANGED docs

Next == Fail \/ \E c \in Callers : Begin(c) \/ Effect(c)

Spec == Init /\ [][Next]_vars
=============================================================================
