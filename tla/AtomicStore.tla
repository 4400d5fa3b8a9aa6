---------------------------- MODULE AtomicStore ----------------------------
(***************************************************************************)
(* What the store promises its callers, whatever happens to the process:   *)
(* a call changes the value under one key or changes nothing; a call that  *)
(* is answered "ok" has changed it, one that is answered "error" has not;  *)
(* and a call that a crash leaves unanswered did one or the other.         *)
(***************************************************************************)
CONSTANTS Keys, Vals, Absent, NoCall

VARIABLES
  value,   \* what a reader finds under each key
  call,    \* the call being served, or NoCall
  answer   \* how the last call was answered: "ok", "error", or not at all

Calls == [key : Keys, val : Vals \cup {Absent}, done : BOOLEAN]

Effect == [value EXCEPT ![call.key] = call.val]

Init ==
  /\ value = [k \in Keys |-> Absent]
  /\ call = NoCall
  /\ answer = "none"

Begin ==
  /\ call = NoCall
  /\ call' \in {c \in Calls : ~c.done}
  /\ answer' = "none"
  /\ UNCHANGED value

TakeEffect ==
  /\ call # NoCall /\ ~call.done
  /\ value' = Effect
  /\ call' = [key |-> call.key, val |-> call.val, done |-> TRUE]
  /\ UNCHANGED answer

AnswerOk ==
  /\ call # NoCall /\ call.done
  /\ call' = NoCall /\ answer' = "ok"
  /\ UNCHANGED value

AnswerError ==
  /\ call # NoCall /\ ~call.done
  /\ call' = NoCall /\ answer' = "error"
  /\ UNCHANGED value

\* A crash: the call, if there is one, is never answered and may have taken
\* effect.
Abandon ==
  /\ call' = NoCall /\ answer' = "none"
  /\ \/ UNCHANGED value
     \/ call # NoCall /\ ~call.done /\ value' = Effect

Next == Begin \/ TakeEffect \/ AnswerOk \/ AnswerError \/ Abandon

Spec == Init /\ [][Next]_<< value, call, answer >>
=============================================================================
