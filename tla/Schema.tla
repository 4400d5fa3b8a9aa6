------------------------------- MODULE Schema -------------------------------
(***************************************************************************)
(* What the schema of a tracker says of one item: the rules that need no   *)
(* other item to be judged (src/services/api/internal/tracker:             *)
(* validate_item.go, validate_schema.go, validate_field.go).               *)
(*                                                                         *)
(* A declaration list of the code, whose entries have unique keys, is a    *)
(* function here: its domain is what is declared.  Names, descriptions and *)
(* the spelling of identifiers are left out.                               *)
(***************************************************************************)
EXTENDS Integers, FiniteSets

CONSTANTS
  Statuses,  \* status identifiers
  Fields,    \* field identifiers
  Values,    \* values a field can hold, the zero Value apart
  Zero,      \* the zero Value: "no value", storable in every field
  NotHeld,   \* a FieldDef without a default
  Keep,      \* the nil pointer of a Patch: leave alone
  Clear      \* the nil entry of Patch.Fields: remove the key

ASSUME SentinelAssumption ==
  /\ {Zero, NotHeld, Clear} \cap Values = {}
  /\ Zero # NotHeld /\ Zero # Clear
  /\ Keep \notin Statuses

Partial(S, T) == UNION {[D -> T] : D \in SUBSET S}

Categories == {"backlog", "active", "blocked", "done", "canceled"}

\* StatusCategory.Resolved
Resolved(c) == c \in {"done", "canceled"}

(***************************************************************************)
(* FieldDef: the kind and the options of a field, together, are the values *)
(* it accepts.  ItemType: statuses with their categories, the initial one, *)
(* the transitions with the fields each requires, and the fields.          *)
(***************************************************************************)
FieldDef == [accepts : SUBSET Values, required : BOOLEAN, default : Values \cup {Zero, NotHeld}]

ItemType ==
  [status  : Partial(Statuses, Categories \cup {"unknown"}),
   initial : Statuses,
   moves   : Partial(Statuses \X Statuses, SUBSET Fields),
   field   : Partial(Fields, FieldDef)]

FieldMap   == Partial(Fields, Values \cup {Zero})
PatchedMap == Partial(Fields, Values \cup {Zero, Clear})

----------------------------------------------------------------------------
\* FieldDef.Accepts: the zero Value fits every field.
Accepts(def, v) == v = Zero \/ v \in def.accepts

\* ItemType.Validate: what the workflow and the defaults refer to is declared.
ValidType(t) ==
  /\ \A f \in DOMAIN t.field :
       t.field[f].default # NotHeld => Accepts(t.field[f], t.field[f].default)
  /\ \A s \in DOMAIN t.status : t.status[s] \in Categories
  /\ t.initial \in DOMAIN t.status
  /\ \A m \in DOMAIN t.moves :
       /\ {m[1], m[2]} \subseteq DOMAIN t.status
       /\ t.moves[m] \subseteq DOMAIN t.field

\* Whether a field holds a value: present, and not the zero Value.
Holds(fields, f) == f \in DOMAIN fields /\ fields[f] # Zero

FieldsFit(t, fields) ==
  \A f \in DOMAIN fields : f \in DOMAIN t.field /\ Accepts(t.field[f], fields[f])

RequireAll(t, fields) ==
  \A f \in DOMAIN t.field : t.field[f].required => Holds(fields, f)

\* ValidateItem, given the type of the item.
ValidItem(t, item) ==
  /\ item.status \in DOMAIN t.status
  /\ FieldsFit(t, item.fields)
  /\ RequireAll(t, item.fields)

\* ApplyDefaults: a default for every declared field the caller left out.
ApplyDefaults(t, fields) ==
  LET missing == {f \in DOMAIN t.field \ DOMAIN fields : t.field[f].default # NotHeld}
  IN  [f \in DOMAIN fields \cup missing |->
         IF f \in missing THEN t.field[f].default ELSE fields[f]]

\* ValidateNew: required fields are judged after the defaults are in.
ValidNew(t, fields) ==
  FieldsFit(t, fields) /\ RequireAll(t, ApplyDefaults(t, fields))

----------------------------------------------------------------------------
\* A fault for the checks: a cleared field is stored as such, not removed.
FaultyPatchFields(fields, patched) ==
  [f \in DOMAIN fields \cup DOMAIN patched |->
     IF f \in DOMAIN patched THEN patched[f] ELSE fields[f]]

\* The field map a patch results in (apply, and applyPatch of the store).
PatchFields(fields, patched) ==
  LET removed == {f \in DOMAIN patched : patched[f] = Clear}
  IN  [f \in (DOMAIN fields \cup DOMAIN patched) \ removed |->
         IF f \in DOMAIN patched THEN patched[f] ELSE fields[f]]

\* ValidateTransition: judged on the fields as they will be after the edit.
ValidTransition(t, from, to, after) ==
  /\ to \in DOMAIN t.status
  /\ << from, to >> \in DOMAIN t.moves
  /\ \A f \in t.moves[<< from, to >>] : Holds(after, f)

\* A fault for the checks: required fields judged on the item before the edit.
FaultyValidPatch(t, item, p) ==
  /\ p.parent = Keep \/ ~p.clearParent
  /\ \A f \in DOMAIN p.fields :
       f \in DOMAIN t.field /\ (p.fields[f] = Clear \/ Accepts(t.field[f], p.fields[f]))
  /\ RequireAll(t, item.fields)
  /\ p.status \in {Keep, item.status}
       \/ ValidTransition(t, item.status, p.status, PatchFields(item.fields, p.fields))

\* ValidatePatch
ValidPatch(t, item, p) ==
  LET after == PatchFields(item.fields, p.fields) IN
  /\ p.parent = Keep \/ ~p.clearParent
  /\ \A f \in DOMAIN p.fields :
       f \in DOMAIN t.field /\ (p.fields[f] = Clear \/ Accepts(t.field[f], p.fields[f]))
  /\ RequireAll(t, after)
  /\ \/ p.status \in {Keep, item.status}
     \/ ValidTransition(t, item.status, p.status, after)
=============================================================================
