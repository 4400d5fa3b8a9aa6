------------------------------ MODULE Tracker ------------------------------
(***************************************************************************)
(* The tracker's store: one project's schema and its tree of items         *)
(* (src/services/api/internal/tracker/store: core.go, item.go, enforce.go).*)
(*                                                                         *)
(* Every operation runs from its first check to its last assignment under  *)
(* the store's one write lock, so each is a single step.  A refused        *)
(* operation changes nothing and has no step of its own.  Ranks are in     *)
(* Order, persistence and the event feed in Persistence; titles, bodies,   *)
(* authors and times are content no rule reads.                            *)
(***************************************************************************)
EXTENDS Schema, Trees

CONSTANTS
  Items,       \* item identifiers
  Types,       \* type identifiers
  Catalog,     \* Catalog[ty]: the definitions PutItemType may be given for ty
  Nobody,      \* the nil parent
  NoItem,      \* an identifier under which no item is stored
  NoType,      \* an identifier under which no type is declared
  MaxVersion   \* bound of the model: how often one item is written

Item ==
  [type : Types, status : Statuses, parent : Items \cup {Nobody},
   fields : FieldMap, version : Nat \ {0}]

Patch ==
  [status : Statuses \cup {Keep}, parent : Items \cup {Keep},
   clearParent : BOOLEAN, fields : PatchedMap]

ASSUME TrackerAssumption ==
  /\ IsFiniteSet(Items)
  /\ Nobody \notin Items /\ Keep \notin Items
  /\ NoItem \notin Item /\ NoType \notin ItemType
  /\ Catalog \in [Types -> SUBSET ItemType]
  /\ MaxVersion \in Nat

VARIABLES
  schema,   \* the definition of each declared type
  items,    \* the stored items
  minted    \* the identifiers handed out so far: NewID never repeats one

vars == << schema, items, minted >>

Stored == {i \in Items : items[i] # NoItem}

\* The parent link of every stored item.
Up == [i \in Stored |-> items[i].parent]

\* resolved: an item whose type or status has gone missing is unresolved.
Settled(item) ==
  /\ schema[item.type] # NoType
  /\ item.status \in DOMAIN schema[item.type].status
  /\ Resolved(schema[item.type].status[item.status])

\* unresolvedBelow: what it counts.
UnresolvedBelow(i) == {j \in Below(Up, i) : ~Settled(items[j])}

----------------------------------------------------------------------------
\* A fault for the checks: the cycle check sees the parent named and no further.
FaultyCheckAttach(i, child, p) ==
  /\ p \in Stored
  /\ p # i
  /\ Settled(child) \/ ~Settled(items[p])

\* checkAttach: the parent exists, the link closes no cycle, and unresolved
\* work does not hang off a resolved parent.
CheckAttach(i, child, p) ==
  /\ p \in Stored
  /\ p # i
  /\ i \notin AncestorsOf(Up, p)
  /\ Settled(child) \/ ~Settled(items[p])

\* A fault for the checks: only resolving is guarded, never reopening.
FaultyCheckResolution(i, next) == Settled(next) => UnresolvedBelow(i) = {}

\* checkResolution: resolving needs a settled subtree, reopening needs no
\* resolved ancestor.
CheckResolution(i, next) ==
  IF Settled(next)
    THEN UnresolvedBelow(i) = {}
    ELSE next.parent # Nobody =>
           \A a \in AncestorsOf(Up, next.parent) : ~Settled(items[a])

CheckStructure(i, current, next, p) ==
  /\ (p.parent # Keep \/ p.clearParent) /\ next.parent # Nobody =>
       CheckAttach(i, next, next.parent)
  /\ p.status \notin {Keep, current.status} => CheckResolution(i, next)

\* applyPatch, with the version bump UpdateItem adds to it.
ApplyPatch(current, p) ==
  [type    |-> current.type,
   status  |-> IF p.status = Keep THEN current.status ELSE p.status,
   parent  |-> IF p.clearParent THEN Nobody
               ELSE IF p.parent = Keep THEN current.parent ELSE p.parent,
   fields  |-> PatchFields(current.fields, p.fields),
   version |-> current.version + 1]

----------------------------------------------------------------------------
Init ==
  /\ schema = [ty \in Types |-> NoType]
  /\ items = [i \in Items |-> NoItem]
  /\ minted = {}

\* A definition that would invalidate a stored item is refused.
PutItemType(ty, t) ==
  /\ ValidType(t)
  /\ \A i \in Stored : items[i].type = ty => ValidItem(t, items[i])
  /\ schema' = [schema EXCEPT ![ty] = t]
  /\ UNCHANGED << items, minted >>

DeleteItemType(ty) ==
  /\ schema[ty] # NoType
  /\ \A i \in Stored : items[i].type # ty
  /\ schema' = [schema EXCEPT ![ty] = NoType]
  /\ UNCHANGED << items, minted >>

\* A new item enters its type's initial status without consulting the moves.
CreateItem(i, ty, parent, fields) ==
  /\ i \notin minted
  /\ schema[ty] # NoType
  /\ ValidNew(schema[ty], fields)
  /\ LET item == [type    |-> ty,
                  status  |-> schema[ty].initial,
                  parent  |-> parent,
                  fields  |-> ApplyDefaults(schema[ty], fields),
                  version |-> 1]
     IN  /\ parent # Nobody => CheckAttach(i, item, parent)
         /\ items' = [items EXCEPT ![i] = item]
  /\ minted' = minted \cup {i}
  /\ UNCHANGED schema

UpdateItem(i, expected, p) ==
  /\ i \in Stored
  /\ items[i].version = expected
  /\ expected < MaxVersion
  /\ schema[items[i].type] # NoType
  /\ ValidPatch(schema[items[i].type], items[i], p)
  /\ CheckStructure(i, items[i], ApplyPatch(items[i], p), p)
  /\ items' = [items EXCEPT ![i] = ApplyPatch(items[i], p)]
  /\ UNCHANGED << schema, minted >>

\* An item with children is not deleted.
DeleteItem(i, expected) ==
  /\ i \in Stored
  /\ items[i].version = expected
  /\ \A j \in Stored : items[j].parent # i
  /\ items' = [items EXCEPT ![i] = NoItem]
  /\ UNCHANGED << schema, minted >>

Next ==
  \/ \E ty \in Types : \E t \in Catalog[ty] : PutItemType(ty, t)
  \/ \E ty \in Types : DeleteItemType(ty)
  \/ \E i \in Items, ty \in Types, parent \in Items \cup {Nobody}, fields \in FieldMap :
       CreateItem(i, ty, parent, fields)
  \/ \E i \in Items, expected \in 1 .. MaxVersion, p \in Patch : UpdateItem(i, expected, p)
  \/ \E i \in Items, expected \in 1 .. MaxVersion : DeleteItem(i, expected)

Spec == Init /\ [][Next]_vars

----------------------------------------------------------------------------
TypeOK ==
  /\ schema \in [Types -> ItemType \cup {NoType}]
  /\ items \in [Items -> Item \cup {NoItem}]
  /\ Stored \subseteq minted /\ minted \subseteq Items

(***************************************************************************)
(* The items of a project are a forest, whatever reparentings, creations   *)
(* and deletions were interleaved: every parent named is stored, and no    *)
(* item is above itself.  The store relies on it: unresolvedBelow recurses *)
(* without a guard and would never return on a cycle.                      *)
(***************************************************************************)
Forest ==
  /\ \A i \in Stored : items[i].parent \in Stored \cup {Nobody}
  /\ Acyclic(Up)

(***************************************************************************)
(* The resolution gate, at any depth: nothing unresolved lies beneath an   *)
(* item in a resolved category (contract.go, "Resolution").  Three guards  *)
(* of the code have to agree for it: on resolving, on attaching and on     *)
(* reopening.                                                              *)
(***************************************************************************)
SettledBelow == \A i \in Stored : Settled(items[i]) => UnresolvedBelow(i) = {}

(***************************************************************************)
(* The schema never contradicts its data: every stored item's type is      *)
(* declared and the item satisfies all of it (contract.go, "Schema"),      *)
(* through every edit of the item and every change of the type under it.   *)
(***************************************************************************)
Conforms ==
  \A i \in Stored :
    /\ schema[items[i].type] # NoType
    /\ ValidItem(schema[items[i].type], items[i])

----------------------------------------------------------------------------
(***************************************************************************)
(* The proviso under which the gate holds: a status keeps its being        *)
(* resolved or not through every redefinition of its type.  Nothing in the *)
(* code checks this.                                                       *)
(***************************************************************************)
StableCatalog ==
  \A ty \in Types : \A t, u \in Catalog[ty] : \A s \in DOMAIN t.status \cap DOMAIN u.status :
    Resolved(t.status[s]) <=> Resolved(u.status[s])
=============================================================================
