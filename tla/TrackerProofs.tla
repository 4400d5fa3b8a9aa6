--------------------------- MODULE TrackerProofs ---------------------------
(***************************************************************************)
(* What Tracker guarantees for every set of items, types, statuses, fields *)
(* and values, and for every catalog of definitions.                       *)
(*                                                                         *)
(* The gate is not inductive as SettledBelow states it.  What each step    *)
(* preserves is its edge form, GateAtEdge; the forest lifts it to any      *)
(* depth.  GateAtEdge in turn needs the forest and the schema invariant:   *)
(* a redefined type keeps a status's category only if the status is still  *)
(* declared.                                                               *)
(***************************************************************************)
EXTENDS Tracker, TLAPS

----------------------------------------------------------------------------
(* Walks and forests. *)

(***************************************************************************)
(* A walk up starts at the item itself and stays among stored items.       *)
(***************************************************************************)
LEMMA WalkStarts ==
  ASSUME NEW up, NEW i \in DOMAIN up
  PROVE  i \in AncestorsOf(up, i) /\ AncestorsOf(up, i) \subseteq DOMAIN up
  BY DEF AncestorsOf

(***************************************************************************)
(* Whatever set holds the start and is closed under the links holds the    *)
(* whole walk.                                                             *)
(***************************************************************************)
LEMMA WalkIsLeast ==
  ASSUME NEW up, NEW i, NEW S \in SUBSET DOMAIN up, i \in S, UpClosed(up, S)
  PROVE  AncestorsOf(up, i) \subseteq S
  BY DEF AncestorsOf

(***************************************************************************)
(* A walk never stops before a root.                                       *)
(***************************************************************************)
LEMMA WalkIsClosed ==
  ASSUME NEW up, NEW i
  PROVE  UpClosed(up, AncestorsOf(up, i))
  BY DEF AncestorsOf, UpClosed

(***************************************************************************)
(* The walk from i is i and then the walk from the item above it.          *)
(***************************************************************************)
LEMMA WalkStep ==
  ASSUME NEW up, NEW i \in DOMAIN up, NEW j \in AncestorsOf(up, i), j # i
  PROVE  up[i] \in DOMAIN up /\ j \in AncestorsOf(up, up[i])
<1> DEFINE above == {k \in AncestorsOf(up, up[i]) : up[i] \in DOMAIN up}
           S == {i} \cup above
<1>1. S \in SUBSET DOMAIN up
  BY DEF AncestorsOf
<1>2. UpClosed(up, S)
  BY WalkStarts, WalkIsClosed DEF UpClosed
<1>3. AncestorsOf(up, i) \subseteq S
  BY <1>1, <1>2, WalkIsLeast
<1> QED
  BY <1>3

(***************************************************************************)
(* A walk started further up stays inside the walk started below.          *)
(***************************************************************************)
LEMMA WalkNests ==
  ASSUME NEW up, NEW i, NEW j \in AncestorsOf(up, i)
  PROVE  AncestorsOf(up, j) \subseteq AncestorsOf(up, i)
<1>1. AncestorsOf(up, i) \in SUBSET DOMAIN up
  BY DEF AncestorsOf
<1> QED
  BY <1>1, WalkIsClosed, WalkIsLeast

(***************************************************************************)
(* Moving c under p, when c is not on the walk up from p, closes no cycle: *)
(* the guard of checkAttach is enough at every depth.                      *)
(***************************************************************************)
LEMMA MoveKeepsAcyclic ==
  ASSUME NEW up, Acyclic(up), NEW c \in DOMAIN up, NEW p \in DOMAIN up,
         c \notin AncestorsOf(up, p)
  PROVE  Acyclic([up EXCEPT ![c] = p])
<1> DEFINE moved == [up EXCEPT ![c] = p]
<1>1. DOMAIN moved = DOMAIN up /\ moved[c] = p /\ \A x \in DOMAIN up : x # c => moved[x] = up[x]
  OBVIOUS
<1>2. ASSUME NEW S \in SUBSET DOMAIN up, UpClosed(up, S), c \notin S
      PROVE  UpClosed(moved, S)
  BY <1>1, <1>2 DEF UpClosed
<1>3. UpClosed(moved, AncestorsOf(up, p))
  BY <1>2, WalkIsClosed, WalkStarts
<1> SUFFICES ASSUME NEW i \in DOMAIN up, moved[i] \in DOMAIN up
             PROVE  i \notin AncestorsOf(moved, moved[i])
  BY <1>1 DEF Acyclic
<1> HIDE DEF moved
<1>4. CASE i = c
  <2>1. AncestorsOf(moved, p) \subseteq AncestorsOf(up, p)
    BY <1>1, <1>3, WalkStarts, WalkIsLeast
  <2> QED
    BY <1>1, <1>4, <2>1
<1>5. CASE i # c /\ c \notin AncestorsOf(up, up[i])
  <2>1. up[i] \in DOMAIN up /\ moved[i] = up[i]
    BY <1>1, <1>5
  <2>2. AncestorsOf(moved, up[i]) \subseteq AncestorsOf(up, up[i])
    BY <1>1, <1>2, <1>5, <2>1, WalkStarts, WalkIsClosed, WalkIsLeast
  <2> QED
    BY <2>1, <2>2 DEF Acyclic
<1>6. CASE i # c /\ c \in AncestorsOf(up, up[i])
  <2> DEFINE toC == {x \in AncestorsOf(up, up[i]) : c \in AncestorsOf(up, x)}
             S == toC \cup AncestorsOf(up, p)
  <2>1. up[i] \in DOMAIN up /\ moved[i] = up[i]
    BY <1>1, <1>6
  <2>2. S \in SUBSET DOMAIN up /\ up[i] \in S
    BY <1>6, <2>1, WalkStarts DEF AncestorsOf
  <2>3. UpClosed(moved, S)
    <3> SUFFICES ASSUME NEW x \in S, moved[x] \in DOMAIN up
                 PROVE  moved[x] \in S
      BY <1>1 DEF UpClosed
    <3>1. CASE x = c
      BY <1>1, <3>1, WalkStarts
    <3>2. CASE x # c /\ x \in AncestorsOf(up, p)
      BY <1>1, <1>3, <3>2 DEF UpClosed
    <3>3. CASE x # c /\ x \in toC
      <4>1. x \in DOMAIN up /\ moved[x] = up[x]
        BY <1>1, <2>2, <3>3
      <4>2. c \in AncestorsOf(up, up[x])
        BY <3>3, <4>1, WalkStep
      <4>3. up[x] \in AncestorsOf(up, up[i])
        BY <3>3, <4>1, WalkIsClosed DEF UpClosed
      <4> QED
        BY <4>1, <4>2, <4>3
    <3> QED
      BY <3>1, <3>2, <3>3
  <2>4. i \notin S
    <3>1. i \notin AncestorsOf(up, up[i])
      BY <2>1 DEF Acyclic
    <3>2. ASSUME i \in AncestorsOf(up, p)
          PROVE  FALSE
      <4>1. up[i] \in AncestorsOf(up, p)
        BY <2>1, <3>2, WalkIsClosed DEF UpClosed
      <4>2. c \in AncestorsOf(up, p)
        BY <1>6, <4>1, WalkNests
      <4> QED
        BY <4>2
    <3> QED
      BY <3>1, <3>2
  <2>5. AncestorsOf(moved, up[i]) \subseteq S
    BY <1>1, <2>2, <2>3, WalkIsLeast
  <2> QED
    BY <2>1, <2>4, <2>5
<1> QED
  BY <1>1, <1>4, <1>5, <1>6

(***************************************************************************)
(* Making an item a root closes no cycle.                                  *)
(***************************************************************************)
LEMMA DetachKeepsAcyclic ==
  ASSUME NEW up, Acyclic(up), NEW c \in DOMAIN up, NEW none, none \notin DOMAIN up
  PROVE  Acyclic([up EXCEPT ![c] = none])
<1> DEFINE moved == [up EXCEPT ![c] = none]
<1>1. DOMAIN moved = DOMAIN up /\ moved[c] = none /\ \A x \in DOMAIN up : x # c => moved[x] = up[x]
  OBVIOUS
<1> SUFFICES ASSUME NEW i \in DOMAIN up, moved[i] \in DOMAIN up
             PROVE  i \notin AncestorsOf(moved, moved[i])
  BY <1>1 DEF Acyclic
<1> HIDE DEF moved
<1>2. up[i] \in DOMAIN up /\ moved[i] = up[i]
  BY <1>1
<1>3. UpClosed(moved, AncestorsOf(up, up[i]))
  BY <1>1, WalkIsClosed, WalkStarts DEF UpClosed
<1>4. AncestorsOf(moved, up[i]) \subseteq AncestorsOf(up, up[i])
  BY <1>1, <1>2, <1>3, WalkStarts, WalkIsLeast
<1> QED
  BY <1>2, <1>4 DEF Acyclic

(***************************************************************************)
(* Adding an item nothing points at, under a stored parent or under none,  *)
(* closes no cycle.                                                        *)
(***************************************************************************)
LEMMA AddKeepsAcyclic ==
  ASSUME NEW up, NEW grown, NEW c, Acyclic(up),
         c \notin DOMAIN up, DOMAIN grown = DOMAIN up \cup {c}, grown[c] # c,
         \A x \in DOMAIN up : grown[x] = up[x] /\ up[x] # c
  PROVE  Acyclic(grown)
<1>1. ASSUME NEW S \in SUBSET DOMAIN up, UpClosed(up, S)
      PROVE  UpClosed(grown, S)
  BY <1>1 DEF UpClosed
<1> SUFFICES ASSUME NEW i \in DOMAIN grown, grown[i] \in DOMAIN grown
             PROVE  i \notin AncestorsOf(grown, grown[i])
  BY DEF Acyclic
<1>2. grown[i] \in DOMAIN up
  OBVIOUS
<1>3. AncestorsOf(grown, grown[i]) \subseteq AncestorsOf(up, grown[i])
  BY <1>1, <1>2, WalkStarts, WalkIsClosed, WalkIsLeast
<1> QED
  BY <1>2, <1>3, WalkStarts DEF Acyclic

(***************************************************************************)
(* Removing an item that parents nothing closes no cycle.                  *)
(***************************************************************************)
LEMMA RemoveKeepsAcyclic ==
  ASSUME NEW up, NEW pruned, NEW c, Acyclic(up),
         DOMAIN pruned = DOMAIN up \ {c},
         \A x \in DOMAIN pruned : pruned[x] = up[x] /\ up[x] # c
  PROVE  Acyclic(pruned)
<1> SUFFICES ASSUME NEW i \in DOMAIN pruned, pruned[i] \in DOMAIN pruned
             PROVE  i \notin AncestorsOf(pruned, pruned[i])
  BY DEF Acyclic
<1> DEFINE S == AncestorsOf(up, up[i]) \ {c}
<1>1. i \in DOMAIN up /\ up[i] \in DOMAIN up /\ pruned[i] = up[i]
  OBVIOUS
<1>2. S \in SUBSET DOMAIN pruned /\ up[i] \in S
  BY <1>1, WalkStarts
<1>3. UpClosed(pruned, S)
  BY <1>1, <1>2, WalkIsClosed DEF UpClosed
<1>4. AncestorsOf(pruned, up[i]) \subseteq S
  BY <1>2, <1>3, WalkIsLeast
<1> QED
  BY <1>1, <1>4 DEF Acyclic

(***************************************************************************)
(* A set of items closed under parents and missing an item also misses     *)
(* everything above which that item lies: what holds at each link holds at *)
(* every depth.                                                            *)
(***************************************************************************)
LEMMA ClosedReachesDeep ==
  ASSUME NEW up, NEW S \in SUBSET DOMAIN up, UpClosed(up, S),
         NEW i \in DOMAIN up \ S, NEW j \in Below(up, i)
  PROVE  j \notin S
<1> SUFFICES ASSUME j \in S
             PROVE  FALSE
  OBVIOUS
<1>1. up[j] \in S /\ i \in AncestorsOf(up, up[j])
  BY DEF Below, UpClosed
<1>2. AncestorsOf(up, up[j]) \subseteq S
  BY <1>1, WalkIsLeast
<1> QED
  BY <1>1, <1>2

----------------------------------------------------------------------------
(* The tracker. *)

\* Every definition in force came from the catalog.
FromCatalog == \A ty \in Types : schema[ty] \in Catalog[ty] \cup {NoType}

\* The gate between an item and the one directly above it.
GateAtEdge ==
  \A i \in Stored :
    items[i].parent \in Stored /\ ~Settled(items[i]) => ~Settled(items[items[i].parent])

----------------------------------------------------------------------------
(***************************************************************************)
(* A partial function is a function on its own domain, and conversely.     *)
(***************************************************************************)
LEMMA PartialIs ==
  ASSUME NEW S, NEW T
  PROVE  /\ \A f \in Partial(S, T) :
              DOMAIN f \subseteq S /\ f \in [DOMAIN f -> T] /\ \A x \in DOMAIN f : f[x] \in T
         /\ \A D \in SUBSET S : \A f \in [D -> T] : f \in Partial(S, T)
<1>1. ASSUME NEW f \in Partial(S, T)
      PROVE  DOMAIN f \subseteq S /\ f \in [DOMAIN f -> T] /\ \A x \in DOMAIN f : f[x] \in T
  <2>1. PICK D \in SUBSET S : f \in [D -> T]
    BY DEF Partial
  <2> QED
    BY <2>1
<1> QED
  BY <1>1 DEF Partial

(***************************************************************************)
(* An edit leaves a field map: a cleared field is gone, not stored.        *)
(***************************************************************************)
LEMMA PatchFieldsType ==
  ASSUME NEW fields \in FieldMap, NEW patched \in PatchedMap
  PROVE  PatchFields(fields, patched) \in FieldMap
<1> DEFINE removed == {f \in DOMAIN patched : patched[f] = Clear}
           D == (DOMAIN fields \cup DOMAIN patched) \ removed
           after == [f \in D |-> IF f \in DOMAIN patched THEN patched[f] ELSE fields[f]]
<1>1. /\ DOMAIN fields \subseteq Fields
      /\ \A f \in DOMAIN fields : fields[f] \in Values \cup {Zero}
  BY PartialIs DEF FieldMap
<1>2. /\ DOMAIN patched \subseteq Fields
      /\ \A f \in DOMAIN patched : patched[f] \in Values \cup {Zero, Clear}
  BY PartialIs DEF PatchedMap
<1>3. D \in SUBSET Fields
  BY <1>1, <1>2
<1>4. \A f \in D : (IF f \in DOMAIN patched THEN patched[f] ELSE fields[f]) \in Values \cup {Zero}
  BY <1>1, <1>2
<1> HIDE DEF D
<1>5. after \in [D -> Values \cup {Zero}]
  BY <1>4
<1>6. after \in Partial(Fields, Values \cup {Zero})
  BY <1>3, <1>5, PartialIs
<1> QED
  BY <1>6 DEF FieldMap, PatchFields, D

(***************************************************************************)
(* Defaults complete a field map.                                          *)
(***************************************************************************)
LEMMA ApplyDefaultsType ==
  ASSUME NEW t \in ItemType, NEW fields \in FieldMap
  PROVE  ApplyDefaults(t, fields) \in FieldMap
<1> DEFINE missing == {f \in DOMAIN t.field \ DOMAIN fields : t.field[f].default # NotHeld}
           D == DOMAIN fields \cup missing
           out == [f \in D |-> IF f \in missing THEN t.field[f].default ELSE fields[f]]
<1>1. /\ DOMAIN fields \subseteq Fields
      /\ \A f \in DOMAIN fields : fields[f] \in Values \cup {Zero}
  BY PartialIs DEF FieldMap
<1>2. /\ DOMAIN t.field \subseteq Fields
      /\ \A f \in DOMAIN t.field : t.field[f] \in FieldDef
  <2>1. t.field \in Partial(Fields, FieldDef)
    BY DEF ItemType
  <2> QED
    BY <2>1, PartialIs
<1>3. D \in SUBSET Fields
  BY <1>1, <1>2
<1>4. \A f \in D : (IF f \in missing THEN t.field[f].default ELSE fields[f]) \in Values \cup {Zero}
  BY <1>1, <1>2 DEF FieldDef
<1> HIDE DEF D, missing
<1>5. out \in [D -> Values \cup {Zero}]
  BY <1>4
<1>6. out \in Partial(Fields, Values \cup {Zero})
  BY <1>3, <1>5, PartialIs
<1> QED
  BY <1>6 DEF FieldMap, ApplyDefaults, D, missing

(***************************************************************************)
(* An edit of an item yields an item.                                      *)
(***************************************************************************)
LEMMA ApplyPatchType ==
  ASSUME NEW item \in Item, NEW p \in Patch
  PROVE  ApplyPatch(item, p) \in Item
<1>1. PatchFields(item.fields, p.fields) \in FieldMap
  BY PatchFieldsType DEF Item, Patch
<1> QED
  BY <1>1, SentinelAssumption, TrackerAssumption DEF ApplyPatch, Item, Patch

----------------------------------------------------------------------------
\* The record CreateItem stores.
NewRecord(ty, parent, fields) ==
  [type |-> ty, status |-> schema[ty].initial, parent |-> parent,
   fields |-> ApplyDefaults(schema[ty], fields), version |-> 1]

(***************************************************************************)
(* What is stored after each kind of write.                                *)
(***************************************************************************)
LEMMA UpdateEffect ==
  ASSUME TypeOK, NEW i \in Items, NEW e, NEW p \in Patch, UpdateItem(i, e, p)
  PROVE  LET next == ApplyPatch(items[i], p) IN
         /\ i \in Stored /\ items[i] \in Item /\ next \in Item
         /\ items' = [items EXCEPT ![i] = next]
         /\ Stored' = Stored
         /\ items'[i] = next /\ \A j \in Stored : j # i => items'[j] = items[j]
         /\ Up' = [Up EXCEPT ![i] = next.parent]
         /\ schema' = schema /\ minted' = minted
<1> DEFINE next == ApplyPatch(items[i], p)
<1>1. i \in Stored /\ items[i] \in Item
  BY DEF UpdateItem, TypeOK, Stored
<1>2. next \in Item
  BY <1>1, ApplyPatchType
<1> HIDE DEF next
<1>3. items' = [items EXCEPT ![i] = next] /\ schema' = schema /\ minted' = minted
  BY DEF UpdateItem, next
<1>4. /\ items' \in [Items -> Item \cup {NoItem}]
      /\ items'[i] = next /\ \A j \in Items : j # i => items'[j] = items[j]
  BY <1>2, <1>3 DEF TypeOK
<1>5. Stored' = Stored
  BY <1>1, <1>2, <1>4, TrackerAssumption DEF Stored
<1>6. Up' = [Up EXCEPT ![i] = next.parent]
  BY <1>1, <1>4, <1>5 DEF Up, Stored
<1> QED
  BY <1>1, <1>2, <1>3, <1>4, <1>5, <1>6 DEF next, Stored

\* A creation stores one item more, of a declared type.
LEMMA CreateEffect ==
  ASSUME TypeOK, NEW i \in Items, NEW ty \in Types, NEW parent \in Items \cup {Nobody},
         NEW fields \in FieldMap, CreateItem(i, ty, parent, fields)
  PROVE  LET item == NewRecord(ty, parent, fields) IN
         /\ i \notin Stored /\ item \in Item
         /\ schema[ty] \in ItemType
         /\ items' = [items EXCEPT ![i] = item]
         /\ Stored' = Stored \cup {i}
         /\ items'[i] = item /\ \A j \in Stored : items'[j] = items[j]
         /\ parent # Nobody => CheckAttach(i, item, parent)
         /\ schema' = schema /\ minted' = minted \cup {i}
<1> DEFINE item == NewRecord(ty, parent, fields)
<1>1. i \notin Stored /\ schema[ty] \in ItemType
  BY DEF CreateItem, TypeOK
<1>2. item \in Item
  <2>1. ApplyDefaults(schema[ty], fields) \in FieldMap /\ schema[ty].initial \in Statuses
    BY <1>1, ApplyDefaultsType DEF ItemType
  <2> QED
    BY <2>1 DEF NewRecord, Item
<1>3. /\ items' = [items EXCEPT ![i] = item]
      /\ parent # Nobody => CheckAttach(i, item, parent)
      /\ schema' = schema /\ minted' = minted \cup {i}
  BY DEF CreateItem, NewRecord
<1> HIDE DEF item
<1>4. items'[i] = item /\ \A j \in Items : j # i => items'[j] = items[j]
  BY <1>2, <1>3 DEF TypeOK
<1>5. Stored' = Stored \cup {i}
  BY <1>2, <1>4, TrackerAssumption DEF Stored
<1> QED
  BY <1>1, <1>2, <1>3, <1>4, <1>5 DEF item, Stored

\* A deletion removes one item and touches no other.
LEMMA DeleteEffect ==
  ASSUME TypeOK, NEW i \in Items, NEW e, DeleteItem(i, e)
  PROVE  /\ i \in Stored /\ \A j \in Stored : items[j].parent # i
         /\ items' = [items EXCEPT ![i] = NoItem]
         /\ Stored' = Stored \ {i}
         /\ \A j \in Stored' : items'[j] = items[j]
         /\ schema' = schema /\ minted' = minted
  BY DEF DeleteItem, TypeOK, Stored

----------------------------------------------------------------------------
\* A new store has the declared shape.
LEMMA TypeInit == Init => TypeOK
  BY DEF Init, TypeOK, Stored

\* No operation of the store leaves the declared shape.
LEMMA TypeStep == TypeOK /\ [Next]_vars => TypeOK'
<1> SUFFICES ASSUME TypeOK, [Next]_vars
             PROVE  TypeOK'
  OBVIOUS
<1>1. ASSUME NEW ty \in Types, NEW t \in Catalog[ty], PutItemType(ty, t)
      PROVE  TypeOK'
  BY <1>1, TrackerAssumption DEF PutItemType, TypeOK, Stored
<1>2. ASSUME NEW ty \in Types, DeleteItemType(ty)
      PROVE  TypeOK'
  BY <1>2 DEF DeleteItemType, TypeOK, Stored
<1>3. ASSUME NEW i \in Items, NEW ty \in Types, NEW parent \in Items \cup {Nobody},
             NEW fields \in FieldMap, CreateItem(i, ty, parent, fields)
      PROVE  TypeOK'
  BY <1>3, CreateEffect DEF TypeOK
<1>4. ASSUME NEW i \in Items, NEW e \in 1 .. MaxVersion, NEW p \in Patch, UpdateItem(i, e, p)
      PROVE  TypeOK'
  BY <1>4, UpdateEffect DEF TypeOK
<1>5. ASSUME NEW i \in Items, NEW e \in 1 .. MaxVersion, DeleteItem(i, e)
      PROVE  TypeOK'
  BY <1>5, DeleteEffect DEF TypeOK
<1>6. CASE UNCHANGED vars
  BY <1>6 DEF vars, TypeOK, Stored
<1> QED
  BY <1>1, <1>2, <1>3, <1>4, <1>5, <1>6 DEF Next

(***************************************************************************)
(* The state of the store is always of its declared shape.                 *)
(***************************************************************************)
THEOREM TrackerTypeCorrect == Spec => []TypeOK
  BY TypeInit, TypeStep, PTL DEF Spec

----------------------------------------------------------------------------
\* A store without items is a forest.
LEMMA ForestInit == Init => Forest
  BY DEF Init, Forest, Stored, Up, Acyclic

(***************************************************************************)
(* A write of an item keeps the forest: the item keeps its parent, becomes *)
(* a root, or has passed checkAttach.                                      *)
(***************************************************************************)
LEMMA UpdateKeepsForest ==
  ASSUME TypeOK, Forest, NEW i \in Items, NEW e, NEW p \in Patch, UpdateItem(i, e, p)
  PROVE  Forest'
<1> DEFINE next == ApplyPatch(items[i], p)
<1>1. /\ i \in Stored /\ next \in Item /\ Stored' = Stored
      /\ items'[i] = next /\ \A j \in Stored : j # i => items'[j] = items[j]
      /\ Up' = [Up EXCEPT ![i] = next.parent]
  BY UpdateEffect
<1>2. Up \in [Stored -> Stored \cup {Nobody}] /\ Acyclic(Up) /\ Nobody \notin Stored
  BY TrackerAssumption DEF Forest, Up, Stored
<1>3. /\ next.parent = IF p.clearParent THEN Nobody
                       ELSE IF p.parent = Keep THEN Up[i] ELSE p.parent
      /\ (p.parent # Keep \/ p.clearParent) /\ next.parent # Nobody =>
            CheckAttach(i, next, next.parent)
  BY <1>1 DEF UpdateItem, CheckStructure, ApplyPatch, Up
<1> HIDE DEF next
<1>4. next.parent \in Stored \cup {Nobody} /\ Acyclic(Up')
  <2>1. CASE p.clearParent
    BY <1>1, <1>2, <1>3, <2>1, DetachKeepsAcyclic
  <2>2. CASE ~p.clearParent /\ p.parent = Keep
    <3>1. Up' = Up
      BY <1>1, <1>2, <1>3, <2>2
    <3> QED
      BY <1>1, <1>2, <1>3, <2>2, <3>1
  <2>3. CASE ~p.clearParent /\ p.parent # Keep
    <3>1. next.parent = p.parent /\ p.parent \in Items
      BY <1>3, <2>3 DEF Patch
    <3>2. p.parent \in Stored /\ i \notin AncestorsOf(Up, p.parent)
      BY <1>3, <2>3, <3>1, TrackerAssumption DEF CheckAttach
    <3> QED
      BY <1>1, <1>2, <3>1, <3>2, MoveKeepsAcyclic
  <2> QED
    BY <2>1, <2>2, <2>3
<1>5. Acyclic(Up)'
  BY <1>4 DEF Acyclic, AncestorsOf, UpClosed
<1> QED
  BY <1>1, <1>4, <1>5 DEF Forest

\* A new item hangs under a stored parent or is a root.
LEMMA CreateKeepsForest ==
  ASSUME TypeOK, Forest, NEW i \in Items, NEW ty \in Types, NEW parent \in Items \cup {Nobody},
         NEW fields \in FieldMap, CreateItem(i, ty, parent, fields)
  PROVE  Forest'
<1> DEFINE item == NewRecord(ty, parent, fields)
<1>1. /\ i \notin Stored /\ Stored' = Stored \cup {i}
      /\ items'[i] = item /\ \A j \in Stored : items'[j] = items[j]
      /\ parent # Nobody => CheckAttach(i, item, parent)
  BY CreateEffect
<1>2. item.parent = parent
  BY DEF NewRecord
<1> HIDE DEF item
<1>3. item.parent \in Stored \cup {Nobody} /\ item.parent # i
  BY <1>1, <1>2, TrackerAssumption DEF CheckAttach
<1>4. \A j \in Stored' : items'[j].parent \in Stored' \cup {Nobody}
  BY <1>1, <1>3 DEF Forest
<1>5. Acyclic(Up')
  <2> DEFINE up == Up
             grown == Up'
  <2>1. DOMAIN up = Stored /\ DOMAIN grown = Stored \cup {i}
    BY <1>1 DEF Up
  <2>2. grown[i] # i
    BY <1>1, <1>3 DEF Up
  <2>3. \A x \in Stored : grown[x] = up[x] /\ up[x] # i
    BY <1>1, TrackerAssumption DEF Up, Forest
  <2>4. Acyclic(up)
    BY DEF Forest
  <2> HIDE DEF up, grown
  <2>5. Acyclic(grown)
    BY <1>1, <2>1, <2>2, <2>3, <2>4, AddKeepsAcyclic
  <2> QED
    BY <2>5 DEF grown
<1>6. Acyclic(Up)'
  BY <1>5 DEF Acyclic, AncestorsOf, UpClosed
<1> QED
  BY <1>4, <1>6 DEF Forest

\* DeleteItem refuses an item with children, so no parent goes missing.
LEMMA DeleteKeepsForest ==
  ASSUME TypeOK, Forest, NEW i \in Items, NEW e, DeleteItem(i, e)
  PROVE  Forest'
<1>1. /\ i \in Stored /\ \A j \in Stored : items[j].parent # i
      /\ Stored' = Stored \ {i}
      /\ \A j \in Stored' : items'[j] = items[j]
  BY DeleteEffect
<1>2. \A j \in Stored' : items'[j].parent \in Stored' \cup {Nobody}
  BY <1>1 DEF Forest
<1>3. Acyclic(Up')
  <2> DEFINE up == Up
             pruned == Up'
  <2>1. DOMAIN up = Stored /\ DOMAIN pruned = Stored \ {i}
    BY <1>1 DEF Up
  <2>2. \A x \in DOMAIN pruned : pruned[x] = up[x] /\ up[x] # i
    BY <1>1 DEF Up
  <2>3. Acyclic(up)
    BY DEF Forest
  <2> HIDE DEF up, pruned
  <2>4. Acyclic(pruned)
    BY <2>1, <2>2, <2>3, RemoveKeepsAcyclic
  <2> QED
    BY <2>4 DEF pruned
<1>4. Acyclic(Up)'
  BY <1>3 DEF Acyclic, AncestorsOf, UpClosed
<1> QED
  BY <1>2, <1>4 DEF Forest

\* Every operation of the store keeps the forest.
LEMMA ForestStep == TypeOK /\ Forest /\ [Next]_vars => Forest'
<1> SUFFICES ASSUME TypeOK, Forest, [Next]_vars
             PROVE  Forest'
  OBVIOUS
<1>1. ASSUME items' = items
      PROVE  Forest'
  <2>1. Stored' = Stored /\ Up' = Up
    BY <1>1 DEF Stored, Up
  <2> QED
    BY <1>1, <2>1 DEF Forest, Acyclic, AncestorsOf, UpClosed
<1>2. ASSUME NEW ty \in Types, NEW t, PutItemType(ty, t)
      PROVE  Forest'
  BY <1>1, <1>2 DEF PutItemType
<1>3. ASSUME NEW ty \in Types, DeleteItemType(ty)
      PROVE  Forest'
  BY <1>1, <1>3 DEF DeleteItemType
<1>4. CASE UNCHANGED vars
  BY <1>1, <1>4 DEF vars
<1> QED
  BY <1>2, <1>3, <1>4, CreateKeepsForest, UpdateKeepsForest, DeleteKeepsForest DEF Next

(***************************************************************************)
(* The items are a forest in every reachable state, so the unguarded       *)
(* recursion of unresolvedBelow always ends.                               *)
(***************************************************************************)
THEOREM TrackerForest == Spec => []Forest
<1>1. Init => TypeOK /\ Forest
  BY TypeInit, ForestInit
<1>2. TypeOK /\ Forest /\ [Next]_vars => (TypeOK /\ Forest)'
  BY TypeStep, ForestStep
<1> QED
  BY <1>1, <1>2, PTL DEF Spec

----------------------------------------------------------------------------
(***************************************************************************)
(* A patch that validates leaves an item its type accepts.                 *)
(***************************************************************************)
LEMMA PatchConforms ==
  ASSUME NEW t \in ItemType, NEW item \in Item, NEW p \in Patch,
         ValidItem(t, item), ValidPatch(t, item, p)
  PROVE  ValidItem(t, ApplyPatch(item, p))
<1> DEFINE after == PatchFields(item.fields, p.fields)
           next == ApplyPatch(item, p)
<1>1. next.fields = after /\ next.status = IF p.status = Keep THEN item.status ELSE p.status
  BY DEF ApplyPatch
<1>2. next.status \in DOMAIN t.status
  BY <1>1 DEF ValidItem, ValidPatch, ValidTransition
<1>3. RequireAll(t, after)
  BY DEF ValidPatch
<1>4. FieldsFit(t, after)
  <2> SUFFICES ASSUME NEW f \in DOMAIN after
               PROVE  f \in DOMAIN t.field /\ Accepts(t.field[f], after[f])
    BY DEF FieldsFit
  <2>1. CASE f \in DOMAIN p.fields
    <3>1. p.fields[f] # Clear /\ after[f] = p.fields[f]
      BY <2>1 DEF PatchFields
    <3> QED
      BY <2>1, <3>1 DEF ValidPatch
  <2>2. CASE f \notin DOMAIN p.fields
    <3>1. f \in DOMAIN item.fields /\ after[f] = item.fields[f]
      BY <2>2 DEF PatchFields
    <3> QED
      BY <3>1 DEF ValidItem, FieldsFit
  <2> QED
    BY <2>1, <2>2
<1> HIDE DEF after, next
<1>5. ValidItem(t, next)
  BY <1>1, <1>2, <1>3, <1>4 DEF ValidItem
<1> QED
  BY <1>5 DEF next

(***************************************************************************)
(* A creation that validates stores an item its type accepts.              *)
(***************************************************************************)
LEMMA NewConforms ==
  ASSUME NEW t, ValidType(t), NEW fields, ValidNew(t, fields), NEW item,
         item.status = t.initial, item.fields = ApplyDefaults(t, fields)
  PROVE  ValidItem(t, item)
<1>1. FieldsFit(t, ApplyDefaults(t, fields))
  BY DEF FieldsFit, ApplyDefaults, ValidNew, ValidType
<1> QED
  BY <1>1 DEF ValidItem, ValidNew, ValidType

\* Every definition in force passed Validate when it was put.
SchemaValid == \A ty \in Types : schema[ty] # NoType => ValidType(schema[ty])

\* A store without items contradicts no schema.
LEMMA ConformsInit == Init => SchemaValid /\ Conforms
  BY DEF Init, SchemaValid, Conforms, Stored

\* Every change of an item or of a type keeps schema and data in agreement.
LEMMA ConformsStep ==
  TypeOK /\ SchemaValid /\ Conforms /\ [Next]_vars => (SchemaValid /\ Conforms)'
<1> SUFFICES ASSUME TypeOK, SchemaValid, Conforms, [Next]_vars
             PROVE  SchemaValid' /\ Conforms'
  OBVIOUS
<1>1. ASSUME NEW ty \in Types, NEW t \in Catalog[ty], PutItemType(ty, t)
      PROVE  SchemaValid' /\ Conforms'
  <2>1. /\ schema'[ty] = t /\ \A u \in Types : u # ty => schema'[u] = schema[u]
        /\ Stored' = Stored /\ items' = items /\ t # NoType
    BY <1>1, TrackerAssumption DEF PutItemType, TypeOK, Stored
  <2>2. SchemaValid'
    BY <1>1, <2>1 DEF SchemaValid, PutItemType
  <2>3. \A i \in Stored : items[i].type \in Types
    BY DEF TypeOK, Stored, Item
  <2>4. Conforms'
    BY <1>1, <2>1, <2>3 DEF Conforms, PutItemType
  <2> QED
    BY <2>2, <2>4
<1>2. ASSUME NEW ty \in Types, DeleteItemType(ty)
      PROVE  SchemaValid' /\ Conforms'
  BY <1>2 DEF DeleteItemType, SchemaValid, Conforms, Stored, TypeOK, Item
<1>3. ASSUME NEW i \in Items, NEW ty \in Types, NEW parent \in Items \cup {Nobody},
             NEW fields \in FieldMap, CreateItem(i, ty, parent, fields)
      PROVE  SchemaValid' /\ Conforms'
  <2> DEFINE item == NewRecord(ty, parent, fields)
  <2>1. /\ Stored' = Stored \cup {i} /\ schema' = schema
        /\ items'[i] = item /\ \A j \in Stored : items'[j] = items[j]
    BY <1>3, CreateEffect
  <2>2. /\ item.type = ty /\ item.status = schema[ty].initial
        /\ item.fields = ApplyDefaults(schema[ty], fields)
        /\ schema[ty] # NoType /\ ValidNew(schema[ty], fields)
    BY <1>3 DEF NewRecord, CreateItem
  <2> HIDE DEF item
  <2>3. ValidItem(schema[ty], item)
    BY <2>2, NewConforms DEF SchemaValid
  <2>4. SchemaValid'
    BY <2>1 DEF SchemaValid
  <2>5. Conforms'
    BY <2>1, <2>2, <2>3 DEF Conforms
  <2> QED
    BY <2>4, <2>5
<1>4. ASSUME NEW i \in Items, NEW e \in 1 .. MaxVersion, NEW p \in Patch, UpdateItem(i, e, p)
      PROVE  SchemaValid' /\ Conforms'
  <2> DEFINE next == ApplyPatch(items[i], p)
  <2>1. /\ i \in Stored /\ items[i] \in Item /\ Stored' = Stored /\ schema' = schema
        /\ items'[i] = next /\ \A j \in Stored : j # i => items'[j] = items[j]
    BY <1>4, UpdateEffect
  <2>2. next.type = items[i].type
    BY DEF ApplyPatch
  <2>3. schema[items[i].type] \in ItemType
    BY <1>4, <2>1 DEF UpdateItem, TypeOK, Item
  <2>4. ValidItem(schema[items[i].type], next)
    BY <1>4, <2>1, <2>3, PatchConforms DEF UpdateItem, Conforms
  <2> HIDE DEF next
  <2>5. Conforms'
    BY <2>1, <2>2, <2>4 DEF Conforms
  <2> QED
    BY <2>1, <2>5 DEF SchemaValid
<1>5. ASSUME NEW i \in Items, NEW e \in 1 .. MaxVersion, DeleteItem(i, e)
      PROVE  SchemaValid' /\ Conforms'
  BY <1>5, DeleteEffect DEF SchemaValid, Conforms
<1>6. CASE UNCHANGED vars
  BY <1>6 DEF vars, SchemaValid, Conforms, Stored
<1> QED
  BY <1>1, <1>2, <1>3, <1>4, <1>5, <1>6 DEF Next

(***************************************************************************)
(* The schema never contradicts its data.                                  *)
(***************************************************************************)
THEOREM TrackerConforms == Spec => []Conforms
<1>1. Init => TypeOK /\ SchemaValid /\ Conforms
  BY TypeInit, ConformsInit
<1>2. TypeOK /\ SchemaValid /\ Conforms /\ [Next]_vars
        => (TypeOK /\ SchemaValid /\ Conforms)'
  BY TypeStep, ConformsStep
<1> QED
  BY <1>1, <1>2, PTL DEF Spec

----------------------------------------------------------------------------
\* A new store declares no type.
LEMMA CatalogInit == Init => FromCatalog
  BY DEF Init, FromCatalog

\* A declared type is one that PutItemType was given.
LEMMA CatalogStep == TypeOK /\ FromCatalog /\ [Next]_vars => FromCatalog'
<1> SUFFICES ASSUME TypeOK, FromCatalog, [Next]_vars
             PROVE  FromCatalog'
  OBVIOUS
<1>1. ASSUME NEW ty \in Types, NEW t \in Catalog[ty], PutItemType(ty, t)
      PROVE  FromCatalog'
  BY <1>1 DEF PutItemType, FromCatalog, TypeOK
<1>2. ASSUME NEW ty \in Types, DeleteItemType(ty)
      PROVE  FromCatalog'
  BY <1>2 DEF DeleteItemType, FromCatalog, TypeOK
<1>3. CASE schema' = schema
  BY <1>3 DEF FromCatalog
<1> QED
  BY <1>1, <1>2, <1>3 DEF Next, CreateItem, UpdateItem, DeleteItem, vars

(***************************************************************************)
(* Under a stable catalog no change of the schema resolves or reopens a    *)
(* stored item.                                                            *)
(***************************************************************************)
LEMMA PutKeepsSettled ==
  ASSUME StableCatalog, TypeOK, FromCatalog, Conforms,
         NEW ty \in Types, NEW t \in Catalog[ty], PutItemType(ty, t), NEW i \in Stored
  PROVE  Settled(items[i])' <=> Settled(items[i])
<1>1. /\ schema'[ty] = t /\ \A u \in Types : u # ty => schema'[u] = schema[u]
      /\ items' = items /\ t # NoType
  BY TrackerAssumption DEF PutItemType, TypeOK
<1>2. items[i].type \in Types
  BY DEF TypeOK, Stored, Item
<1>3. CASE items[i].type # ty
  BY <1>1, <1>2, <1>3 DEF Settled
<1>4. CASE items[i].type = ty
  <2>1. items[i].status \in DOMAIN t.status
    BY <1>4 DEF PutItemType, ValidItem
  <2>2. schema[ty] # NoType /\ items[i].status \in DOMAIN schema[ty].status
    BY <1>4 DEF Conforms, ValidItem
  <2>3. schema[ty] \in Catalog[ty]
    BY <2>2 DEF FromCatalog
  <2>4. Resolved(t.status[items[i].status]) <=> Resolved(schema[ty].status[items[i].status])
    BY <2>1, <2>2, <2>3 DEF StableCatalog
  <2> QED
    BY <1>1, <1>4, <2>1, <2>2, <2>4 DEF Settled
<1> QED
  BY <1>3, <1>4

(***************************************************************************)
(* A write of an item keeps the gate on the links above and below it.      *)
(***************************************************************************)
LEMMA UpdateKeepsGate ==
  ASSUME TypeOK, Forest, GateAtEdge, NEW i \in Items, NEW e, NEW p \in Patch, UpdateItem(i, e, p)
  PROVE  GateAtEdge'
<1> DEFINE next == ApplyPatch(items[i], p)
<1>1. /\ i \in Stored /\ Stored' = Stored /\ schema' = schema /\ items'[i] = next
      /\ \A j \in Stored : j # i => items'[j] = items[j]
      /\ Up' = [Up EXCEPT ![i] = next.parent]
  BY UpdateEffect
<1>2. Forest'
  BY UpdateKeepsForest
<1>3. /\ next.type = items[i].type
      /\ next.status = IF p.status = Keep THEN items[i].status ELSE p.status
      /\ next.parent = IF p.clearParent THEN Nobody
                       ELSE IF p.parent = Keep THEN items[i].parent ELSE p.parent
      /\ (p.parent # Keep \/ p.clearParent) /\ next.parent # Nobody =>
            CheckAttach(i, next, next.parent)
      /\ p.status \notin {Keep, items[i].status} => CheckResolution(i, next)
  BY DEF UpdateItem, CheckStructure, ApplyPatch
<1>4. p.status \in {Keep, items[i].status} => (Settled(next) <=> Settled(items[i]))
  BY <1>3 DEF Settled
<1> HIDE DEF next
<1>5. next.parent # i
  <2> SUFFICES ASSUME next.parent = i
               PROVE  FALSE
    OBVIOUS
  <2> DEFINE up == Up'
  <2>1. DOMAIN up = Stored /\ up[i] = i
    BY <1>1 DEF Up
  <2>2. Acyclic(up)
    BY <1>2 DEF Forest, Acyclic, AncestorsOf, UpClosed
  <2> HIDE DEF up
  <2> QED
    BY <1>1, <2>1, <2>2, WalkStarts DEF Acyclic
<1> SUFFICES ASSUME NEW j \in Stored, items'[j].parent \in Stored, ~Settled(items'[j])
             PROVE  ~Settled(items'[items'[j].parent])
  BY <1>1 DEF GateAtEdge, Settled
<1>6. CASE j = i
  <2>1. items'[j] = next /\ items'[items'[j].parent] = items[next.parent] /\ next.parent \in Stored
    BY <1>1, <1>5, <1>6
  <2>2. next.parent # Nobody
    BY <2>1, TrackerAssumption DEF Stored
  <2>3. CASE p.status \notin {Keep, items[i].status}
    <3>1. CheckResolution(i, next)
      BY <1>3, <2>3
    <3>2. next.parent \in AncestorsOf(Up, next.parent)
      BY <2>1, WalkStarts DEF Up
    <3> QED
      BY <2>1, <2>2, <3>1, <3>2 DEF CheckResolution
  <2>4. CASE p.status \in {Keep, items[i].status} /\ (p.parent # Keep \/ p.clearParent)
    BY <1>3, <2>1, <2>2, <2>4 DEF CheckAttach
  <2>5. CASE p.status \in {Keep, items[i].status} /\ p.parent = Keep /\ ~p.clearParent
    BY <1>1, <1>3, <1>4, <2>1, <2>5 DEF GateAtEdge
  <2> QED
    BY <2>3, <2>4, <2>5
<1>7. CASE j # i /\ items[j].parent # i
  BY <1>1, <1>7 DEF GateAtEdge
<1>8. CASE j # i /\ items[j].parent = i
  <2>1. items'[j] = items[j] /\ items'[items'[j].parent] = next /\ ~Settled(items[j])
    BY <1>1, <1>8
  <2>2. CASE p.status \in {Keep, items[i].status}
    BY <1>1, <1>4, <1>8, <2>1, <2>2 DEF GateAtEdge
  <2>3. CASE p.status \notin {Keep, items[i].status}
    <3>1. j \in Below(Up, i)
      BY <1>1, <1>8, WalkStarts DEF Below, Up
    <3>2. UnresolvedBelow(i) # {}
      BY <2>1, <3>1 DEF UnresolvedBelow
    <3> QED
      BY <1>3, <2>1, <2>3, <3>2 DEF CheckResolution
  <2> QED
    BY <2>2, <2>3
<1> QED
  BY <1>6, <1>7, <1>8

\* A store without items has no link across the gate.
LEMMA GateInit == Init => GateAtEdge
  BY DEF Init, GateAtEdge, Stored

\* Every operation keeps the gate at every link, if the catalog is stable.
LEMMA GateStep ==
  ASSUME StableCatalog
  PROVE  TypeOK /\ Forest /\ FromCatalog /\ Conforms /\ GateAtEdge /\ [Next]_vars => GateAtEdge'
<1> SUFFICES ASSUME TypeOK, Forest, FromCatalog, Conforms, GateAtEdge, [Next]_vars
             PROVE  GateAtEdge'
  OBVIOUS
<1>1. ASSUME NEW ty \in Types, NEW t \in Catalog[ty], PutItemType(ty, t)
      PROVE  GateAtEdge'
  <2>1. items' = items /\ Stored' = Stored
    BY <1>1 DEF PutItemType, Stored
  <2>2. \A i \in Stored : Settled(items[i])' <=> Settled(items[i])
    BY <1>1, PutKeepsSettled
  <2> QED
    BY <2>1, <2>2 DEF GateAtEdge
<1>2. ASSUME NEW ty \in Types, DeleteItemType(ty)
      PROVE  GateAtEdge'
  <2>1. items' = items /\ Stored' = Stored
    BY <1>2 DEF DeleteItemType, Stored
  <2>2. \A i \in Stored : Settled(items[i])' <=> Settled(items[i])
    BY <1>2, <2>1 DEF DeleteItemType, TypeOK, Settled, Stored, Item
  <2> QED
    BY <2>1, <2>2 DEF GateAtEdge
<1>3. ASSUME NEW i \in Items, NEW ty \in Types, NEW parent \in Items \cup {Nobody},
             NEW fields \in FieldMap, CreateItem(i, ty, parent, fields)
      PROVE  GateAtEdge'
  <2> DEFINE item == NewRecord(ty, parent, fields)
  <2>1. /\ i \notin Stored /\ Stored' = Stored \cup {i} /\ schema' = schema
        /\ items'[i] = item /\ \A j \in Stored : items'[j] = items[j]
        /\ parent # Nobody => CheckAttach(i, item, parent)
    BY <1>3, CreateEffect
  <2>2. item.parent = parent
    BY DEF NewRecord
  <2> HIDE DEF item
  <2> SUFFICES ASSUME NEW j \in Stored', items'[j].parent \in Stored', ~Settled(items'[j])
               PROVE  ~Settled(items'[items'[j].parent])
    BY <2>1 DEF GateAtEdge, Settled
  <2>3. CASE j = i
    <3>1. items'[j] = item /\ parent \in Items /\ parent # Nobody
      BY <2>1, <2>2, <2>3, TrackerAssumption DEF Stored
    <3> QED
      BY <2>1, <2>2, <2>3, <3>1 DEF CheckAttach
  <2>4. CASE j # i
    <3>1. j \in Stored /\ items'[j] = items[j] /\ items[j].parent \in Stored
      BY <2>1, <2>4, TrackerAssumption DEF Forest
    <3> QED
      BY <2>1, <3>1 DEF GateAtEdge
  <2> QED
    BY <2>3, <2>4
<1>4. ASSUME NEW i \in Items, NEW e \in 1 .. MaxVersion, DeleteItem(i, e)
      PROVE  GateAtEdge'
  BY <1>4, DeleteEffect DEF GateAtEdge, Settled
<1>5. CASE UNCHANGED vars
  BY <1>5 DEF vars, GateAtEdge, Settled, Stored
<1> QED
  BY <1>1, <1>2, <1>3, <1>4, <1>5, UpdateKeepsGate DEF Next

(***************************************************************************)
(* The edge form of the gate, with the forest, is the gate at any depth:   *)
(* the unresolved items are closed under parents, so the walk up from one  *)
(* meets no resolved item.                                                 *)
(***************************************************************************)
LEMMA EdgesMakeTheGate == Forest /\ GateAtEdge => SettledBelow
<1> SUFFICES ASSUME Forest, GateAtEdge, NEW i \in Stored, Settled(items[i]), NEW j \in Below(Up, i)
             PROVE  Settled(items[j])
  BY DEF SettledBelow, UnresolvedBelow
<1> DEFINE S == {k \in Stored : ~Settled(items[k])}
<1>1. DOMAIN Up = Stored /\ S \in SUBSET DOMAIN Up /\ i \in DOMAIN Up \ S
  BY DEF Up
<1>2. UpClosed(Up, S)
  BY <1>1 DEF UpClosed, GateAtEdge, Up
<1>3. j \notin S /\ j \in Stored
  BY <1>1, <1>2, ClosedReachesDeep DEF Below
<1> QED
  BY <1>3

(***************************************************************************)
(* The resolution gate holds at every depth, in every reachable state, as  *)
(* long as no redefinition of a type moves a status across it.             *)
(***************************************************************************)
THEOREM TrackerGate ==
  ASSUME StableCatalog
  PROVE  Spec => []SettledBelow
<1> DEFINE Inv == TypeOK /\ Forest /\ FromCatalog /\ SchemaValid /\ Conforms /\ GateAtEdge
<1>1. Init => Inv
  BY TypeInit, ForestInit, CatalogInit, ConformsInit, GateInit
<1>2. Inv /\ [Next]_vars => Inv'
  BY TypeStep, ForestStep, CatalogStep, ConformsStep, GateStep
<1>3. Inv => SettledBelow
  BY EdgesMakeTheGate
<1> HIDE DEF Inv
<1> QED
  BY <1>1, <1>2, <1>3, PTL DEF Spec
=============================================================================
