-------------------------- MODULE DiscussionProofs --------------------------
(***************************************************************************)
(* What Discussion promises of comments and links and of what the feed     *)
(* tells, for any number of items, comments, editors and kinds of links.   *)
(***************************************************************************)
EXTENDS Discussion, FiniteSetTheorems, SequenceTheorems, TLAPS

\* Nothing was ever posted as a reply to a comment that was not there.
Rooted ==
  \A c \in Comments :
    Live(comments[c]) /\ comments[c].replyTo # NoReply => comments[comments[c].replyTo] # Unborn

\* A copy is of a comment that was there; it is behind what is stored, or
\* shows it.
Faithful ==
  \A e \in Editors : copy[e] # NoCopy =>
    LET c == comments[copy[e].comment]
    IN  /\ c # Unborn
        /\ Live(c) => /\ copy[e].version <= c.version
                      /\ copy[e].version = c.version => copy[e].text = c.text

IInv == TypeOK /\ Rooted /\ Threads /\ LinkedOnce /\ Faithful

----------------------------------------------------------------------------
(* What an operation emits *)

\* The events of an operation are of an item.
LEMMA EmitTyped ==
  ASSUME TypeOK, NEW news, Len(news) \in Nat,
         \A n \in DOMAIN news : news[n].item \in Items, Emit(news)
  PROVE  untold' \subseteq Items /\ seq' \in Nat
<1>1. seq' = seq + Len(news)
  BY DEF Emit
<1>2. PICK kept : untold' = untold \cup {news[n].item : n \in DOMAIN news \ {kept[a] : a \in DOMAIN kept}}
  BY DEF Emit
<1> QED BY <1>1, <1>2 DEF TypeOK

\* One event about an item leaves what is untold, and the count, well typed.
LEMMA EventTyped ==
  ASSUME TypeOK, NEW i \in Items, NEW kind, Emit(Event(i, kind))
  PROVE  untold' \subseteq Items /\ seq' \in Nat
<1>1. Len(Event(i, kind)) = 1 /\ \A n \in DOMAIN Event(i, kind) : Event(i, kind)[n].item = i
  BY DEF Event
<1> QED BY <1>1, EmitTyped

\* What is told of one group of keys is one event or none.
LEMMA ChangedTyped ==
  ASSUME NEW i, NEW kind, NEW changes
  PROVE  Changed(i, kind, changes) \in Seq({[item |-> i, kind |-> kind, changes |-> changes]})
<1> DEFINE e == [item |-> i, kind |-> kind, changes |-> changes]
<1>1. Changed(i, kind, changes) \in {<< >>, << e >>}
  BY DEF Changed
<1> HIDE DEF e
<1>2. << >> \in Seq({e}) /\ << e >> \in Seq({e})
  OBVIOUS
<1>3. Changed(i, kind, changes) \in Seq({e})
  BY <1>1, <1>2
<1> QED BY <1>3 DEF e

\* A sequence over a set is one over any larger set.
LEMMA WiderSeq ==
  ASSUME NEW S, NEW U, S \subseteq U, NEW s \in Seq(S)
  PROVE  s \in Seq(U)
OBVIOUS

\* So does what an update tells.
LEMMA EmitChangesTyped ==
  ASSUME TypeOK, NEW i \in Items, NEW before, NEW after, Emit(EmitChanges(i, before, after))
  PROVE  untold' \subseteq Items /\ seq' \in Nat
<1> DEFINE R(kind, K) == [item |-> i, kind |-> kind, changes |-> Diff(before, after, K)]
           C(kind, K) == Changed(i, kind, Diff(before, after, K))
           U == {R("status_changed", {"status"}), R("parent_changed", {"parent"}),
                 R("item_updated", Parts)}
<1>1. C("status_changed", {"status"}) \in Seq({R("status_changed", {"status"})})
  BY ChangedTyped
<1>2. C("parent_changed", {"parent"}) \in Seq({R("parent_changed", {"parent"})})
  BY ChangedTyped
<1>3. C("item_updated", Parts) \in Seq({R("item_updated", Parts)})
  BY ChangedTyped
<1>4. \A u \in U : u.item = i
  OBVIOUS
<1>5. EmitChanges(i, before, after) =
        C("status_changed", {"status"}) \o C("parent_changed", {"parent"}) \o C("item_updated", Parts)
  BY DEF EmitChanges
<1> HIDE DEF C, R
<1>6. /\ C("status_changed", {"status"}) \in Seq(U)
      /\ C("parent_changed", {"parent"}) \in Seq(U)
      /\ C("item_updated", Parts) \in Seq(U)
  BY <1>1, <1>2, <1>3, WiderSeq
<1> HIDE DEF U
<1>7. EmitChanges(i, before, after) \in Seq(U)
  BY <1>5, <1>6
<1> QED BY <1>4, <1>7, EmitTyped
----------------------------------------------------------------------------
(* What is left of a sequence when one element is taken out *)

\* Element n taken out: what comes before it stays, what comes after moves up.
LEMMA TakenOut ==
  ASSUME NEW S, NEW s \in Seq(S), NEW n \in 1..Len(s)
  PROVE  LET r == SubSeq(s, 1, n - 1) \o SubSeq(s, n + 1, Len(s))
         IN  /\ r \in Seq(S) /\ DOMAIN r = 1..(Len(s) - 1)
             /\ \A m \in 1..(Len(s) - 1) : r[m] = IF m < n THEN s[m] ELSE s[m + 1]
<1> DEFINE a == SubSeq(s, 1, n - 1)
           b == SubSeq(s, n + 1, Len(s))
           l == Len(s)
           r == a \o b
<1>1. a \in Seq(S) /\ Len(a) = n - 1 /\ \A m \in 1..(n - 1) : a[m] = s[m]
  OBVIOUS
<1>2. b \in Seq(S) /\ Len(b) = l - n /\ \A m \in 1..(l - n) : b[m] = s[m + n]
  OBVIOUS
<1>3. l \in Int /\ n \in Int /\ 1 <= n /\ n <= l
  OBVIOUS
<1> HIDE DEF a, b, l
<1>4. /\ r \in Seq(S) /\ DOMAIN r = 1..(n - 1 + (l - n))
      /\ \A m \in 1..(n - 1) : r[m] = a[m]
      /\ \A m \in 1..(l - n) : r[n - 1 + m] = b[m]
  <2>1. n - 1 \in Int /\ l - n \in Int
    BY <1>3
  <2>2. a \in Seq(S) /\ Len(a) = n - 1 /\ b \in Seq(S) /\ Len(b) = l - n
    BY <1>1, <1>2
  <2> DEFINE k == n - 1
             j == l - n
  <2> HIDE DEF k, j
  <2>3. /\ a \o b \in Seq(S) /\ DOMAIN (a \o b) = 1..(k + j)
        /\ \A m \in 1..k : (a \o b)[m] = a[m]
        /\ \A m \in 1..j : (a \o b)[k + m] = b[m]
    <3>1. k \in Int /\ j \in Int /\ Len(a) = k /\ Len(b) = j
      BY <2>1, <2>2 DEF k, j
    <3> QED BY <3>1, <2>2, SMT
  <2> QED BY <2>3 DEF k, j
<1> HIDE DEF r
<1>5. DOMAIN r = 1..(l - 1)
  <2>1. n - 1 + (l - n) = l - 1
    BY <1>3
  <2> QED BY <1>4, <2>1, Zenon
<1>6. \A m \in n..(l - 1) : r[m] = s[m + 1]
  <2> SUFFICES ASSUME NEW m \in n..(l - 1) PROVE r[m] = s[m + 1]
    OBVIOUS
  <2> DEFINE k == m - (n - 1)
  <2>1. k \in 1..(l - n) /\ n - 1 + k = m /\ k + n = m + 1
    BY <1>3
  <2> HIDE DEF k
  <2>2. r[n - 1 + k] = b[k] /\ b[k] = s[k + n]
    BY <1>2, <1>4, <2>1, Zenon
  <2> QED BY <2>1, <2>2, Zenon
<1>7. \A m \in 1..(l - 1) : r[m] = IF m < n THEN s[m] ELSE s[m + 1]
  BY <1>1, <1>3, <1>4, <1>6
<1> QED BY <1>4, <1>5, <1>7 DEF a, b, l, r

----------------------------------------------------------------------------
(* Comments *)

\* What is stored is neither unborn nor gone.
LEMMA SentinelsAreDistinct ==
  /\ \A it \in Item : Live(it)
  /\ \A m \in Comment : Live(m)
  /\ ~Live(Unborn) /\ ~Live(Gone)
BY DiscussionAssumption DEF Live

\* The parts of a comment.
LEMMA CommentFields ==
  ASSUME NEW m \in Comment
  PROVE  /\ m.item \in Items /\ m.replyTo \in Comments \cup {NoReply} /\ m.text \in Texts
         /\ m.version \in Nat \ {0}
BY DEF Comment

\* The parts of a copy.
LEMMA CopyFields ==
  ASSUME NEW k \in Copy
  PROVE  k.comment \in Comments /\ k.text \in Texts /\ k.version \in Nat \ {0}
BY DEF Copy

\* An edit changes the text and raises the version, nothing else.
LEMMA EditKeeps ==
  ASSUME NEW m \in Comment, NEW text \in Texts
  PROVE  /\ Edited(m, text) \in Comment
         /\ Edited(m, text).item = m.item /\ Edited(m, text).replyTo = m.replyTo
         /\ Edited(m, text).text = text /\ Edited(m, text).version = m.version + 1
BY DEF Edited, Comment

\* A comment that is there is a comment.
LEMMA LiveComment ==
  ASSUME TypeOK, NEW c \in Comments, Live(comments[c])
  PROVE  comments[c] \in Comment
BY DEF TypeOK, Live

\* What an editor holds is a copy.
LEMMA HeldCopy ==
  ASSUME TypeOK, NEW e \in Editors, copy[e] # NoCopy
  PROVE  copy[e] \in Copy
BY DEF TypeOK

\* The ends of a stored link are items.
LEMMA LinkEnds ==
  ASSUME TypeOK, NEW n \in DOMAIN links
  PROVE  links[n] \in Link /\ links[n].from \in Items /\ links[n].to \in Items
<1>1. links[n] \in Link
  BY DEF TypeOK
<1> QED BY <1>1 DEF Link

----------------------------------------------------------------------------
(* Each part of the invariant, by who can disturb it *)

\* An empty store satisfies the invariant.
LEMMA InitInv == Init => IInv
<1> SUFFICES ASSUME Init PROVE IInv
  OBVIOUS
<1>1. TypeOK
  BY SentinelsAreDistinct DEF Init, FeedInit, TypeOK
<1>2. Rooted /\ Threads
  BY SentinelsAreDistinct DEF Init, Rooted, Threads
<1>3. LinkedOnce
  BY DEF Init, LinkedOnce
<1>4. Faithful
  BY DEF Init, Faithful
<1> QED BY <1>1, <1>2, <1>3, <1>4 DEF IInv

\* No operation leaves the declared shape.
LEMMA TypeStep == ASSUME TypeOK, Next PROVE TypeOK'
<1> DEFINE Stays == \A i \in Items : items[i] # Unborn => items'[i] # Unborn
           Emitted == untold' \subseteq Items /\ seq' \in Nat
           Rest == UNCHANGED << comments, links, copy >>
<1>1. ASSUME NEW i \in Items, NEW it \in Item, CreateItem(i, it) \/ UpdateItem(i, it)
      PROVE  TypeOK'
  <2>1. items' \in [Items -> Item \cup {Unborn, Gone}] /\ Stays /\ Rest
    BY <1>1, SentinelsAreDistinct DEF CreateItem, UpdateItem, TypeOK, Live
  <2>2. Emitted
    BY <1>1, EventTyped, EmitChangesTyped DEF CreateItem, UpdateItem
  <2>3. \A c \in Comments : Live(comments[c]) => items'[comments[c].item] # Unborn
    BY <2>1, LiveComment, CommentFields DEF TypeOK
  <2>4. \A n \in DOMAIN links : Unborn \notin {items'[links[n].from], items'[links[n].to]}
    BY <2>1, LinkEnds DEF TypeOK
  <2> QED BY <2>1, <2>2, <2>3, <2>4 DEF TypeOK, Live
<1>2. ASSUME NEW i \in Items, ReorderItem(i)
      PROVE  TypeOK'
  <2>1. Emitted /\ items' = items /\ Rest
    BY <1>2, EventTyped DEF ReorderItem
  <2> QED BY <2>1 DEF TypeOK, Live
<1>3. ASSUME NEW i \in Items, DeleteItem(i)
      PROVE  TypeOK'
  <2>1. items' \in [Items -> Item \cup {Unborn, Gone}] /\ Stays /\ Rest
    BY <1>3, DiscussionAssumption DEF DeleteItem, TypeOK
  <2>2. Emitted
    BY <1>3, EventTyped DEF DeleteItem
  <2>3. \A c \in Comments : Live(comments[c]) => items'[comments[c].item] # Unborn
    BY <2>1, LiveComment, CommentFields DEF TypeOK
  <2>4. \A n \in DOMAIN links : Unborn \notin {items'[links[n].from], items'[links[n].to]}
    BY <2>1, LinkEnds DEF TypeOK
  <2> QED BY <2>1, <2>2, <2>3, <2>4 DEF TypeOK, Live
<1>4. ASSUME NEW e \in Editors, NEW c \in Comments, Look(e, c)
      PROVE  TypeOK'
  <2>1. comments[c] \in Comment
    BY <1>4, LiveComment DEF Look
  <2>2. [comment |-> c, text |-> comments[c].text, version |-> comments[c].version] \in Copy
    BY <2>1, CommentFields DEF Copy
  <2> QED BY <1>4, <2>2 DEF TypeOK, Look, Live, log
<1>5. ASSUME NEW e \in Editors, NEW c \in Comments, NEW i \in Items,
             NEW r \in Comments \cup {NoReply}, NEW t \in Texts, AddComment(e, c, i, r, t)
      PROVE  TypeOK'
  <2> DEFINE m == [item |-> i, replyTo |-> r, text |-> t, version |-> 1]
             k == [comment |-> c, text |-> t, version |-> 1]
  <2>1. m \in Comment /\ k \in Copy /\ m.item = i
    BY DEF Comment, Copy
  <2>2. comments' = [comments EXCEPT ![c] = m] /\ copy' = [copy EXCEPT ![e] = k]
        /\ items' = items /\ links' = links
    BY <1>5 DEF AddComment
  <2>3. Emitted
    BY <1>5, EventTyped DEF AddComment
  <2>4. items[i] # Unborn
    BY <1>5, SentinelsAreDistinct DEF AddComment, Load
  <2> HIDE DEF m, k
  <2> QED BY <2>1, <2>2, <2>3, <2>4 DEF TypeOK, Live
<1>6. ASSUME NEW e \in Editors, NEW t \in Texts, EditComment(e, t)
      PROVE  TypeOK'
  <2> DEFINE c == copy[e].comment
             m == Edited(comments[c], t)
             k == [comment |-> c, text |-> t, version |-> m.version]
  <2>1. c \in Comments /\ Live(comments[c])
    BY <1>6, HeldCopy, CopyFields DEF EditComment, Expected
  <2>2. m \in Comment /\ m.item = comments[c].item
    BY <2>1, LiveComment, EditKeeps
  <2>3. k \in Copy
    BY <2>1, <2>2, CommentFields DEF Copy
  <2>4. comments' = [comments EXCEPT ![c] = m] /\ copy' = [copy EXCEPT ![e] = k]
        /\ items' = items /\ links' = links
    BY <1>6 DEF EditComment
  <2>5. Emitted
    BY <1>6, <2>1, LiveComment, CommentFields, EventTyped DEF EditComment
  <2> HIDE DEF c, m, k
  <2> QED BY <2>1, <2>2, <2>3, <2>4, <2>5 DEF TypeOK, Live
<1>7. ASSUME NEW e \in Editors, DeleteComment(e)
      PROVE  TypeOK'
  <2> DEFINE c == copy[e].comment
  <2>1. c \in Comments /\ Live(comments[c])
    BY <1>7, HeldCopy, CopyFields DEF DeleteComment, Expected
  <2>2. comments' = [comments EXCEPT ![c] = Gone] /\ copy' = [copy EXCEPT ![e] = NoCopy]
        /\ items' = items /\ links' = links
    BY <1>7 DEF DeleteComment
  <2>3. Emitted
    BY <1>7, <2>1, LiveComment, CommentFields, EventTyped DEF DeleteComment
  <2> HIDE DEF c
  <2> QED BY <2>1, <2>2, <2>3 DEF TypeOK, Live
<1>8. ASSUME NEW l \in Link, AddLink(l)
      PROVE  TypeOK'
  <2>1. links' = Append(links, l) /\ items' = items /\ comments' = comments /\ copy' = copy
    BY <1>8 DEF AddLink
  <2>2. Emitted
    BY <1>8, EventTyped DEF AddLink, Link
  <2>3. Unborn \notin {items[l.from], items[l.to]}
    BY <1>8, SentinelsAreDistinct DEF AddLink, Load
  <2>4. links' \in Seq(Link)
        /\ \A n \in DOMAIN links' : Unborn \notin {items[links'[n].from], items[links'[n].to]}
    BY <2>1, <2>3 DEF TypeOK
  <2> QED BY <2>1, <2>2, <2>4 DEF TypeOK, Live
<1>9. ASSUME NEW l \in Link, RemoveLink(l)
      PROVE  TypeOK'
  <2>1. PICK n \in DOMAIN links :
          /\ links' = SubSeq(links, 1, n - 1) \o SubSeq(links, n + 1, Len(links))
          /\ Emit(Event(links[n].from, "link_removed"))
          /\ items' = items /\ comments' = comments /\ copy' = copy
    BY <1>9 DEF RemoveLink
  <2>2. links \in Seq(Link) /\ links[n] \in Link
    BY DEF TypeOK
  <2>3. Emitted
    BY <2>1, <2>2, EventTyped DEF Link
  <2>4. links' \in Seq(Link)
        /\ \A m \in DOMAIN links' : links'[m] \in {links[k] : k \in DOMAIN links}
    BY <2>1, <2>2, TakenOut
  <2>5. \A m \in DOMAIN links' : Unborn \notin {items[links'[m].from], items[links'[m].to]}
    BY <2>4 DEF TypeOK
  <2> QED BY <2>1, <2>3, <2>4, <2>5 DEF TypeOK, Live
<1> QED BY <1>1, <1>2, <1>3, <1>4, <1>5, <1>6, <1>7, <1>8, <1>9 DEF Next

\* An identifier is minted before it is replied to.
LEMMA RootedStep == ASSUME TypeOK, Rooted, Next PROVE Rooted'
<1>1. CASE UNCHANGED comments
  BY <1>1 DEF Rooted, Live
<1>2. ASSUME NEW e \in Editors, NEW c \in Comments, NEW i \in Items,
             NEW r \in Comments \cup {NoReply}, NEW t \in Texts, AddComment(e, c, i, r, t)
      PROVE  Rooted'
  <2> DEFINE m == [item |-> i, replyTo |-> r, text |-> t, version |-> 1]
  <2>1. comments' = [comments EXCEPT ![c] = m]
    BY <1>2 DEF AddComment
  <2>2. m.replyTo = r /\ m \in Comment /\ m # Unborn
    BY SentinelsAreDistinct DEF Comment, Live
  <2>3. r # NoReply => comments[r] # Unborn
    BY <1>2, SentinelsAreDistinct DEF AddComment, CheckReplyTo
  <2> HIDE DEF m
  <2> QED BY <2>1, <2>2, <2>3, LiveComment, CommentFields DEF Rooted, TypeOK, Live
<1>3. ASSUME NEW e \in Editors, NEW t \in Texts, EditComment(e, t)
      PROVE  Rooted'
  <2> DEFINE c == copy[e].comment
             m == Edited(comments[c], t)
  <2>1. c \in Comments /\ Live(comments[c]) /\ comments' = [comments EXCEPT ![c] = m]
    BY <1>3, HeldCopy, CopyFields DEF EditComment, Expected
  <2>2. m \in Comment /\ m.replyTo = comments[c].replyTo /\ m # Unborn
    BY <2>1, LiveComment, EditKeeps, SentinelsAreDistinct DEF Live
  <2> HIDE DEF c, m
  <2> QED BY <2>1, <2>2, LiveComment, CommentFields DEF Rooted, TypeOK, Live
<1>4. ASSUME NEW e \in Editors, DeleteComment(e)
      PROVE  Rooted'
  <2> DEFINE c == copy[e].comment
  <2>1. c \in Comments /\ comments' = [comments EXCEPT ![c] = Gone]
    BY <1>4, HeldCopy, CopyFields DEF DeleteComment
  <2> HIDE DEF c
  <2> QED BY <2>1, LiveComment, CommentFields, SentinelsAreDistinct, DiscussionAssumption
          DEF Rooted, TypeOK, Live
<1> QED BY <1>1, <1>2, <1>3, <1>4
        DEF Next, CreateItem, UpdateItem, ReorderItem, DeleteItem, Look, AddLink, RemoveLink

\* checkReplyTo keeps threads flat: nobody replied to a comment before it was there.
LEMMA ThreadsStep == ASSUME TypeOK, Rooted, Threads, Next PROVE Threads'
<1>1. CASE UNCHANGED comments
  BY <1>1 DEF Threads, Live
<1>2. ASSUME NEW e \in Editors, NEW c \in Comments, NEW i \in Items,
             NEW r \in Comments \cup {NoReply}, NEW t \in Texts, AddComment(e, c, i, r, t)
      PROVE  Threads'
  <2> DEFINE m == [item |-> i, replyTo |-> r, text |-> t, version |-> 1]
  <2>1. comments' = [comments EXCEPT ![c] = m] /\ comments[c] = Unborn
    BY <1>2 DEF AddComment
  <2>2. m.replyTo = r /\ m.item = i
    OBVIOUS
  <2>3. r # NoReply => Live(comments[r]) /\ comments[r].item = i /\ comments[r].replyTo = NoReply
    BY <1>2 DEF AddComment, CheckReplyTo
  <2> HIDE DEF m
  <2>4. \A d \in Comments : Live(comments[d]) => comments[d].replyTo # c
    BY <2>1, LiveComment, CommentFields, DiscussionAssumption DEF Rooted
  <2>5. r # c
    BY <2>1, <2>3, SentinelsAreDistinct, DiscussionAssumption
  <2> QED BY <2>1, <2>2, <2>3, <2>4, <2>5, LiveComment, CommentFields DEF Threads, TypeOK, Live
<1>3. ASSUME NEW e \in Editors, NEW t \in Texts, EditComment(e, t)
      PROVE  Threads'
  <2> DEFINE c == copy[e].comment
             m == Edited(comments[c], t)
  <2>1. c \in Comments /\ Live(comments[c]) /\ comments' = [comments EXCEPT ![c] = m]
    BY <1>3, HeldCopy, CopyFields DEF EditComment, Expected
  <2>2. m.replyTo = comments[c].replyTo /\ m.item = comments[c].item
    BY <2>1, LiveComment, EditKeeps
  <2> HIDE DEF c, m
  <2>3. \A d \in Comments : /\ Live(comments'[d]) => Live(comments[d])
                            /\ comments'[d].replyTo = comments[d].replyTo
                            /\ comments'[d].item = comments[d].item
    BY <2>1, <2>2 DEF TypeOK
  <2>4. \A d \in Comments : Live(comments[d]) => comments[d].replyTo \in Comments \cup {NoReply}
    BY LiveComment, CommentFields
  <2> QED BY <2>3, <2>4 DEF Threads
<1>4. ASSUME NEW e \in Editors, DeleteComment(e)
      PROVE  Threads'
  <2> DEFINE c == copy[e].comment
  <2>1. c \in Comments /\ comments' = [comments EXCEPT ![c] = Gone]
    BY <1>4, HeldCopy, CopyFields DEF DeleteComment
  <2> HIDE DEF c
  <2>2. \A d \in Comments : Live(comments'[d]) => comments'[d] = comments[d]
    BY <2>1, SentinelsAreDistinct DEF TypeOK
  <2>3. \A d \in Comments : Live(comments[d]) => comments[d].replyTo \in Comments \cup {NoReply}
    BY LiveComment, CommentFields
  <2> QED BY <2>2, <2>3 DEF Threads
<1> QED BY <1>1, <1>2, <1>3, <1>4
        DEF Next, CreateItem, UpdateItem, ReorderItem, DeleteItem, Look, AddLink, RemoveLink

\* AddLink looks for the three parts of its link first; RemoveLink moves links, but makes none.
LEMMA LinkedOnceStep == ASSUME TypeOK, LinkedOnce, Next PROVE LinkedOnce'
<1>1. CASE UNCHANGED links
  BY <1>1 DEF LinkedOnce
<1>2. ASSUME NEW l \in Link, AddLink(l)
      PROVE  LinkedOnce'
  <2>1. /\ links' = Append(links, l) /\ l.from # l.to
        /\ \A n \in DOMAIN links : << links[n].from, links[n].kind, links[n].to >> # << l.from, l.kind, l.to >>
    BY <1>2 DEF AddLink, SameLink
  <2>2. /\ DOMAIN links' = 1..(Len(links) + 1) /\ DOMAIN links = 1..Len(links)
        /\ \A n \in DOMAIN links' : links'[n] = IF n \in DOMAIN links THEN links[n] ELSE l
    BY <2>1 DEF TypeOK
  <2>3. Len(links) \in Nat
    BY DEF TypeOK
  <2> QED BY <2>1, <2>2, <2>3 DEF LinkedOnce
<1>3. ASSUME NEW l \in Link, RemoveLink(l)
      PROVE  LinkedOnce'
  <2>1. PICK n \in DOMAIN links : links' = SubSeq(links, 1, n - 1) \o SubSeq(links, n + 1, Len(links))
    BY <1>3 DEF RemoveLink
  <2>2. links \in Seq(Link) /\ n \in 1..Len(links)
    BY DEF TypeOK
  <2> DEFINE was(m) == IF m < n THEN m ELSE m + 1
  <2>3. DOMAIN links' = 1..(Len(links) - 1) /\ \A m \in DOMAIN links' : links'[m] = links[was(m)]
    BY <2>1, <2>2, TakenOut
  <2>4. \A m \in DOMAIN links' : was(m) \in DOMAIN links
    BY <2>2, <2>3
  <2>5. \A m, k \in DOMAIN links' : m # k => was(m) # was(k)
    BY <2>2, <2>3
  <2> HIDE DEF was
  <2> QED BY <2>3, <2>4, <2>5 DEF LinkedOnce
<1> QED BY <1>1, <1>2, <1>3
        DEF Next, CreateItem, UpdateItem, ReorderItem, DeleteItem, Look, AddComment, EditComment,
            DeleteComment

\* A comment only changes with its version.
LEMMA FaithfulStep == ASSUME TypeOK, Faithful, Next PROVE Faithful'
<1>1. CASE UNCHANGED << comments, copy >>
  BY <1>1 DEF Faithful, Live
<1>2. ASSUME NEW e \in Editors, NEW c \in Comments, Look(e, c)
      PROVE  Faithful'
  <2> DEFINE k == [comment |-> c, text |-> comments[c].text, version |-> comments[c].version]
  <2>1. /\ copy' = [copy EXCEPT ![e] = k] /\ comments' = comments /\ Live(comments[c])
        /\ comments[c] # Unborn /\ comments[c].version \in Nat
    BY <1>2, LiveComment, CommentFields, SentinelsAreDistinct DEF Look
  <2>2. k.comment = c /\ k.text = comments[c].text /\ k.version = comments[c].version
    OBVIOUS
  <2> HIDE DEF k
  <2>3. ASSUME NEW f \in Editors, copy'[f] # NoCopy
        PROVE  LET d == comments[copy'[f].comment]
               IN  /\ d # Unborn
                   /\ Live(d) => /\ copy'[f].version <= d.version
                                 /\ copy'[f].version = d.version => copy'[f].text = d.text
    <3>1. CASE f = e
      BY <2>1, <2>2, <3>1 DEF TypeOK
    <3>2. CASE f # e
      BY <2>1, <2>3, <3>2 DEF TypeOK, Faithful
    <3> QED BY <3>1, <3>2
  <2> QED BY <2>1, <2>3 DEF Faithful, Live
<1>3. ASSUME NEW e \in Editors, NEW c \in Comments, NEW i \in Items,
             NEW r \in Comments \cup {NoReply}, NEW t \in Texts, AddComment(e, c, i, r, t)
      PROVE  Faithful'
  <2> DEFINE m == [item |-> i, replyTo |-> r, text |-> t, version |-> 1]
             k == [comment |-> c, text |-> t, version |-> 1]
  <2>1. comments' = [comments EXCEPT ![c] = m] /\ comments[c] = Unborn
        /\ copy' = [copy EXCEPT ![e] = k]
    BY <1>3 DEF AddComment
  <2>2. /\ m \in Comment /\ m.version = 1 /\ m.text = t /\ m # Unborn
        /\ k.comment = c /\ k.version = 1 /\ k.text = t
    BY SentinelsAreDistinct DEF Comment, Live
  <2> HIDE DEF m, k
  <2>3. \A f \in Editors : copy[f] # NoCopy => copy[f].comment \in Comments \ {c}
    BY <2>1, HeldCopy, CopyFields DEF Faithful
  <2>4. \A f \in Editors : f # e => copy'[f] = copy[f]
    BY <2>1 DEF TypeOK
  <2>5. copy'[e] = k /\ comments'[c] = m /\ \A d \in Comments \ {c} : comments'[d] = comments[d]
    BY <2>1 DEF TypeOK
  <2> QED BY <2>2, <2>3, <2>4, <2>5 DEF Faithful, Live
<1>4. ASSUME NEW e \in Editors, NEW t \in Texts, EditComment(e, t)
      PROVE  Faithful'
  <2> DEFINE c == copy[e].comment
             m == Edited(comments[c], t)
             k == [comment |-> c, text |-> t, version |-> m.version]
  <2>1. c \in Comments /\ Live(comments[c]) /\ comments' = [comments EXCEPT ![c] = m]
        /\ copy' = [copy EXCEPT ![e] = k]
    BY <1>4, HeldCopy, CopyFields DEF EditComment, Expected
  <2>2. /\ m \in Comment /\ m # Unborn /\ m.text = t /\ m.version = comments[c].version + 1
        /\ comments[c].version \in Nat
    BY <2>1, LiveComment, CommentFields, EditKeeps, SentinelsAreDistinct DEF Live
  <2>3. k.comment = c /\ k.text = t /\ k.version = m.version /\ m.version \in Nat
    BY <2>2
  <2> HIDE DEF c, m, k
  <2>4. \A f \in Editors : f # e => copy'[f] = copy[f]
    BY <2>1 DEF TypeOK
  <2>5. copy'[e] = k /\ comments'[c] = m /\ \A d \in Comments \ {c} : comments'[d] = comments[d]
    BY <2>1 DEF TypeOK
  <2>6. ASSUME NEW f \in Editors, copy'[f] # NoCopy
        PROVE  LET d == comments'[copy'[f].comment]
               IN  /\ d # Unborn
                   /\ Live(d) => /\ copy'[f].version <= d.version
                                 /\ copy'[f].version = d.version => copy'[f].text = d.text
    <3>1. CASE f = e
      BY <2>2, <2>3, <2>5, <3>1
    <3>2. CASE f # e /\ copy[f].comment = c
      <4>1. copy'[f] = copy[f] /\ copy[f].version \in Nat /\ copy[f].version <= comments[c].version
        BY <2>1, <2>4, <2>6, <3>2, HeldCopy, CopyFields DEF Faithful
      <4> QED BY <2>2, <2>5, <3>2, <4>1
    <3>3. CASE f # e /\ copy[f].comment # c
      BY <2>4, <2>5, <2>6, <3>3, HeldCopy, CopyFields DEF Faithful
    <3> QED BY <3>1, <3>2, <3>3
  <2> QED BY <2>6 DEF Faithful, Live
<1>5. ASSUME NEW e \in Editors, DeleteComment(e)
      PROVE  Faithful'
  <2> DEFINE c == copy[e].comment
  <2>1. c \in Comments /\ comments' = [comments EXCEPT ![c] = Gone] /\ copy' = [copy EXCEPT ![e] = NoCopy]
    BY <1>5, HeldCopy, CopyFields DEF DeleteComment
  <2> HIDE DEF c
  <2>2. \A f \in Editors : copy'[f] # NoCopy => copy'[f] = copy[f]
    BY <2>1 DEF TypeOK
  <2>3. comments'[c] = Gone /\ \A d \in Comments \ {c} : comments'[d] = comments[d]
    BY <2>1 DEF TypeOK
  <2> QED BY <2>2, <2>3, HeldCopy, CopyFields, SentinelsAreDistinct, DiscussionAssumption
          DEF Faithful, Live
<1> QED BY <1>1, <1>2, <1>3, <1>4, <1>5
        DEF Next, CreateItem, UpdateItem, ReorderItem, DeleteItem, AddLink, RemoveLink

----------------------------------------------------------------------------

\* Every step keeps the invariant.
LEMMA InvStep == IInv /\ [Next]_vars => IInv'
<1> SUFFICES ASSUME IInv, [Next]_vars PROVE IInv'
  OBVIOUS
<1>1. CASE Next
  BY <1>1, TypeStep, RootedStep, ThreadsStep, LinkedOnceStep, FaithfulStep DEF IInv
<1>2. CASE UNCHANGED vars
  BY <1>2 DEF IInv, vars, log, TypeOK, Rooted, Threads, LinkedOnce, Faithful, Live
<1> QED BY <1>1, <1>2

\* The invariant holds in every reachable state.
THEOREM Invariance == Spec => []IInv
BY InitInv, InvStep, PTL DEF Spec

\* The state of the store and of its callers keeps its declared shape: what is
\* said, it is said of an item that was created (comment.go, link.go).
THEOREM DiscussionTypeCorrect == Spec => []TypeOK
BY Invariance, PTL DEF IInv

\* Threads have one level, for any number of comments, edits and deletions
\* (checkReplyTo, comment.go).
THEOREM OneLevelOfThreads == Spec => []Threads
BY Invariance, PTL DEF IInv

\* A link is stored at most once (indexOfLink, link.go).
THEOREM LinksAreASet == Spec => []LinkedOnce
BY Invariance, PTL DEF IInv

\* Whoever changes a comment holds the version it has, hence the text it has.
LEMMA SeenStep ==
  ASSUME IInv, [Next]_vars, NEW c \in Comments, Live(comments[c]), comments'[c] # comments[c]
  PROVE  \E e \in Editors :
           /\ copy[e] # NoCopy /\ copy'[e] # copy[e]
           /\ copy[e].comment = c /\ copy[e].text = comments[c].text
<1>1. ASSUME NEW e \in Editors, NEW d \in Comments, NEW i \in Items,
             NEW r \in Comments \cup {NoReply}, NEW t \in Texts, AddComment(e, d, i, r, t)
      PROVE  FALSE
  BY <1>1, SentinelsAreDistinct DEF AddComment, IInv, TypeOK
<1>2. ASSUME NEW e \in Editors, NEW t \in Texts, EditComment(e, t)
      PROVE  copy[e] # NoCopy /\ copy'[e] # copy[e] /\ copy[e].comment = c /\ copy[e].text = comments[c].text
  <2> DEFINE m == Edited(comments[c], t)
             k == [comment |-> c, text |-> t, version |-> m.version]
  <2>1. copy[e] # NoCopy /\ copy[e].comment = c
    BY <1>2 DEF EditComment, IInv, TypeOK
  <2>2. copy[e].version = comments[c].version /\ copy' = [copy EXCEPT ![e] = k]
    BY <1>2, <2>1 DEF EditComment, Expected
  <2>3. m.version = comments[c].version + 1 /\ comments[c].version \in Nat
    BY LiveComment, CommentFields, EditKeeps DEF IInv
  <2>4. k.version = m.version
    OBVIOUS
  <2> HIDE DEF m, k
  <2>5. copy'[e] = k
    BY <2>2 DEF IInv, TypeOK
  <2>6. copy[e].text = comments[c].text
    BY <2>1, <2>2 DEF IInv, Faithful
  <2> QED BY <2>1, <2>2, <2>3, <2>4, <2>5, <2>6
<1>3. ASSUME NEW e \in Editors, DeleteComment(e)
      PROVE  copy[e] # NoCopy /\ copy'[e] # copy[e] /\ copy[e].comment = c /\ copy[e].text = comments[c].text
  <2>1. copy[e] # NoCopy /\ copy[e].comment = c
    BY <1>3 DEF DeleteComment, IInv, TypeOK
  <2>2. copy'[e] = NoCopy
    BY <1>3 DEF DeleteComment, IInv, TypeOK
  <2>3. copy[e].text = comments[c].text
    BY <1>3, <2>1 DEF DeleteComment, Expected, IInv, Faithful
  <2> QED BY <2>1, <2>2, <2>3
<1>4. comments' # comments
  OBVIOUS
<1> QED BY <1>1, <1>2, <1>3, <1>4
        DEF Next, vars, CreateItem, UpdateItem, ReorderItem, DeleteItem, Look, AddLink, RemoveLink

\* Nobody overwrites or deletes a comment that has changed since they looked at
\* it (loadComment and the version, comment.go).
THEOREM EditsAreSeen == Spec => NothingOverwritten
<1>1. IInv /\ [Next]_vars =>
        [\A c \in Comments :
           Live(comments[c]) /\ comments'[c] # comments[c] =>
             \E e \in Editors :
               /\ copy[e] # NoCopy /\ copy'[e] # copy[e]
               /\ copy[e].comment = c /\ copy[e].text = comments[c].text]_vars
  BY SeenStep
<1> QED BY <1>1, Invariance, PTL DEF Spec, NothingOverwritten

----------------------------------------------------------------------------
(* What the feed tells *)

\* The feed is a sequence, and tells nothing of an item that was not created.
Recorded ==
  /\ \E S : feed \in Seq(S)
  /\ \A n \in DOMAIN feed : feed[n].item \in Items /\ items[feed[n].item] # Unborn

\* Finitely many comments are there.
Finite == IsFiniteSet({c \in Comments : Live(comments[c])})

\* The second invariant, over the first.
FInv == IInv /\ Recorded /\ Finite /\ FeedTells

\* What one operation says of item j: `news` in its order, or less of it and
\* then j is among the untold.
Says(j, news) ==
  /\ \A n \in DOMAIN feed : n \in DOMAIN feed' /\ feed'[n] = feed[n]
  /\ \A n \in DOMAIN feed' \ DOMAIN feed :
       /\ feed'[n].item = j /\ n > Len(feed)
       /\ \E l \in DOMAIN news : feed'[n].kind = news[l].kind /\ feed'[n].changes = news[l].changes
  /\ j \notin untold' => \E at \in [DOMAIN news -> DOMAIN feed'] :
       /\ \A n \in DOMAIN feed' \ DOMAIN feed : \E l \in DOMAIN news : n = at[l]
       /\ \A l \in DOMAIN news :
            /\ at[l] > Len(feed)
            /\ feed'[at[l]].kind = news[l].kind /\ feed'[at[l]].changes = news[l].changes
            /\ \A m \in DOMAIN news : at[l] = at[m] => l = m

\* What emit appends (event.go).
LEMMA EmitSays ==
  ASSUME NEW j, NEW news, Len(news) \in Nat, DOMAIN news = 1..Len(news),
         \A n \in DOMAIN news : news[n].item = j,
         NEW S, feed \in Seq(S), Emit(news)
  PROVE  /\ \E U : feed' \in Seq(U)
         /\ untold \subseteq untold'
         /\ Says(j, news)
<1> DEFINE L == Len(feed)
           new(kept) == [a \in DOMAIN kept |->
                [item |-> news[kept[a]].item, kind |-> news[kept[a]].kind,
                 changes |-> news[kept[a]].changes, seq |-> seq + kept[a]]]
<1>1. PICK kept \in Kept(Len(news)) :
        /\ feed' = feed \o new(kept)
        /\ untold' = untold \cup {news[n].item : n \in DOMAIN news \ {kept[a] : a \in DOMAIN kept}}
  BY DEF Emit
<1>2. PICK m \in 0..Len(news) : kept \in [1..m -> DOMAIN news]
  BY DEF Kept
<1>3. \A a, b \in 1..m : a < b => kept[a] < kept[b]
  BY <1>2 DEF Kept
<1> DEFINE g == new(kept)
           T == {g[a] : a \in 1..m}
<1>4. m \in Nat /\ DOMAIN g = 1..m
  BY <1>2
<1>5. \A a \in 1..m :
        g[a].item = j /\ g[a].kind = news[kept[a]].kind /\ g[a].changes = news[kept[a]].changes
  BY <1>2
<1>6. feed' = feed \o g
  BY <1>1
<1> HIDE DEF new, g
<1>7. g \in Seq(T) /\ Len(g) = m
  <2>1. g = [a \in 1..m |-> g[a]]
    <3>1. \E f : g = [a \in DOMAIN kept |-> f[a]]
      <4>1. g = [a \in DOMAIN kept |-> g[a]]
        BY <1>2 DEF g, new
      <4> QED BY <4>1
    <3> QED BY <1>2, <3>1
  <2>2. g \in [1..m -> T]
    BY <2>1
  <2> QED BY <1>4, <2>2
<1> HIDE DEF T
<1>8. L \in Nat /\ DOMAIN feed = 1..L
  OBVIOUS
<1> DEFINE U == S \cup T
<1>9. feed \in Seq(U) /\ g \in Seq(U)
  BY <1>7
<1> HIDE DEF U
<1>10. /\ feed' \in Seq(U) /\ Len(feed') = L + m
       /\ \A n \in 1..(L + m) : feed'[n] = IF n <= L THEN feed[n] ELSE g[n - L]
  <2>1. /\ feed \o g \in Seq(U) /\ Len(feed \o g) = Len(feed) + Len(g)
        /\ \A n \in 1 .. Len(feed) + Len(g) :
             (feed \o g)[n] = IF n <= Len(feed) THEN feed[n] ELSE g[n - Len(feed)]
    BY <1>9, ConcatProperties, Zenon
  <2> QED BY <1>6, <1>7, <2>1
<1> HIDE DEF L
<1>11. DOMAIN feed' = 1..(L + m)
  BY <1>10
<1>12. \A n \in DOMAIN feed : n \in DOMAIN feed' /\ feed'[n] = feed[n]
  BY <1>4, <1>8, <1>10, <1>11
<1>13. \A n \in DOMAIN feed' \ DOMAIN feed : n > L /\ n - L \in 1..m /\ feed'[n] = g[n - L]
  BY <1>4, <1>8, <1>10, <1>11
<1>14. \A a \in 1..m : L + a \in DOMAIN feed' /\ L + a > L /\ feed'[L + a] = g[a]
  <2> SUFFICES ASSUME NEW a \in 1..m
               PROVE  L + a \in DOMAIN feed' /\ L + a > L /\ feed'[L + a] = g[a]
    OBVIOUS
  <2>1. L + a \in 1..(L + m) /\ ~(L + a <= L) /\ (L + a) - L = a
    BY <1>4, <1>8
  <2>2. feed'[L + a] = g[(L + a) - L]
    BY <1>10, <2>1
  <2> QED BY <1>8, <1>11, <2>1, <2>2
<1>15. ASSUME NEW n \in DOMAIN feed' \ DOMAIN feed
       PROVE  /\ feed'[n].item = j /\ n > L
              /\ \E l \in DOMAIN news : feed'[n].kind = news[l].kind /\ feed'[n].changes = news[l].changes
  <2>1. kept[n - L] \in DOMAIN news
    BY <1>2, <1>13
  <2> QED BY <1>5, <1>13, <2>1
<1>16. ASSUME j \notin untold'
       PROVE  \E at \in [DOMAIN news -> DOMAIN feed'] :
         /\ \A n \in DOMAIN feed' \ DOMAIN feed : \E l \in DOMAIN news : n = at[l]
         /\ \A l \in DOMAIN news :
              /\ at[l] > L
              /\ feed'[at[l]].kind = news[l].kind /\ feed'[at[l]].changes = news[l].changes
              /\ \A k \in DOMAIN news : at[l] = at[k] => l = k
  <2>1. \A l \in DOMAIN news : \E a \in 1..m : kept[a] = l
    BY <1>1, <1>2, <1>16
  <2> DEFINE pos == [l \in DOMAIN news |-> CHOOSE a \in 1..m : kept[a] = l]
             at  == [l \in DOMAIN news |-> L + pos[l]]
  <2>2. \A l \in DOMAIN news : pos[l] \in 1..m /\ kept[pos[l]] = l
    BY <2>1
  <2>3. \A a, b \in 1..m : kept[a] = kept[b] => a = b
    <3> SUFFICES ASSUME NEW a \in 1..m, NEW b \in 1..m, kept[a] = kept[b], a # b
                 PROVE  FALSE
      OBVIOUS
    <3>1. kept[a] \in Nat
      BY <1>2
    <3>2. a < b \/ b < a
      BY <1>4
    <3> QED BY <1>3, <3>1, <3>2
  <2> HIDE DEF pos
  <2>4. at \in [DOMAIN news -> DOMAIN feed']
    BY <1>14, <2>2
  <2>5. \A l \in DOMAIN news : at[l] = L + pos[l] /\ at[l] > L /\ feed'[at[l]] = g[pos[l]]
    BY <1>14, <2>2
  <2>6. ASSUME NEW n \in DOMAIN feed' \ DOMAIN feed
        PROVE  \E l \in DOMAIN news : n = at[l]
    <3>1. n - L \in 1..m /\ kept[n - L] \in DOMAIN news
      BY <1>2, <1>13
    <3>2. PICK l \in DOMAIN news : l = kept[n - L]
      BY <3>1
    <3>3. pos[l] = n - L
      BY <2>2, <2>3, <3>1, <3>2
    <3>4. n \in Nat
      BY <1>4, <1>8, <1>11
    <3> QED BY <1>8, <2>5, <3>3, <3>4
  <2>7. \A l, k \in DOMAIN news : at[l] = at[k] => l = k
    <3> SUFFICES ASSUME NEW l \in DOMAIN news, NEW k \in DOMAIN news, at[l] = at[k]
                 PROVE  l = k
      OBVIOUS
    <3>1. pos[l] \in Nat /\ pos[k] \in Nat /\ L + pos[l] = L + pos[k]
      BY <1>4, <2>2, <2>5
    <3>2. pos[l] = pos[k]
      BY <1>8, <3>1
    <3> QED BY <2>2, <3>2
  <2>8. \A l \in DOMAIN news : feed'[at[l]].kind = news[l].kind /\ feed'[at[l]].changes = news[l].changes
    BY <1>5, <2>2, <2>5
  <2> HIDE DEF at
  <2> QED BY <2>4, <2>5, <2>6, <2>7, <2>8
<1>17. untold \subseteq untold'
  BY <1>1
<1>18. Says(j, news)
  BY <1>12, <1>15, <1>16 DEF Says, L
<1> QED BY <1>10, <1>17, <1>18

\* Of an event that is in the feed, the index is a number.
LEMMA FeedIndexes ==
  ASSUME Recorded
  PROVE  DOMAIN feed = 1..Len(feed) /\ Len(feed) \in Nat
BY DEF Recorded

\* So it is after the events of an operation.
LEMMA FeedIndexesNext ==
  ASSUME \E U : feed' \in Seq(U)
  PROVE  DOMAIN feed' = 1..Len(feed') /\ Len(feed') \in Nat
OBVIOUS

\* The events of one kind about one item can be counted.
LEMMA CountsAreNumbers ==
  ASSUME Recorded, NEW i, NEW kind
  PROVE  IsFiniteSet(Told(i, kind)) /\ Count(i, kind) \in Nat
<1>1. Told(i, kind) \subseteq 1..Len(feed) /\ Len(feed) \in Nat
  BY FeedIndexes DEF Told
<1>2. IsFiniteSet(1..Len(feed))
  BY <1>1, FS_Interval
<1>3. IsFiniteSet(Told(i, kind))
  BY <1>1, <1>2, FS_Subset
<1> QED BY <1>3, FS_CardinalityType DEF Count

\* What is said of item j leaves alone what is told of any other item.
LEMMA OthersUntouched ==
  ASSUME NEW j, NEW news, Says(j, news), NEW i, i # j
  PROVE  /\ \A n \in DOMAIN feed' : feed'[n].item = i => n \in DOMAIN feed /\ feed'[n] = feed[n]
         /\ \A kind : Told(i, kind)' = Told(i, kind)
         /\ \A k : Changes(i, k)' = Changes(i, k)
         /\ \A k : \A n \in Changes(i, k) : feed'[n] = feed[n]
<1>1. \A n \in DOMAIN feed : n \in DOMAIN feed' /\ feed'[n] = feed[n]
  BY DEF Says
<1>2. \A n \in DOMAIN feed' \ DOMAIN feed : feed'[n].item = j
  BY DEF Says
<1>3. ASSUME NEW kind PROVE Told(i, kind)' = Told(i, kind)
  BY <1>1, <1>2 DEF Told
<1>4. ASSUME NEW k PROVE Changes(i, k)' = Changes(i, k) /\ \A n \in Changes(i, k) : feed'[n] = feed[n]
  BY <1>1, <1>2 DEF Changes
<1>5. \A n \in DOMAIN feed' : feed'[n].item = i => n \in DOMAIN feed /\ feed'[n] = feed[n]
  BY <1>1, <1>2
<1> QED BY <1>3, <1>4, <1>5

\* A chain of changes that is not added to stays whole, as long as the item
\* keeps what it holds.
LEMMA ChainStays ==
  ASSUME NEW i, NEW k, Chain(i, k), Changes(i, k)' = Changes(i, k),
         \A n \in Changes(i, k) : feed'[n] = feed[n],
         Live(items'[i]) => Live(items[i]) /\ items'[i][k] = items[i][k]
  PROVE  Chain(i, k)'
BY DEF Chain, Live

\* Item i keeps what is told of it, when an operation says something of item j.
LEMMA OthersTell ==
  ASSUME NEW j, NEW news, Says(j, news), NEW i \in Items, i # j,
         Lifetime(i), Tally(i), \A k \in Keys : Chain(i, k), items'[i] = items[i],
         {c \in Comments : Live(comments'[c]) /\ comments'[c].item = i} =
           {c \in Comments : Live(comments[c]) /\ comments[c].item = i},
         Cardinality({n \in DOMAIN links' : links'[n].from = i}) =
           Cardinality({n \in DOMAIN links : links[n].from = i})
  PROVE  (Lifetime(i) /\ Tally(i) /\ \A k \in Keys : Chain(i, k))'
<1>1. \A kind : Told(i, kind)' = Told(i, kind) /\ Count(i, kind)' = Count(i, kind)
  BY OthersUntouched DEF Count
<1>2. Lifetime(i)'
  BY <1>1, OthersUntouched DEF Lifetime
<1>3. Tally(i)'
  <2>1. /\ Count(i, "comment_added")' = Count(i, "comment_added")
        /\ Count(i, "comment_deleted")' = Count(i, "comment_deleted")
        /\ Count(i, "link_added")' = Count(i, "link_added")
        /\ Count(i, "link_removed")' = Count(i, "link_removed")
    BY <1>1
  <2> QED BY <2>1, Zenon DEF Tally, Live
<1>4. ASSUME NEW k \in Keys PROVE Chain(i, k)'
  <2>1. Changes(i, k)' = Changes(i, k) /\ \A n \in Changes(i, k) : feed'[n] = feed[n]
    BY OthersUntouched
  <2> QED BY <1>4, <2>1, ChainStays
<1> QED BY <1>2, <1>3, <1>4

\* One event about item j that is not swallowed: it is the last of its kind,
\* of the other kinds nothing more is told, and no change is told.
LEMMA OneMore ==
  ASSUME Recorded, NEW j, NEW kind, Emit(Event(j, kind)), j \notin untold'
  PROVE  /\ Count(j, kind)' = Count(j, kind) + 1
         /\ \A other : other # kind => Count(j, other)' = Count(j, other)
         /\ Told(j, kind) \subseteq Told(j, kind)'
         /\ \E n \in DOMAIN feed' : n > Len(feed) /\ Told(j, kind)' = Told(j, kind) \cup {n}
         /\ \A k : /\ Changes(j, k)' = Changes(j, k)
                   /\ \A n \in Changes(j, k) : feed'[n] = feed[n]
<1> DEFINE news == Event(j, kind)
<1>1. /\ DOMAIN news = {1} /\ Len(news) = 1 /\ DOMAIN news = 1..Len(news)
      /\ news[1].item = j /\ news[1].kind = kind /\ DOMAIN news[1].changes = {}
      /\ \A n \in DOMAIN news : news[n].item = j
  BY DEF Event, Untouched
<1>2. Says(j, news)
  BY <1>1, EmitSays DEF Recorded
<1> HIDE DEF news
<1>3. /\ \A n \in DOMAIN feed : n \in DOMAIN feed' /\ feed'[n] = feed[n]
      /\ \A n \in DOMAIN feed' \ DOMAIN feed :
           feed'[n].item = j /\ feed'[n].kind = kind /\ feed'[n].changes = news[1].changes
  BY <1>1, <1>2 DEF Says
<1>4. PICK at \in [DOMAIN news -> DOMAIN feed'] :
        /\ \A n \in DOMAIN feed' \ DOMAIN feed : \E l \in DOMAIN news : n = at[l]
        /\ \A l \in DOMAIN news : at[l] > Len(feed) /\ feed'[at[l]].kind = news[l].kind
  BY <1>2 DEF Says
<1> DEFINE new == at[1]
<1>5. new \in DOMAIN feed' /\ new > Len(feed) /\ \A n \in DOMAIN feed' \ DOMAIN feed : n = new
  BY <1>1, <1>4
<1> HIDE DEF new
<1>6. new \notin DOMAIN feed
  BY <1>5, FeedIndexes
<1>7. Told(j, kind)' = Told(j, kind) \cup {new} /\ new \notin Told(j, kind)
  BY <1>3, <1>5, <1>6 DEF Told
<1>8. Count(j, kind)' = Count(j, kind) + 1
  <2>1. IsFiniteSet(Told(j, kind))
    BY CountsAreNumbers
  <2>2. Cardinality(Told(j, kind) \cup {new}) = Cardinality(Told(j, kind)) + 1
    BY <1>7, <2>1, FS_AddElement
  <2> QED BY <1>7, <2>2 DEF Count
<1>9. ASSUME NEW other, other # kind
      PROVE  Count(j, other)' = Count(j, other)
  <2>1. Told(j, other)' = Told(j, other)
    BY <1>3, <1>9 DEF Told
  <2> QED BY <2>1 DEF Count
<1>10. ASSUME NEW k
       PROVE  Changes(j, k)' = Changes(j, k) /\ \A n \in Changes(j, k) : feed'[n] = feed[n]
  BY <1>1, <1>3 DEF Changes
<1> QED BY <1>5, <1>7, <1>8, <1>9, <1>10

\* An event about item j, which is there or was, comes after its creation.
LEMMA AfterCreation ==
  ASSUME Recorded, NEW j, NEW news, Says(j, news), Lifetime(j), items[j] # Unborn,
         \E U : feed' \in Seq(U), NEW n \in DOMAIN feed', feed'[n].item = j
  PROVE  feed'[n].kind = "item_created" \/ \E m \in Told(j, "item_created")' : m < n
<1>1. \A m \in DOMAIN feed : m \in DOMAIN feed' /\ feed'[m] = feed[m]
  BY DEF Says
<1>2. \A m \in Told(j, "item_created") : m \in Told(j, "item_created")' /\ m \in DOMAIN feed
  BY <1>1 DEF Told
<1>3. CASE n \in DOMAIN feed
  BY <1>1, <1>2, <1>3 DEF Lifetime
<1>4. CASE n \notin DOMAIN feed
  <2>1. n > Len(feed)
    BY <1>4 DEF Says
  <2>2. Told(j, "item_created") # {}
    <3>1. Count(j, "item_created") = 1
      BY DEF Lifetime
    <3>2. Cardinality(Told(j, "item_created")) = 1 /\ Cardinality({}) = 0
      BY <3>1, FS_EmptySet, Zenon DEF Count
    <3> QED BY <3>2, 1 # 0, Zenon
  <2>3. PICK m \in Told(j, "item_created") : TRUE
    BY <2>2
  <2>4. m \in 1..Len(feed) /\ Len(feed) \in Nat
    BY <1>2, FeedIndexes
  <2>5. Len(feed') \in Nat /\ n \in 1..Len(feed')
    BY FeedIndexesNext
  <2>6. m < n
    BY <2>1, <2>4, <2>5
  <2> QED BY <1>2, <2>6
<1> QED BY <1>3, <1>4

\* Whatever is said of an item that is there or was, the feed stays a feed of
\* items that are there or were.
LEMMA RecordedStep ==
  ASSUME Recorded, NEW j \in Items, NEW news, Says(j, news), \E U : feed' \in Seq(U),
         items'[j] # Unborn, \A i \in Items : items[i] # Unborn => items'[i] # Unborn
  PROVE  Recorded'
<1>1. ASSUME NEW n \in DOMAIN feed'
      PROVE  feed'[n].item \in Items /\ items'[feed'[n].item] # Unborn
  <2>1. CASE n \in DOMAIN feed
    <3>1. feed'[n] = feed[n]
      BY <2>1 DEF Says
    <3> QED BY <2>1, <3>1 DEF Recorded
  <2>2. CASE n \notin DOMAIN feed
    <3>1. feed'[n].item = j
      BY <2>2 DEF Says
    <3> QED BY <3>1
  <2> QED BY <2>1, <2>2
<1> QED BY <1>1 DEF Recorded

\* What one event says.
LEMMA EventSays ==
  ASSUME Recorded, NEW j, NEW kind, Emit(Event(j, kind))
  PROVE  /\ \E U : feed' \in Seq(U)
         /\ untold \subseteq untold' /\ Says(j, Event(j, kind))
<1>1. /\ DOMAIN Event(j, kind) = 1..Len(Event(j, kind)) /\ Len(Event(j, kind)) \in Nat
      /\ \A n \in DOMAIN Event(j, kind) : Event(j, kind)[n].item = j
  BY DEF Event
<1> QED BY <1>1, EmitSays DEF Recorded

\* The comments that are there on an item, and the links from it.
CommentsOn(i) == {c \in Comments : Live(comments[c]) /\ comments[c].item = i}

LinksFrom(i) == {n \in DOMAIN links : links[n].from = i}

\* The feed tells everything of item i.
Tells(i) == Lifetime(i) /\ Tally(i) /\ \A k \in Keys : Chain(i, k)

\* An operation on item j: what is left to show is that the feed tells
\* everything of it.
LEMMA OneItemSpokenOf ==
  ASSUME Recorded, FeedTells, NEW j \in Items, NEW news, Says(j, news), untold \subseteq untold',
         \A i \in Items \ {j} :
           /\ items'[i] = items[i] /\ CommentsOn(i)' = CommentsOn(i)
           /\ Cardinality(LinksFrom(i)') = Cardinality(LinksFrom(i)),
         j \notin untold' /\ Tells(j) => Tells(j)'
  PROVE  FeedTells'
<1>1. \A i \in Items \ untold : Tells(i)
  BY DEF FeedTells, Tells
<1>2. ASSUME NEW i \in Items \ untold', i # j
      PROVE  Tells(i)'
  <2>1. i \in Items /\ Lifetime(i) /\ Tally(i) /\ \A k \in Keys : Chain(i, k)
    BY <1>1 DEF Tells
  <2>2. items'[i] = items[i]
    BY <1>2
  <2>3. {c \in Comments : Live(comments'[c]) /\ comments'[c].item = i} =
          {c \in Comments : Live(comments[c]) /\ comments[c].item = i}
    BY <1>2 DEF CommentsOn, Live
  <2>4. Cardinality({n \in DOMAIN links' : links'[n].from = i}) =
          Cardinality({n \in DOMAIN links : links[n].from = i})
    BY <1>2, Zenon DEF LinksFrom
  <2>5. (Lifetime(i) /\ Tally(i) /\ \A k \in Keys : Chain(i, k))'
    BY <1>2, <2>1, <2>2, <2>3, <2>4, OthersTell
  <2> QED BY <2>5 DEF Tells
<1>3. \A i \in Items \ untold' : Tells(i)'
  BY <1>1, <1>2
<1> QED BY <1>3 DEF FeedTells, Tells

\* An event that is neither of a creation nor of a deletion, about an item that
\* stays as it is.
LEMMA ItemAsItWas ==
  ASSUME Recorded, NEW j, NEW kind, Emit(Event(j, kind)), j \notin untold',
         kind # "item_created", kind # "item_deleted",
         items[j] # Unborn, items'[j] = items[j], Tells(j)
  PROVE  Lifetime(j)' /\ \A k \in Keys : Chain(j, k)'
<1>1. /\ Count(j, "item_created")' = Count(j, "item_created")
      /\ Count(j, "item_deleted")' = Count(j, "item_deleted")
      /\ \A k : Changes(j, k)' = Changes(j, k) /\ \A n \in Changes(j, k) : feed'[n] = feed[n]
  BY OneMore
<1>2. \A n \in DOMAIN feed' : feed'[n].item = j =>
        feed'[n].kind = "item_created" \/ \E m \in Told(j, "item_created")' : m < n
  BY EventSays, AfterCreation DEF Tells
<1>3. Lifetime(j)'
  BY <1>1, <1>2 DEF Lifetime, Tells
<1>4. ASSUME NEW k \in Keys PROVE Chain(j, k)'
  <2>1. Chain(j, k) /\ Changes(j, k)' = Changes(j, k) /\ \A n \in Changes(j, k) : feed'[n] = feed[n]
    BY <1>1 DEF Tells
  <2> QED BY <2>1, ChainStays
<1> QED BY <1>3, <1>4

\* Comments and links that are left alone are still there.
LEMMA SaidAndLinkedStay ==
  ASSUME UNCHANGED << comments, links >>
  PROVE  \A i : CommentsOn(i)' = CommentsOn(i) /\ LinksFrom(i)' = LinksFrom(i)
BY DEF CommentsOn, LinksFrom, Live

\* As many comments and links as were told of, when nothing more is told of
\* them.
LEMMA TallyStays ==
  ASSUME NEW i, Tally(i), CommentsOn(i)' = CommentsOn(i), LinksFrom(i)' = LinksFrom(i),
         \A kind \in {"comment_added", "comment_deleted", "link_added", "link_removed"} :
           Count(i, kind)' = Count(i, kind)
  PROVE  Tally(i)'
<1>1. /\ Count(i, "comment_added")' = Count(i, "comment_added")
      /\ Count(i, "comment_deleted")' = Count(i, "comment_deleted")
      /\ Count(i, "link_added")' = Count(i, "link_added")
      /\ Count(i, "link_removed")' = Count(i, "link_removed")
  OBVIOUS
<1>2. /\ Count(i, "comment_added") - Count(i, "comment_deleted") = Cardinality(CommentsOn(i))
      /\ Count(i, "link_added") - Count(i, "link_removed") = Cardinality(LinksFrom(i))
  BY Zenon DEF Tally, CommentsOn, LinksFrom
<1>3. /\ Count(i, "comment_added")' - Count(i, "comment_deleted")' = Cardinality(CommentsOn(i)')
      /\ Count(i, "link_added")' - Count(i, "link_removed")' = Cardinality(LinksFrom(i)')
  BY <1>1, <1>2, Zenon
<1> QED BY <1>3, Zenon DEF Tally, CommentsOn, LinksFrom, Live

\* Of an item that was not created nothing is told.
LEMMA NothingToldYet ==
  ASSUME Recorded, NEW i, items[i] = Unborn
  PROVE  /\ \A n \in DOMAIN feed : feed[n].item # i
         /\ \A kind : Told(i, kind) = {} /\ Count(i, kind) = 0
         /\ \A k : Changes(i, k) = {}
<1>1. \A n \in DOMAIN feed : feed[n].item # i
  BY DEF Recorded
<1>2. \A kind : Told(i, kind) = {}
  BY <1>1 DEF Told
<1>3. \A kind : Count(i, kind) = 0
  BY <1>2, FS_EmptySet, Zenon DEF Count
<1>4. \A k : Changes(i, k) = {}
  BY <1>1 DEF Changes
<1> QED BY <1>1, <1>2, <1>3, <1>4

\* A creation is told once.
LEMMA CreateItemTells ==
  ASSUME IInv, Recorded, Finite, FeedTells, NEW i \in Items, NEW it \in Item, CreateItem(i, it)
  PROVE  (Recorded /\ Finite /\ FeedTells)'
<1>1. /\ items[i] = Unborn /\ items' = [items EXCEPT ![i] = it] /\ Emit(Event(i, "item_created"))
      /\ UNCHANGED << comments, links >>
  BY DEF CreateItem
<1>2. Live(it) /\ it # Unborn /\ it # Gone /\ items \in [Items -> Item \cup {Unborn, Gone}]
  BY SentinelsAreDistinct DEF IInv, TypeOK, Live
<1>3. items'[i] = it /\ \A j \in Items \ {i} : items'[j] = items[j]
  BY <1>1, <1>2
<1>4. \A j : CommentsOn(j)' = CommentsOn(j) /\ LinksFrom(j)' = LinksFrom(j)
  BY <1>1, SaidAndLinkedStay
<1>5. ASSUME i \notin untold', Tells(i)
      PROVE  Tells(i)'
  <2>1. /\ Count(i, "item_created")' = 1
        /\ \A kind : kind # "item_created" => Count(i, kind)' = Count(i, kind) /\ Count(i, kind)' = 0
        /\ \A k : Changes(i, k)' = {}
    BY <1>1, <1>5, OneMore, NothingToldYet
  <2>2. ASSUME NEW n \in DOMAIN feed', feed'[n].item = i PROVE feed'[n].kind = "item_created"
    <3>1. n \notin DOMAIN feed
      <4>1. Says(i, Event(i, "item_created"))
        BY <1>1, EventSays
      <4> QED BY <1>1, <2>2, <4>1, NothingToldYet DEF Says
    <3>2. PICK l \in DOMAIN Event(i, "item_created") : feed'[n].kind = Event(i, "item_created")[l].kind
      BY <1>1, <3>1, EventSays DEF Says
    <3> QED BY <3>2 DEF Event
  <2>3. Lifetime(i)'
    BY <1>2, <1>3, <2>1, <2>2 DEF Lifetime
  <2>4. Tally(i)'
    BY <1>4, <1>5, <2>1, TallyStays DEF Tells
  <2>5. \A k \in Keys : Chain(i, k)'
    BY <2>1, DiscussionAssumption DEF Chain, Live
  <2> QED BY <2>3, <2>4, <2>5 DEF Tells
<1>6. FeedTells'
  BY <1>1, <1>3, <1>4, <1>5, EventSays, OneItemSpokenOf
<1>7. Recorded'
  BY <1>1, <1>2, <1>3, EventSays, RecordedStep
<1>8. Finite'
  BY <1>1 DEF Finite, Live
<1> QED BY <1>6, <1>7, <1>8

\* A move in the order of the items changes nothing that is tallied.
LEMMA ReorderItemTells ==
  ASSUME IInv, Recorded, Finite, FeedTells, NEW i \in Items, ReorderItem(i)
  PROVE  (Recorded /\ Finite /\ FeedTells)'
<1>1. /\ Live(items[i]) /\ items[i] # Unborn /\ Emit(Event(i, "item_reordered"))
      /\ UNCHANGED << items, comments, links >>
  BY DEF ReorderItem, Live
<1>2. \A j : CommentsOn(j)' = CommentsOn(j) /\ LinksFrom(j)' = LinksFrom(j)
  BY <1>1, SaidAndLinkedStay
<1>3. ASSUME i \notin untold', Tells(i)
      PROVE  Tells(i)'
  <2>1. Tally(i)'
    BY <1>1, <1>2, <1>3, OneMore, TallyStays DEF Tells
  <2> QED BY <1>1, <1>3, <2>1, ItemAsItWas DEF Tells
<1>4. FeedTells'
  BY <1>1, <1>2, <1>3, EventSays, OneItemSpokenOf
<1>5. Recorded'
  BY <1>1, EventSays, RecordedStep
<1>6. Finite'
  BY <1>1 DEF Finite, Live
<1> QED BY <1>4, <1>5, <1>6

\* A deletion is told once: what is deleted is not there to be deleted again.
LEMMA DeleteItemTells ==
  ASSUME IInv, Recorded, Finite, FeedTells, NEW i \in Items, DeleteItem(i)
  PROVE  (Recorded /\ Finite /\ FeedTells)'
<1>1. /\ Live(items[i]) /\ items[i] # Unborn /\ items[i] # Gone
      /\ items' = [items EXCEPT ![i] = Gone] /\ Emit(Event(i, "item_deleted"))
      /\ UNCHANGED << comments, links >>
  BY DEF DeleteItem, Live
<1>2. items'[i] = Gone /\ Gone # Unborn /\ ~Live(Gone) /\ \A j \in Items \ {i} : items'[j] = items[j]
  BY <1>1, DiscussionAssumption DEF IInv, TypeOK, Live
<1>3. \A j : CommentsOn(j)' = CommentsOn(j) /\ LinksFrom(j)' = LinksFrom(j)
  BY <1>1, SaidAndLinkedStay
<1>4. ASSUME i \notin untold', Tells(i)
      PROVE  Tells(i)'
  <2>1. /\ Count(i, "item_created")' = 1
        /\ Count(i, "item_deleted")' = 1
        /\ \A kind : kind # "item_deleted" => Count(i, kind)' = Count(i, kind)
        /\ \A k : Changes(i, k)' = Changes(i, k) /\ \A n \in Changes(i, k) : feed'[n] = feed[n]
    BY <1>1, <1>4, OneMore DEF Tells, Lifetime
  <2>2. \A n \in DOMAIN feed' : feed'[n].item = i =>
          feed'[n].kind = "item_created" \/ \E m \in Told(i, "item_created")' : m < n
    BY <1>1, <1>4, EventSays, AfterCreation DEF Tells
  <2>3. Lifetime(i)'
    BY <1>2, <2>1, <2>2 DEF Lifetime
  <2>4. Tally(i)'
    BY <1>3, <1>4, <2>1, TallyStays DEF Tells
  <2>5. ASSUME NEW k \in Keys PROVE Chain(i, k)'
    <3>1. Chain(i, k) /\ Changes(i, k)' = Changes(i, k) /\ \A n \in Changes(i, k) : feed'[n] = feed[n]
      BY <1>4, <2>1 DEF Tells
    <3> QED BY <1>2, <3>1, ChainStays
  <2> QED BY <2>3, <2>4, <2>5 DEF Tells
<1>5. FeedTells'
  BY <1>1, <1>2, <1>3, <1>4, EventSays, OneItemSpokenOf
<1>6. Recorded'
  BY <1>1, <1>2, EventSays, RecordedStep
<1>7. Finite'
  BY <1>1 DEF Finite, Live
<1> QED BY <1>5, <1>6, <1>7

\* An operation on a comment of item j.
LEMMA CommentTells ==
  ASSUME IInv, Recorded, Finite, FeedTells, NEW j \in Items, items[j] # Unborn,
         NEW kind \in {"comment_added", "comment_edited", "comment_deleted"}, Emit(Event(j, kind)),
         UNCHANGED << items, links >>,
         NEW c \in Comments, IsFiniteSet({d \in Comments : Live(comments'[d])}),
         \A i \in Items \ {j} : CommentsOn(i)' = CommentsOn(i),
         \/ kind = "comment_added" /\ c \notin CommentsOn(j) /\ CommentsOn(j)' = CommentsOn(j) \cup {c}
         \/ kind = "comment_edited" /\ CommentsOn(j)' = CommentsOn(j)
         \/ kind = "comment_deleted" /\ c \in CommentsOn(j) /\ CommentsOn(j)' = CommentsOn(j) \ {c}
  PROVE  (Recorded /\ Finite /\ FeedTells)'
<1>1. LinksFrom(j)' = LinksFrom(j) /\ \A i : LinksFrom(i)' = LinksFrom(i)
  BY DEF LinksFrom
<1>2. ASSUME j \notin untold', Tells(j)
      PROVE  Tells(j)'
  <2> DEFINE n == Cardinality(CommentsOn(j))
             added == Count(j, "comment_added")
             deleted == Count(j, "comment_deleted")
  <2>1. IsFiniteSet(CommentsOn(j))
    <3>1. CommentsOn(j) \subseteq {d \in Comments : Live(comments[d])}
      BY DEF CommentsOn
    <3> QED BY <3>1, FS_Subset DEF Finite
  <2>2. n \in Nat /\ added \in Nat /\ deleted \in Nat
    BY <2>1, FS_CardinalityType, CountsAreNumbers
  <2>3. added - deleted = n /\ Count(j, "link_added") - Count(j, "link_removed") = Cardinality(LinksFrom(j))
    BY <1>2, Zenon DEF Tells, Tally, CommentsOn, LinksFrom
  <2>4. /\ Count(j, kind)' = Count(j, kind) + 1
        /\ \A other : other # kind => Count(j, other)' = Count(j, other)
    BY <1>2, OneMore
  <2> DEFINE n1 == Cardinality(CommentsOn(j)')
             added1 == Count(j, "comment_added")'
             deleted1 == Count(j, "comment_deleted")'
  <2>5. added1 - deleted1 = n1
    <3>1. CASE kind = "comment_added"
      <4>1. n1 = n + 1
        BY <2>1, <3>1, FS_AddElement
      <4>2. added1 = added + 1 /\ deleted1 = deleted
        BY <2>4, <3>1
      <4> HIDE DEF n, n1, added, added1, deleted, deleted1
      <4> QED BY <2>2, <2>3, <4>1, <4>2
    <3>2. CASE kind = "comment_edited"
      <4>1. n1 = n
        BY <3>2
      <4>2. added1 = added /\ deleted1 = deleted
        BY <2>4, <3>2
      <4> HIDE DEF n, n1, added, added1, deleted, deleted1
      <4> QED BY <2>2, <2>3, <4>1, <4>2
    <3>3. CASE kind = "comment_deleted"
      <4>1. n1 = n - 1
        BY <2>1, <3>3, FS_RemoveElement
      <4>2. added1 = added /\ deleted1 = deleted + 1
        BY <2>4, <3>3
      <4> HIDE DEF n, n1, added, added1, deleted, deleted1
      <4> QED BY <2>2, <2>3, <4>1, <4>2
    <3> QED BY <3>1, <3>2, <3>3
  <2>6. Count(j, "link_added")' - Count(j, "link_removed")' = Cardinality(LinksFrom(j)')
    BY <1>1, <2>3, <2>4
  <2>7. Tally(j)'
    BY <2>5, <2>6, Zenon DEF Tally, CommentsOn, LinksFrom, Live
  <2> QED BY <1>2, <2>7, ItemAsItWas DEF Tells
<1>3. FeedTells'
  BY <1>1, <1>2, EventSays, OneItemSpokenOf
<1>4. Recorded'
  BY EventSays, RecordedStep
<1>5. Finite'
  BY DEF Finite, Live
<1> QED BY <1>3, <1>4, <1>5

\* A comment that is posted, on an item that is there, is told of as added.
LEMMA AddCommentTells ==
  ASSUME IInv, Recorded, Finite, FeedTells, NEW e \in Editors, NEW c \in Comments, NEW i \in Items,
         NEW r \in Comments \cup {NoReply}, NEW t \in Texts, AddComment(e, c, i, r, t)
  PROVE  (Recorded /\ Finite /\ FeedTells)'
<1> DEFINE m == [item |-> i, replyTo |-> r, text |-> t, version |-> 1]
<1>1. /\ comments[c] = Unborn /\ items[i] # Unborn /\ comments' = [comments EXCEPT ![c] = m]
      /\ Emit(Event(i, "comment_added")) /\ UNCHANGED << items, links >>
  BY DEF AddComment, Load, Live
<1>2. m \in Comment /\ m.item = i
  BY DEF Comment
<1> HIDE DEF m
<1>3. /\ Live(m) /\ comments'[c] = m /\ ~Live(comments[c])
      /\ \A d \in Comments \ {c} : comments'[d] = comments[d]
  BY <1>1, <1>2, SentinelsAreDistinct DEF IInv, TypeOK
<1>4. c \notin CommentsOn(i) /\ CommentsOn(i)' = CommentsOn(i) \cup {c}
  BY <1>2, <1>3 DEF CommentsOn, Live
<1>5. \A j \in Items \ {i} : CommentsOn(j)' = CommentsOn(j)
  BY <1>2, <1>3 DEF CommentsOn, Live
<1>6. IsFiniteSet({d \in Comments : Live(comments'[d])})
  <2>1. {d \in Comments : Live(comments'[d])} = {d \in Comments : Live(comments[d])} \cup {c}
    BY <1>3
  <2> QED BY <2>1, FS_AddElement DEF Finite
<1> QED BY <1>1, <1>4, <1>5, <1>6, CommentTells

\* The comment an editor holds in the version it has is there, on an item that
\* is there or was.
LEMMA HeldComment ==
  ASSUME IInv, NEW e \in Editors, copy[e] # NoCopy, Expected(copy[e].comment, copy[e].version)
  PROVE  LET c == copy[e].comment
         IN  /\ c \in Comments /\ Live(comments[c]) /\ comments[c] \in Comment
             /\ comments[c].item \in Items /\ items[comments[c].item] # Unborn
<1> DEFINE c == copy[e].comment
<1>1. c \in Comments /\ Live(comments[c])
  BY HeldCopy, CopyFields DEF Expected, IInv
<1>2. comments[c] \in Comment /\ comments[c].item \in Items
  BY <1>1, LiveComment, CommentFields DEF IInv
<1>3. items[comments[c].item] # Unborn
  BY <1>1 DEF IInv, TypeOK
<1> QED BY <1>1, <1>2, <1>3

\* An edit leaves the comments that are there, and their items.
LEMMA EditCommentTells ==
  ASSUME IInv, Recorded, Finite, FeedTells, NEW e \in Editors, NEW t \in Texts, EditComment(e, t)
  PROVE  (Recorded /\ Finite /\ FeedTells)'
<1>1. PICK c \in Comments, i \in Items :
        /\ c = copy[e].comment /\ i = comments[c].item
        /\ Live(comments[c]) /\ comments[c] \in Comment /\ items[i] # Unborn
  BY HeldComment DEF EditComment
<1> DEFINE m == Edited(comments[c], t)
<1>2. /\ comments' = [comments EXCEPT ![c] = m] /\ UNCHANGED << items, links >>
      /\ Emit(Event(i, "comment_edited"))
  BY <1>1 DEF EditComment
<1>3. m \in Comment /\ m.item = i /\ Live(m)
  BY <1>1, EditKeeps, SentinelsAreDistinct
<1> HIDE DEF m
<1>4. comments'[c] = m /\ \A d \in Comments \ {c} : comments'[d] = comments[d]
  BY <1>2 DEF IInv, TypeOK
<1>5. \A j \in Items : CommentsOn(j)' = CommentsOn(j)
  BY <1>1, <1>3, <1>4 DEF CommentsOn, Live
<1>6. IsFiniteSet({d \in Comments : Live(comments'[d])})
  <2>1. {d \in Comments : Live(comments'[d])} = {d \in Comments : Live(comments[d])}
    BY <1>1, <1>3, <1>4
  <2> QED BY <2>1 DEF Finite
<1> QED BY <1>1, <1>2, <1>5, <1>6, CommentTells

\* A deletion takes one comment away, once.
LEMMA DeleteCommentTells ==
  ASSUME IInv, Recorded, Finite, FeedTells, NEW e \in Editors, DeleteComment(e)
  PROVE  (Recorded /\ Finite /\ FeedTells)'
<1>1. PICK c \in Comments, i \in Items :
        /\ c = copy[e].comment /\ i = comments[c].item
        /\ Live(comments[c]) /\ items[i] # Unborn
  BY HeldComment DEF DeleteComment
<1>2. /\ comments' = [comments EXCEPT ![c] = Gone] /\ UNCHANGED << items, links >>
      /\ Emit(Event(i, "comment_deleted"))
  BY <1>1 DEF DeleteComment
<1>3. comments'[c] = Gone /\ ~Live(Gone) /\ \A d \in Comments \ {c} : comments'[d] = comments[d]
  BY <1>2, SentinelsAreDistinct DEF IInv, TypeOK
<1>4. c \in CommentsOn(i) /\ CommentsOn(i)' = CommentsOn(i) \ {c}
  BY <1>1, <1>3 DEF CommentsOn, Live
<1>5. \A j \in Items \ {i} : CommentsOn(j)' = CommentsOn(j)
  BY <1>1, <1>3 DEF CommentsOn, Live
<1>6. IsFiniteSet({d \in Comments : Live(comments'[d])})
  <2>1. {d \in Comments : Live(comments'[d])} \subseteq {d \in Comments : Live(comments[d])}
    BY <1>3
  <2> QED BY <2>1, FS_Subset DEF Finite
<1> QED BY <1>1, <1>2, <1>4, <1>5, <1>6, CommentTells

\* Links can be counted.
LEMMA LinksAreFinite ==
  ASSUME IInv, NEW i
  PROVE  IsFiniteSet(LinksFrom(i)) /\ Cardinality(LinksFrom(i)) \in Nat
<1>1. LinksFrom(i) \subseteq 1..Len(links) /\ Len(links) \in Nat
  BY DEF LinksFrom, IInv, TypeOK
<1>2. IsFiniteSet(1..Len(links))
  BY <1>1, FS_Interval
<1>3. IsFiniteSet(LinksFrom(i))
  BY <1>1, <1>2, FS_Subset
<1> QED BY <1>3, FS_CardinalityType

\* An operation on a link from item j.
LEMMA LinkTells ==
  ASSUME IInv, Recorded, Finite, FeedTells, NEW j \in Items, items[j] # Unborn,
         NEW kind \in {"link_added", "link_removed"}, Emit(Event(j, kind)),
         UNCHANGED << items, comments >>,
         \A i \in Items \ {j} : Cardinality(LinksFrom(i)') = Cardinality(LinksFrom(i)),
         Cardinality(LinksFrom(j)') =
           Cardinality(LinksFrom(j)) + (IF kind = "link_added" THEN 1 ELSE -1)
  PROVE  (Recorded /\ Finite /\ FeedTells)'
<1>1. \A i : CommentsOn(i)' = CommentsOn(i)
  BY DEF CommentsOn, Live
<1>2. ASSUME j \notin untold', Tells(j)
      PROVE  Tells(j)'
  <2> DEFINE n == Cardinality(LinksFrom(j))
             added == Count(j, "link_added")
             removed == Count(j, "link_removed")
             n1 == Cardinality(LinksFrom(j)')
             added1 == Count(j, "link_added")'
             removed1 == Count(j, "link_removed")'
  <2>1. n \in Nat /\ added \in Nat /\ removed \in Nat
    BY LinksAreFinite, CountsAreNumbers
  <2>2. /\ Count(j, "comment_added") - Count(j, "comment_deleted") = Cardinality(CommentsOn(j))
        /\ added - removed = n
    BY <1>2, Zenon DEF Tells, Tally, CommentsOn, LinksFrom
  <2>3. /\ Count(j, kind)' = Count(j, kind) + 1
        /\ \A other : other # kind => Count(j, other)' = Count(j, other)
    BY <1>2, OneMore
  <2>4. added1 - removed1 = n1
    <3>1. CASE kind = "link_added"
      <4>1. n1 = n + 1 /\ added1 = added + 1 /\ removed1 = removed
        BY <2>3, <3>1
      <4> HIDE DEF n, n1, added, added1, removed, removed1
      <4> QED BY <2>1, <2>2, <4>1
    <3>2. CASE kind = "link_removed"
      <4>1. n1 = n + (-1) /\ added1 = added /\ removed1 = removed + 1
        BY <2>3, <3>2
      <4> HIDE DEF n, n1, added, added1, removed, removed1
      <4> QED BY <2>1, <2>2, <4>1
    <3> QED BY <3>1, <3>2
  <2>5. Count(j, "comment_added")' - Count(j, "comment_deleted")' = Cardinality(CommentsOn(j)')
    BY <1>1, <2>2, <2>3
  <2>6. Tally(j)'
    BY <2>4, <2>5, Zenon DEF Tally, CommentsOn, LinksFrom, Live
  <2> QED BY <1>2, <2>6, ItemAsItWas DEF Tells
<1>3. FeedTells'
  BY <1>1, <1>2, EventSays, OneItemSpokenOf
<1>4. Recorded'
  BY EventSays, RecordedStep
<1>5. Finite'
  BY DEF Finite, Live
<1> QED BY <1>3, <1>4, <1>5

\* A link that is added is one more of the item it goes from.
LEMMA AddLinkTells ==
  ASSUME IInv, Recorded, Finite, FeedTells, NEW l \in Link, AddLink(l)
  PROVE  (Recorded /\ Finite /\ FeedTells)'
<1>1. PICK j \in Items : j = l.from
  BY DEF Link
<1>2. /\ items[j] # Unborn /\ links' = Append(links, l) /\ UNCHANGED << items, comments >>
      /\ Emit(Event(j, "link_added"))
  BY <1>1 DEF AddLink, Load, Live
<1> DEFINE last == Len(links) + 1
<1>3. /\ links \in Seq(Link) /\ DOMAIN links' = DOMAIN links \cup {last} /\ last \notin DOMAIN links
      /\ links'[last] = l /\ \A n \in DOMAIN links : links'[n] = links[n]
  BY <1>2 DEF IInv, TypeOK
<1> HIDE DEF last
<1>4. \A i \in Items \ {j} : LinksFrom(i)' = LinksFrom(i)
  BY <1>1, <1>3 DEF LinksFrom
<1>5. LinksFrom(j)' = LinksFrom(j) \cup {last} /\ last \notin LinksFrom(j)
  BY <1>1, <1>3 DEF LinksFrom
<1>6. Cardinality(LinksFrom(j)') = Cardinality(LinksFrom(j)) + 1
  BY <1>5, LinksAreFinite, FS_AddElement
<1>7. \A i \in Items \ {j} : Cardinality(LinksFrom(i)') = Cardinality(LinksFrom(i))
  BY <1>4
<1> QED BY <1>2, <1>6, <1>7, LinkTells

\* Of the links of each item as many are left as there were, but the one that
\* is taken out.
LEMMA LinksLeft ==
  ASSUME IInv, NEW n \in DOMAIN links, NEW i,
         links' = SubSeq(links, 1, n - 1) \o SubSeq(links, n + 1, Len(links))
  PROVE  Cardinality(LinksFrom(i)') = Cardinality(LinksFrom(i) \ {n})
<1> DEFINE S == LinksFrom(i) \ {n}
           T == LinksFrom(i)'
           N == Len(links)
           f == [m \in S |-> IF m < n THEN m ELSE m - 1]
<1>1. links \in Seq(Link) /\ N \in Nat /\ DOMAIN links = 1..N /\ n \in 1..N
  BY DEF IInv, TypeOK
<1>2. DOMAIN links' = 1..(N - 1) /\ \A m \in 1..(N - 1) : links'[m] = IF m < n THEN links[m] ELSE links[m + 1]
  BY <1>1, TakenOut
<1> HIDE DEF N
<1>3. S = {m \in 1..N : m # n /\ links[m].from = i}
  BY <1>1 DEF LinksFrom
<1>4. T = {m \in 1..(N - 1) : links'[m].from = i}
  BY <1>2 DEF LinksFrom
<1> HIDE DEF S, T
<1>5. \A m \in S : f[m] \in T
  <2> SUFFICES ASSUME NEW m \in S PROVE f[m] \in T
    OBVIOUS
  <2>1. CASE m < n
    <3>1. m \in 1..(N - 1) /\ f[m] = m
      BY <1>1, <1>3, <2>1
    <3> QED BY <1>2, <1>3, <1>4, <2>1, <3>1
  <2>2. CASE ~(m < n)
    <3>1. m - 1 \in 1..(N - 1) /\ ~(m - 1 < n) /\ f[m] = m - 1 /\ (m - 1) + 1 = m
      BY <1>1, <1>3, <2>2
    <3>2. links'[m - 1] = links[(m - 1) + 1]
      BY <1>2, <3>1
    <3>3. links[(m - 1) + 1].from = i
      BY <1>3, <3>1
    <3> QED BY <1>4, <3>1, <3>2, <3>3
  <2> QED BY <2>1, <2>2
<1>6. \A a, b \in S : f[a] = f[b] => a = b
  BY <1>1, <1>3
<1>7. \A t \in T : \E m \in S : f[m] = t
  <2> SUFFICES ASSUME NEW t \in T PROVE \E m \in S : f[m] = t
    OBVIOUS
  <2>1. CASE t < n
    <3>1. t \in S
      BY <1>1, <1>2, <1>3, <1>4, <2>1
    <3> QED BY <2>1, <3>1
  <2>2. CASE ~(t < n)
    <3>1. t + 1 \in S
      <4>1. t \in 1..(N - 1) /\ links'[t].from = i
        BY <1>4
      <4>2. t + 1 \in 1..N /\ t + 1 # n
        BY <1>1, <2>2, <4>1
      <4>3. links'[t] = links[t + 1]
        BY <1>2, <2>2, <4>1, Zenon
      <4>4. links[t + 1].from = i
        BY <4>1, <4>3, Zenon
      <4> QED BY <1>3, <4>2, <4>4, Zenon
    <3>2. ~(t + 1 < n) /\ (t + 1) - 1 = t
      BY <1>1, <1>4, <2>2
    <3> QED BY <3>1, <3>2
  <2> QED BY <2>1, <2>2
<1>8. f \in [S -> T]
  BY <1>5
<1> HIDE DEF f
<1>9. f \in Bijection(S, T)
  BY <1>6, <1>7, <1>8 DEF Bijection, Injection, Surjection, IsInjective
<1>10. IsFiniteSet(S)
  BY LinksAreFinite, FS_RemoveElement DEF S
<1>11. Cardinality(T) = Cardinality(S)
  <2>1. ExistsBijection(S, T)
    BY <1>9 DEF ExistsBijection
  <2> QED BY <1>10, <2>1, FS_Bijection
<1> QED BY <1>11 DEF S, T

\* A link that is removed is one less of the item it goes from.
LEMMA RemoveLinkTells ==
  ASSUME IInv, Recorded, Finite, FeedTells, NEW l \in Link, RemoveLink(l)
  PROVE  (Recorded /\ Finite /\ FeedTells)'
<1>1. PICK n \in DOMAIN links :
        /\ links' = SubSeq(links, 1, n - 1) \o SubSeq(links, n + 1, Len(links))
        /\ Emit(Event(links[n].from, "link_removed"))
        /\ UNCHANGED << items, comments >>
  BY DEF RemoveLink
<1>2. PICK j \in Items : j = links[n].from
  BY LinkEnds DEF IInv
<1>3. Emit(Event(j, "link_removed")) /\ items[j] # Unborn
  BY <1>1, <1>2 DEF IInv, TypeOK
<1>4. ASSUME NEW i
      PROVE  Cardinality(LinksFrom(i)') =
               IF i = j THEN Cardinality(LinksFrom(i)) + (-1) ELSE Cardinality(LinksFrom(i))
  <2>1. Cardinality(LinksFrom(i)') = Cardinality(LinksFrom(i) \ {n})
    BY <1>1, LinksLeft
  <2>2. n \in LinksFrom(i) <=> i = j
    BY <1>2 DEF LinksFrom
  <2>3. Cardinality(LinksFrom(i) \ {n}) =
          IF n \in LinksFrom(i) THEN Cardinality(LinksFrom(i)) - 1 ELSE Cardinality(LinksFrom(i))
    BY LinksAreFinite, FS_RemoveElement
  <2>4. Cardinality(LinksFrom(i)) \in Nat
    BY LinksAreFinite
  <2> QED BY <2>1, <2>2, <2>3, <2>4
<1>5. \A i \in Items \ {j} : Cardinality(LinksFrom(i)') = Cardinality(LinksFrom(i))
  BY <1>4
<1>6. Cardinality(LinksFrom(j)') = Cardinality(LinksFrom(j)) + (-1)
  BY <1>4
<1> QED BY <1>1, <1>3, <1>5, <1>6, LinkTells

\* n is made of the elements of A, B and C, of one or none each, in that order.
InARow(n, A, B, C) ==
  /\ DOMAIN n = 1..Len(n) /\ Len(n) \in Nat
  /\ \A l \in DOMAIN n :
       \/ Len(A) = 1 /\ l = 1 /\ n[l] = A[1]
       \/ Len(B) = 1 /\ l = Len(A) + 1 /\ n[l] = B[1]
       \/ Len(C) = 1 /\ l = Len(A) + Len(B) + 1 /\ n[l] = C[1]
  /\ Len(A) = 1 => 1 \in DOMAIN n /\ n[1] = A[1]
  /\ Len(B) = 1 => Len(A) + 1 \in DOMAIN n /\ n[Len(A) + 1] = B[1]
  /\ Len(C) = 1 => Len(A) + Len(B) + 1 \in DOMAIN n /\ n[Len(A) + Len(B) + 1] = C[1]

\* Three sequences one after the other, of one element or none each.
LEMMA ThreeInARow ==
  ASSUME NEW U, NEW A \in Seq(U), NEW B \in Seq(U), NEW C \in Seq(U),
         Len(A) \in {0, 1}, Len(B) \in {0, 1}, Len(C) \in {0, 1}
  PROVE  InARow(A \o B \o C, A, B, C)
<1> DEFINE AB == A \o B
           n == AB \o C
<1>1. /\ AB \in Seq(U) /\ Len(AB) = Len(A) + Len(B)
      /\ \A l \in 1 .. Len(A) + Len(B) : AB[l] = IF l <= Len(A) THEN A[l] ELSE B[l - Len(A)]
  BY ConcatProperties, Zenon
<1> HIDE DEF AB, n
<1>2. /\ n \in Seq(U) /\ Len(n) = Len(AB) + Len(C)
      /\ \A l \in 1 .. Len(AB) + Len(C) : n[l] = IF l <= Len(AB) THEN AB[l] ELSE C[l - Len(AB)]
  <2>1. AB \in Seq(U)
    BY <1>1
  <2>2. /\ AB \o C \in Seq(U) /\ Len(AB \o C) = Len(AB) + Len(C)
        /\ \A l \in 1 .. Len(AB) + Len(C) : (AB \o C)[l] = IF l <= Len(AB) THEN AB[l] ELSE C[l - Len(AB)]
    BY <2>1, ConcatProperties, Zenon
  <2> QED BY <2>2, Zenon DEF n
<1>3. DOMAIN n = 1..Len(n) /\ Len(n) \in Nat
  BY <1>2
<1>4. ASSUME NEW l \in DOMAIN n
      PROVE  \/ Len(A) = 1 /\ l = 1 /\ n[l] = A[1]
             \/ Len(B) = 1 /\ l = Len(A) + 1 /\ n[l] = B[1]
             \/ Len(C) = 1 /\ l = Len(A) + Len(B) + 1 /\ n[l] = C[1]
  <2>1. l \in 1..(Len(A) + Len(B) + Len(C))
    BY <1>1, <1>2, <1>3
  <2>2. CASE l <= Len(A)
    <3>1. Len(A) = 1 /\ l = 1 /\ l <= Len(AB) /\ l \in 1 .. Len(A) + Len(B)
      BY <1>1, <2>1, <2>2
    <3> QED BY <1>1, <1>2, <2>1, <2>2, <3>1
  <2>3. CASE ~(l <= Len(A)) /\ l <= Len(AB)
    <3> DEFINE p == Len(A)
               q == Len(B)
    <3>1. p \in {0, 1} /\ q \in {0, 1} /\ l \in Int /\ ~(l <= p) /\ l <= p + q
      BY <1>1, <2>1, <2>3
    <3> HIDE DEF p, q
    <3>2. q = 1 /\ l = p + 1 /\ l - p = 1 /\ l \in 1 .. p + q
      BY <3>1
    <3>3. Len(B) = 1 /\ l = Len(A) + 1 /\ l - Len(A) = 1 /\ l \in 1 .. Len(A) + Len(B)
      BY <3>2, Zenon DEF p, q
    <3> QED BY <1>1, <1>2, <2>1, <2>3, <3>3
  <2>4. CASE ~(l <= Len(AB))
    <3> DEFINE p == Len(A)
               q == Len(B)
               r == Len(C)
    <3>1. /\ p \in {0, 1} /\ q \in {0, 1} /\ r \in {0, 1} /\ Len(AB) = p + q
          /\ l \in 1..(p + q + r) /\ ~(l <= p + q)
      BY <1>1, <2>1, <2>4
    <3> HIDE DEF p, q, r
    <3>2. r = 1 /\ l = p + q + 1 /\ l - (p + q) = 1
      BY <3>1
    <3>3. Len(C) = 1 /\ l = Len(A) + Len(B) + 1 /\ l - Len(AB) = 1 /\ l \in 1 .. Len(AB) + Len(C)
      BY <3>1, <3>2, Zenon DEF p, q, r
    <3>4. n[l] = C[l - Len(AB)]
      BY <1>2, <2>4, <3>3, Zenon
    <3> QED BY <3>3, <3>4
  <2> QED BY <2>2, <2>3, <2>4
<1>5. Len(A) = 1 => 1 \in DOMAIN n /\ n[1] = A[1]
  BY <1>1, <1>2, <1>3
<1>6. Len(B) = 1 => Len(A) + 1 \in DOMAIN n /\ n[Len(A) + 1] = B[1]
  BY <1>1, <1>2, <1>3
<1>7. Len(C) = 1 => Len(A) + Len(B) + 1 \in DOMAIN n /\ n[Len(A) + Len(B) + 1] = C[1]
  BY <1>1, <1>2, <1>3
<1>8. InARow(n, A, B, C)
  BY <1>3, <1>4, <1>5, <1>6, <1>7 DEF InARow
<1> QED BY <1>8 DEF n, AB

\* What is told of the changes of the keys in K: one event or none, and one
\* exactly if some of them differ.
LEMMA ChangedSays ==
  ASSUME NEW i, NEW kind, NEW before, NEW after, NEW K
  PROVE  LET s == Changed(i, kind, Diff(before, after, K))
             e == [item |-> i, kind |-> kind, changes |-> Diff(before, after, K)]
         IN  /\ s \in Seq({e}) /\ Len(s) \in {0, 1}
             /\ Len(s) = 1 => s[1] = e
             /\ Len(s) = 0 => \A k \in K : before[k] = after[k]
<1> DEFINE changes == Diff(before, after, K)
           s == Changed(i, kind, changes)
           e == [item |-> i, kind |-> kind, changes |-> changes]
<1>1. DOMAIN changes = {k \in K : before[k] # after[k]}
  BY DEF Diff
<1> HIDE DEF changes
<1>2. s = IF DOMAIN changes = {} THEN << >> ELSE << e >>
  BY DEF Changed
<1>3. s \in Seq({e})
  BY ChangedTyped
<1> HIDE DEF e, s
<1>4. Len(s) \in {0, 1} /\ (Len(s) = 1 => s[1] = e) /\ (Len(s) = 0 => DOMAIN changes = {})
  BY <1>2
<1> QED BY <1>1, <1>3, <1>4 DEF changes, e, s

\* What is told of key k, when the keys in K are compared.
LEMMA DiffSays ==
  ASSUME NEW before, NEW after, NEW K, NEW k
  PROVE  /\ k \in DOMAIN Diff(before, after, K) <=> k \in K /\ before[k] # after[k]
         /\ k \in DOMAIN Diff(before, after, K) =>
              Diff(before, after, K)[k] = [from |-> before[k], to |-> after[k]]
BY DEF Diff

\* What an update tells of a key: its two values, in one event, if they differ.
LEMMA UpdateSays ==
  ASSUME NEW i, NEW before, NEW after
  PROVE  LET news == EmitChanges(i, before, after)
         IN  /\ DOMAIN news = 1..Len(news) /\ Len(news) \in Nat
             /\ \A l \in DOMAIN news :
                  news[l].item = i /\ news[l].kind \in {"status_changed", "parent_changed", "item_updated"}
             /\ \A k \in Keys : before[k] = after[k] =>
                  \A l \in DOMAIN news : k \notin DOMAIN news[l].changes
             /\ \A k \in Keys : before[k] # after[k] =>
                  \E l \in DOMAIN news :
                    /\ k \in DOMAIN news[l].changes
                    /\ news[l].changes[k] = [from |-> before[k], to |-> after[k]]
                    /\ \A m \in DOMAIN news : k \in DOMAIN news[m].changes => m = l
<1> DEFINE e(kind, K) == [item |-> i, kind |-> kind, changes |-> Diff(before, after, K)]
           s(kind, K) == Changed(i, kind, Diff(before, after, K))
           A == s("status_changed", {"status"})
           B == s("parent_changed", {"parent"})
           C == s("item_updated", Parts)
           eA == e("status_changed", {"status"})
           eB == e("parent_changed", {"parent"})
           eC == e("item_updated", Parts)
           U == {eA, eB, eC}
           news == EmitChanges(i, before, after)
<1>1. /\ A \in Seq({eA}) /\ Len(A) \in {0, 1} /\ (Len(A) = 1 => A[1] = eA)
      /\ Len(A) = 0 => \A k \in {"status"} : before[k] = after[k]
  BY ChangedSays
<1>2. /\ B \in Seq({eB}) /\ Len(B) \in {0, 1} /\ (Len(B) = 1 => B[1] = eB)
      /\ Len(B) = 0 => \A k \in {"parent"} : before[k] = after[k]
  BY ChangedSays
<1>3. /\ C \in Seq({eC}) /\ Len(C) \in {0, 1} /\ (Len(C) = 1 => C[1] = eC)
      /\ Len(C) = 0 => \A k \in Parts : before[k] = after[k]
  BY ChangedSays
<1>4. news = A \o B \o C
  BY DEF EmitChanges
<1>5. /\ eA.item = i /\ eA.kind = "status_changed" /\ eA.changes = Diff(before, after, {"status"})
      /\ eB.item = i /\ eB.kind = "parent_changed" /\ eB.changes = Diff(before, after, {"parent"})
      /\ eC.item = i /\ eC.kind = "item_updated" /\ eC.changes = Diff(before, after, Parts)
  OBVIOUS
<1> HIDE DEF A, B, C, eA, eB, eC, e, s
<1>7. A \in Seq(U) /\ B \in Seq(U) /\ C \in Seq(U)
  BY <1>1, <1>2, <1>3, WiderSeq
<1> HIDE DEF U, news
<1> DEFINE a == 1
           b == Len(A) + 1
           c == Len(A) + Len(B) + 1
<1> HIDE DEF a, b, c
<1>8. /\ DOMAIN news = 1..Len(news) /\ Len(news) \in Nat
      /\ \A l \in DOMAIN news :
           \/ Len(A) = 1 /\ l = a /\ news[l] = A[1]
           \/ Len(B) = 1 /\ l = b /\ news[l] = B[1]
           \/ Len(C) = 1 /\ l = c /\ news[l] = C[1]
      /\ Len(A) = 1 => a \in DOMAIN news /\ news[a] = A[1]
      /\ Len(B) = 1 => b \in DOMAIN news /\ news[b] = B[1]
      /\ Len(C) = 1 => c \in DOMAIN news /\ news[c] = C[1]
  <2>1. Len(A) \in {0, 1} /\ Len(B) \in {0, 1} /\ Len(C) \in {0, 1}
    BY <1>1, <1>2, <1>3
  <2>2. InARow(news, A, B, C)
    BY <1>4, <1>7, <2>1, ThreeInARow
  <2> QED BY <2>2, Zenon DEF a, b, c, InARow
<1>9. /\ \A l \in DOMAIN news : (l = a /\ news[l] = eA) \/ (l = b /\ news[l] = eB) \/ (l = c /\ news[l] = eC)
      /\ before["status"] # after["status"] => a \in DOMAIN news /\ news[a] = eA
      /\ before["parent"] # after["parent"] => b \in DOMAIN news /\ news[b] = eB
      /\ \A k \in Parts : before[k] # after[k] => c \in DOMAIN news /\ news[c] = eC
  <2>1. \A l \in DOMAIN news : (l = a /\ news[l] = eA) \/ (l = b /\ news[l] = eB) \/ (l = c /\ news[l] = eC)
    BY <1>1, <1>2, <1>3, <1>8, Zenon
  <2>2. before["status"] # after["status"] => a \in DOMAIN news /\ news[a] = eA
    BY <1>1, <1>8
  <2>3. before["parent"] # after["parent"] => b \in DOMAIN news /\ news[b] = eB
    BY <1>2, <1>8
  <2>4. \A k \in Parts : before[k] # after[k] => c \in DOMAIN news /\ news[c] = eC
    BY <1>3, <1>8
  <2> QED BY <2>1, <2>2, <2>3, <2>4
<1>10. \A l \in DOMAIN news :
         news[l].item = i /\ news[l].kind \in {"status_changed", "parent_changed", "item_updated"}
  BY <1>5, <1>9
<1>11. "status" \notin Parts /\ "parent" \notin Parts
  BY DiscussionAssumption
<1>12. ASSUME NEW k
       PROVE  /\ k \in DOMAIN eA.changes <=> k = "status" /\ before[k] # after[k]
              /\ k \in DOMAIN eB.changes <=> k = "parent" /\ before[k] # after[k]
              /\ k \in DOMAIN eC.changes <=> k \in Parts /\ before[k] # after[k]
              /\ k \in DOMAIN eA.changes => eA.changes[k] = [from |-> before[k], to |-> after[k]]
              /\ k \in DOMAIN eB.changes => eB.changes[k] = [from |-> before[k], to |-> after[k]]
              /\ k \in DOMAIN eC.changes => eC.changes[k] = [from |-> before[k], to |-> after[k]]
  <2>1. /\ k \in DOMAIN Diff(before, after, {"status"}) <=> k = "status" /\ before[k] # after[k]
        /\ k \in DOMAIN Diff(before, after, {"status"}) =>
             Diff(before, after, {"status"})[k] = [from |-> before[k], to |-> after[k]]
    BY DiffSays
  <2>2. /\ k \in DOMAIN Diff(before, after, {"parent"}) <=> k = "parent" /\ before[k] # after[k]
        /\ k \in DOMAIN Diff(before, after, {"parent"}) =>
             Diff(before, after, {"parent"})[k] = [from |-> before[k], to |-> after[k]]
    BY DiffSays
  <2>3. /\ k \in DOMAIN Diff(before, after, Parts) <=> k \in Parts /\ before[k] # after[k]
        /\ k \in DOMAIN Diff(before, after, Parts) =>
             Diff(before, after, Parts)[k] = [from |-> before[k], to |-> after[k]]
    BY DiffSays
  <2> QED BY <1>5, <2>1, <2>2, <2>3, Zenon
<1>13. ASSUME NEW k \in Keys, before[k] = after[k]
       PROVE  \A l \in DOMAIN news : k \notin DOMAIN news[l].changes
  BY <1>9, <1>12, <1>13
<1>14. ASSUME NEW k \in Keys, before[k] # after[k]
       PROVE  \E l \in DOMAIN news :
                /\ k \in DOMAIN news[l].changes
                /\ news[l].changes[k] = [from |-> before[k], to |-> after[k]]
                /\ \A m \in DOMAIN news : k \in DOMAIN news[m].changes => m = l
  <2>1. CASE k = "status"
    <3>1. a \in DOMAIN news /\ news[a] = eA /\ k \in DOMAIN eA.changes
      BY <1>9, <1>12, <1>14, <2>1
    <3>2. \A m \in DOMAIN news : k \in DOMAIN news[m].changes => m = a
      <4>1. k \notin DOMAIN eB.changes /\ k \notin DOMAIN eC.changes
        BY <1>11, <1>12, <2>1
      <4> QED BY <1>9, <4>1
    <3> QED BY <1>12, <3>1, <3>2
  <2>2. CASE k = "parent"
    <3>1. b \in DOMAIN news /\ news[b] = eB /\ k \in DOMAIN eB.changes
      BY <1>9, <1>12, <1>14, <2>2
    <3>2. \A m \in DOMAIN news : k \in DOMAIN news[m].changes => m = b
      <4>1. k \notin DOMAIN eA.changes /\ k \notin DOMAIN eC.changes
        BY <1>11, <1>12, <2>2
      <4> QED BY <1>9, <4>1
    <3> QED BY <1>12, <3>1, <3>2
  <2>3. CASE k \in Parts
    <3>1. c \in DOMAIN news /\ news[c] = eC /\ k \in DOMAIN eC.changes
      BY <1>9, <1>12, <1>14, <2>3
    <3>2. \A m \in DOMAIN news : k \in DOMAIN news[m].changes => m = c
      <4>1. k \notin DOMAIN eA.changes /\ k \notin DOMAIN eB.changes
        BY <1>11, <1>12, <2>3
      <4> QED BY <1>9, <4>1
    <3> QED BY <1>12, <3>1, <3>2
  <2> QED BY <2>1, <2>2, <2>3 DEF Keys
<1> QED BY <1>8, <1>10, <1>13, <1>14 DEF news

\* A chain that a change of the stored value is added to stays whole.
LEMMA ChainGrows ==
  ASSUME Recorded, NEW i, NEW k, Chain(i, k), Live(items[i]), NEW new \in Nat, new > Len(feed),
         Changes(i, k)' = Changes(i, k) \cup {new},
         \A n \in Changes(i, k) : feed'[n] = feed[n],
         feed'[new].changes[k].from = items[i][k], feed'[new].changes[k].to = items'[i][k]
  PROVE  Chain(i, k)'
<1>1. Len(feed) \in Nat /\ \A n \in Changes(i, k) : n \in Nat /\ n <= Len(feed) /\ n < new
  BY FeedIndexes DEF Changes
<1>2. ASSUME NEW n \in Changes(i, k)'
      PROVE  LET later == {m \in Changes(i, k)' : m > n}
                 left  == feed'[n].changes[k].to
             IN  /\ later = {} /\ Live(items'[i]) => left = items'[i][k]
                 /\ \A m \in later : (\A l \in later : m <= l) => left = feed'[m].changes[k].from
  <2> DEFINE later == {m \in Changes(i, k)' : m > n}
  <2>1. CASE n = new
    <3>1. later = {}
      BY <1>1, <2>1
    <3> QED BY <2>1, <3>1
  <2>2. CASE n # new
    <3> DEFINE old == {m \in Changes(i, k) : m > n}
    <3>1. n \in Changes(i, k) /\ later = old \cup {new}
      BY <1>1, <1>2, <2>2
    <3>2. /\ old = {} => feed[n].changes[k].to = items[i][k]
          /\ \A m \in old : (\A l \in old : m <= l) => feed[n].changes[k].to = feed[m].changes[k].from
      BY <3>1 DEF Chain
    <3>3. feed'[n].changes[k].to = feed[n].changes[k].to
      BY <3>1
    <3>4. ASSUME NEW m \in later, \A l \in later : m <= l
          PROVE  feed'[n].changes[k].to = feed'[m].changes[k].from
      <4>1. CASE m = new
        <5>1. old = {}
          BY <1>1, <3>1, <3>4, <4>1
        <5> QED BY <3>2, <3>3, <4>1, <5>1
      <4>2. CASE m # new
        <5>1. m \in old /\ \A l \in old : m <= l
          BY <3>1, <3>4, <4>2
        <5>2. feed'[m] = feed[m]
          BY <5>1
        <5> QED BY <3>2, <3>3, <5>1, <5>2
      <4> QED BY <4>1, <4>2
    <3>5. later # {}
      BY <3>1
    <3> HIDE DEF later, old
    <3> QED BY <3>4, <3>5 DEF later
  <2> QED BY <2>1, <2>2
<1> QED BY <1>2 DEF Chain, Live

\* An update tells of each value that differs, from the one that was stored to
\* the one that is.
LEMMA UpdateItemTells ==
  ASSUME IInv, Recorded, Finite, FeedTells, NEW i \in Items, NEW it \in Item, UpdateItem(i, it)
  PROVE  (Recorded /\ Finite /\ FeedTells)'
<1>1. PICK before, news : before = items[i] /\ news = EmitChanges(i, before, it)
  OBVIOUS
<1>2. /\ Live(items[i]) /\ items[i] # Unborn /\ items[i] # Gone
      /\ items' = [items EXCEPT ![i] = it] /\ Emit(news) /\ UNCHANGED << comments, links >>
  BY <1>1 DEF UpdateItem, Live
<1>3. /\ items'[i] = it /\ it # Unborn /\ it # Gone /\ \A j \in Items \ {i} : items'[j] = items[j]
      /\ \A j \in Items : items[j] # Unborn => items'[j] # Unborn
  BY <1>2, SentinelsAreDistinct DEF IInv, TypeOK, Live
<1>4. /\ DOMAIN news = 1..Len(news) /\ Len(news) \in Nat
      /\ \A l \in DOMAIN news :
           news[l].item = i /\ news[l].kind \in {"status_changed", "parent_changed", "item_updated"}
      /\ \A k \in Keys : before[k] = it[k] => \A l \in DOMAIN news : k \notin DOMAIN news[l].changes
      /\ \A k \in Keys : before[k] # it[k] =>
           \E l \in DOMAIN news :
             /\ k \in DOMAIN news[l].changes
             /\ news[l].changes[k] = [from |-> before[k], to |-> it[k]]
             /\ \A m \in DOMAIN news : k \in DOMAIN news[m].changes => m = l
  BY <1>1, UpdateSays
<1>5. Says(i, news) /\ untold \subseteq untold' /\ \E U : feed' \in Seq(U)
  BY <1>2, <1>4, EmitSays DEF Recorded
<1>6. /\ \A n \in DOMAIN feed : n \in DOMAIN feed' /\ feed'[n] = feed[n]
      /\ \A n \in DOMAIN feed' \ DOMAIN feed :
           /\ feed'[n].item = i /\ n > Len(feed)
           /\ \E l \in DOMAIN news : feed'[n].kind = news[l].kind /\ feed'[n].changes = news[l].changes
  BY <1>5 DEF Says
<1>7. \A j : CommentsOn(j)' = CommentsOn(j) /\ LinksFrom(j)' = LinksFrom(j)
  BY <1>2, SaidAndLinkedStay
<1>8. ASSUME i \notin untold', Tells(i)
      PROVE  Tells(i)'
  <2>1. ASSUME NEW kind, kind \notin {"status_changed", "parent_changed", "item_updated"}
        PROVE  Count(i, kind)' = Count(i, kind)
    <3>1. \A n \in DOMAIN feed' \ DOMAIN feed : feed'[n].kind # kind
      BY <1>4, <1>6, <2>1
    <3>2. Told(i, kind)' = Told(i, kind)
      BY <1>6, <3>1 DEF Told
    <3> QED BY <3>2 DEF Count
  <2>2. \A n \in DOMAIN feed' : feed'[n].item = i =>
          feed'[n].kind = "item_created" \/ \E m \in Told(i, "item_created")' : m < n
    BY <1>2, <1>5, <1>8, AfterCreation DEF Tells
  <2>3. Lifetime(i)'
    BY <1>2, <1>3, <1>8, <2>1, <2>2 DEF Tells, Lifetime
  <2>4. Tally(i)'
    BY <1>7, <1>8, <2>1, TallyStays DEF Tells
  <2>5. ASSUME NEW k \in Keys PROVE Chain(i, k)'
    <3>1. Chain(i, k) /\ \A n \in Changes(i, k) : feed'[n] = feed[n]
      BY <1>6, <1>8 DEF Tells, Changes
    <3>2. CASE before[k] = it[k]
      <4>1. Changes(i, k)' = Changes(i, k)
        BY <1>4, <1>6, <3>2 DEF Changes
      <4> QED BY <1>1, <1>2, <1>3, <3>1, <3>2, <4>1, ChainStays
    <3>3. CASE before[k] # it[k]
      <4>1. PICK l \in DOMAIN news :
              /\ k \in DOMAIN news[l].changes
              /\ news[l].changes[k] = [from |-> before[k], to |-> it[k]]
              /\ \A m \in DOMAIN news : k \in DOMAIN news[m].changes => m = l
        BY <1>4, <3>3
      <4>2. PICK at \in [DOMAIN news -> DOMAIN feed'] :
              /\ \A n \in DOMAIN feed' \ DOMAIN feed : \E m \in DOMAIN news : n = at[m]
              /\ \A m \in DOMAIN news : at[m] > Len(feed) /\ feed'[at[m]].changes = news[m].changes
        BY <1>5, <1>8 DEF Says
      <4> DEFINE new == at[l]
      <4>3. /\ new \in DOMAIN feed' /\ new \in Nat /\ new > Len(feed)
            /\ feed'[new].changes[k] = [from |-> before[k], to |-> it[k]]
            /\ k \in DOMAIN feed'[new].changes
        BY <1>5, <4>1, <4>2, FeedIndexesNext
      <4>4. \A n \in DOMAIN feed' \ DOMAIN feed : k \in DOMAIN feed'[n].changes => n = new
        BY <4>1, <4>2
      <4> HIDE DEF new
      <4>5. new \notin DOMAIN feed
        BY <4>3, FeedIndexes
      <4>6. Changes(i, k)' = Changes(i, k) \cup {new}
        BY <1>6, <4>3, <4>4, <4>5 DEF Changes
      <4>7. /\ feed'[new].changes[k].from = items[i][k]
            /\ feed'[new].changes[k].to = items'[i][k]
        BY <1>1, <1>3, <4>3
      <4> QED BY <1>2, <3>1, <4>3, <4>6, <4>7, ChainGrows
    <3> QED BY <3>2, <3>3
  <2> QED BY <2>3, <2>4, <2>5 DEF Tells
<1>9. FeedTells'
  BY <1>2, <1>3, <1>5, <1>7, <1>8, OneItemSpokenOf
<1>10. Recorded'
  BY <1>3, <1>5, RecordedStep
<1>11. Finite'
  BY <1>2 DEF Finite, Live
<1> QED BY <1>9, <1>10, <1>11

----------------------------------------------------------------------------

\* An empty feed tells everything of an empty store.
LEMMA InitFInv == Init => FInv
<1> SUFFICES ASSUME Init PROVE FInv
  OBVIOUS
<1>1. /\ feed = << >> /\ items = [i \in Items |-> Unborn]
      /\ comments = [c \in Comments |-> Unborn] /\ links = << >>
  BY DEF Init, FeedInit
<1>2. DOMAIN feed = {} /\ DOMAIN links = {} /\ \E S : feed \in Seq(S)
  BY <1>1
<1>3. Recorded
  BY <1>2 DEF Recorded
<1>4. {c \in Comments : Live(comments[c])} = {} /\ \A i : CommentsOn(i) = {} /\ LinksFrom(i) = {}
  BY <1>1, <1>2, SentinelsAreDistinct DEF CommentsOn, LinksFrom
<1>5. Finite
  BY <1>4, FS_EmptySet DEF Finite
<1>6. ASSUME NEW i \in Items
      PROVE  Lifetime(i) /\ Tally(i) /\ \A k \in Keys : Chain(i, k)
  <2>1. items[i] = Unborn /\ Unborn # Gone
    BY <1>1, DiscussionAssumption
  <2>2. /\ \A kind : Count(i, kind) = 0
        /\ \A k : Changes(i, k) = {}
    BY <1>3, <2>1, NothingToldYet
  <2>3. Lifetime(i)
    BY <1>2, <2>1, <2>2 DEF Lifetime
  <2>4. Cardinality(CommentsOn(i)) = 0 /\ Cardinality(LinksFrom(i)) = 0
    BY <1>4, FS_EmptySet, Zenon
  <2>5. /\ Count(i, "comment_added") - Count(i, "comment_deleted") = 0
        /\ Count(i, "link_added") - Count(i, "link_removed") = 0
    BY <2>2
  <2>6. Tally(i)
    BY <2>4, <2>5, Zenon DEF Tally, CommentsOn, LinksFrom
  <2>7. \A k \in Keys : Chain(i, k)
    BY <2>2 DEF Chain
  <2> QED BY <2>3, <2>6, <2>7
<1>7. FeedTells
  BY <1>6 DEF FeedTells
<1> QED BY <1>3, <1>5, <1>7, InitInv DEF FInv

\* What is stored and told stays as it is.
LEMMA NothingHappens ==
  ASSUME Recorded, Finite, FeedTells, UNCHANGED << items, comments, links, feed, untold >>
  PROVE  (Recorded /\ Finite /\ FeedTells)'
<1>1. Recorded' /\ Finite'
  BY DEF Recorded, Finite, Live
<1>2. ASSUME NEW i \in Items \ untold
      PROVE  (Lifetime(i) /\ Tally(i) /\ \A k \in Keys : Chain(i, k))'
  <2>1. Lifetime(i) /\ Tally(i) /\ \A k \in Keys : Chain(i, k)
    BY DEF FeedTells
  <2>2. /\ \A kind : Told(i, kind)' = Told(i, kind)
        /\ \A k : Changes(i, k)' = Changes(i, k)
    BY DEF Told, Changes
  <2>3. \A kind : Count(i, kind)' = Count(i, kind)
    BY <2>2 DEF Count
  <2>4. Lifetime(i)'
    BY <2>1, <2>2, <2>3 DEF Lifetime
  <2>5. Tally(i)'
    BY <2>1, <2>3, SaidAndLinkedStay, TallyStays
  <2>6. ASSUME NEW k \in Keys PROVE Chain(i, k)'
    BY <2>1, <2>2, ChainStays
  <2> QED BY <2>4, <2>5, <2>6
<1>3. FeedTells'
  BY <1>2 DEF FeedTells
<1> QED BY <1>1, <1>3

\* Every step keeps what the feed tells true of the store.
LEMMA FInvStep == FInv /\ [Next]_vars => FInv'
<1> SUFFICES ASSUME FInv, [Next]_vars PROVE (Recorded /\ Finite /\ FeedTells)'
  BY InvStep DEF FInv
<1> USE DEF FInv
<1>1. ASSUME NEW e \in Editors, NEW c \in Comments, Look(e, c)
      PROVE  (Recorded /\ Finite /\ FeedTells)'
  <2>1. UNCHANGED << items, comments, links, feed, untold >>
    BY <1>1 DEF Look, log
  <2> QED BY <2>1, NothingHappens
<1>2. CASE UNCHANGED vars
  <2>1. UNCHANGED << items, comments, links, feed, untold >>
    BY <1>2 DEF vars, log
  <2> QED BY <2>1, NothingHappens
<1> QED BY <1>1, <1>2, CreateItemTells, UpdateItemTells, ReorderItemTells, DeleteItemTells,
           AddCommentTells, EditCommentTells, DeleteCommentTells, AddLinkTells, RemoveLinkTells DEF Next

\* Of an item none of whose events was swallowed, the feed accounts for
\* everything that is stored: that it came and went, the chain of its values,
\* and the number of its comments and links (emit and emitChanges, event.go,
\* and their callers).
THEOREM FeedTellsEverything == Spec => []FeedTells
<1>1. Spec => []FInv
  BY InitFInv, FInvStep, PTL DEF Spec
<1> QED BY <1>1, PTL DEF FInv

=============================================================================
