----------------------------- MODULE Discussion -----------------------------
(***************************************************************************)
(* What people say about items: comments, links between items, and the     *)
(* activity feed every change is told in                                   *)
(* (src/services/api/internal/tracker/store: comment.go, link.go, event.go *)
(* and the calls of emit in item.go and reorder.go).                       *)
(*                                                                         *)
(* Each operation holds the store's write lock from its checks to its      *)
(* events, so each is one step; a refused one changes nothing.  What the   *)
(* schema, the tree and the versions of items allow is in Tracker: here an *)
(* item is written in any way.  A file that cannot be saved makes a call   *)
(* fail before it changes anything (Persistence).                          *)
(***************************************************************************)
EXTENDS Feed, FiniteSets

CONSTANTS
  Statuses,   \* the statuses of the items' type
  Initial,    \* the one an item is created with
  Words,      \* what a part of an item can hold
  NoWord,     \* a part that is empty or a field that is not held
  Nobody,     \* the nil parent
  Comments,   \* comment identifiers
  Texts,      \* bodies of comments
  NoReply,    \* the nil ReplyTo
  Unborn,     \* an identifier not yet minted
  Gone,       \* an identifier that was deleted
  Kinds,      \* link kinds
  Editors,    \* callers that edit comments
  NoCopy,     \* an editor that has read nothing
  MaxVersion  \* bound of the model: how often one comment is written

Keys == {"status", "parent"} \cup Parts

Item ==
  {it \in [Keys -> Statuses \cup Items \cup Words \cup {Nobody, NoWord}] :
     /\ it["status"] \in Statuses
     /\ it["parent"] \in Items \cup {Nobody}
     /\ \A p \in Parts : it[p] \in Words \cup {NoWord}}

Comment ==
  [item : Items, replyTo : Comments \cup {NoReply}, text : Texts, version : Nat \ {0}]

Link == [from : Items, kind : Kinds, to : Items, by : Editors]

Copy == [comment : Comments, text : Texts, version : Nat \ {0}]

ASSUME DiscussionAssumption ==
  /\ Initial \in Statuses /\ {"status", "parent"} \cap Parts = {}
  /\ Unborn \notin Item \cup Comment /\ Gone \notin Item \cup Comment /\ Unborn # Gone
  /\ Nobody \notin Items /\ NoReply \notin Comments /\ NoCopy \notin Copy
  /\ MaxVersion \in Nat

VARIABLES
  items,     \* the stored items
  comments,  \* the stored comments
  links,     \* the stored links, in the order they were added
  copy       \* the comment each editor looked at last, as it was then

vars == << items, comments, links, copy, log >>

Live(x) == x \notin {Unborn, Gone}

\* A fault for the checks: no look at whether the item is there.
FaultyLoad(i) == TRUE

\* load
Load(i) == Live(items[i])

Init ==
  /\ items = [i \in Items |-> Unborn]
  /\ comments = [c \in Comments |-> Unborn]
  /\ links = << >>
  /\ copy = [e \in Editors |-> NoCopy]
  /\ FeedInit

----------------------------------------------------------------------------
(* The items, for what the feed tells of them *)

ParentOK(i, it) ==
  LET up == it["parent"] IN up # Nobody => up # i /\ Live(items[up])

CreateItem(i, it) ==
  /\ items[i] = Unborn
  /\ it["status"] = Initial /\ ParentOK(i, it)
  /\ items' = [items EXCEPT ![i] = it]
  /\ Emit(Event(i, "item_created"))
  /\ UNCHANGED << comments, links, copy >>

UpdateItem(i, it) ==
  /\ Live(items[i]) /\ ParentOK(i, it)
  /\ items' = [items EXCEPT ![i] = it]
  /\ Emit(EmitChanges(i, items[i], it))
  /\ UNCHANGED << comments, links, copy >>

ReorderItem(i) ==
  /\ Live(items[i])
  /\ Emit(Event(i, "item_reordered"))
  /\ UNCHANGED << items, comments, links, copy >>

\* What was said about a deleted item stays, with the links it is an end of.
DeleteItem(i) ==
  /\ Live(items[i])
  /\ \A j \in Items : Live(items[j]) => items[j]["parent"] # i
  /\ items' = [items EXCEPT ![i] = Gone]
  /\ Emit(Event(i, "item_deleted"))
  /\ UNCHANGED << comments, links, copy >>

----------------------------------------------------------------------------
(* Comments *)

\* A fault for the checks: a reply may be replied to.
FaultyCheckReplyTo(i, replyTo) ==
  replyTo # NoReply => Live(comments[replyTo]) /\ comments[replyTo].item = i

\* checkReplyTo: the comment replied to exists, on the item, and is no reply.
CheckReplyTo(i, replyTo) ==
  replyTo # NoReply =>
    /\ Live(comments[replyTo])
    /\ comments[replyTo].item = i
    /\ comments[replyTo].replyTo = NoReply

\* The author holds what it posted.
AddComment(e, c, i, replyTo, text) ==
  /\ comments[c] = Unborn
  /\ Load(i) /\ CheckReplyTo(i, replyTo)
  /\ comments' = [comments EXCEPT ![c] =
       [item |-> i, replyTo |-> replyTo, text |-> text, version |-> 1]]
  /\ copy' = [copy EXCEPT ![e] = [comment |-> c, text |-> text, version |-> 1]]
  /\ Emit(Event(i, "comment_added"))
  /\ UNCHANGED << items, links >>

\* Comments lists the comments of a stored item.
Look(e, c) ==
  /\ Live(comments[c]) /\ Load(comments[c].item)
  /\ copy' = [copy EXCEPT ![e] =
       [comment |-> c, text |-> comments[c].text, version |-> comments[c].version]]
  /\ UNCHANGED << items, comments, links, log >>

\* loadComment
Expected(c, version) == Live(comments[c]) /\ comments[c].version = version

\* A fault for the checks: an edit that keeps the version.
FaultyEdited(comment, text) ==
  [item |-> comment.item, replyTo |-> comment.replyTo, text |-> text, version |-> comment.version]

Edited(comment, text) ==
  [item |-> comment.item, replyTo |-> comment.replyTo, text |-> text, version |-> comment.version + 1]

\* The item may be gone by now.
EditComment(e, text) ==
  /\ copy[e] # NoCopy /\ Expected(copy[e].comment, copy[e].version)
  /\ copy[e].version < MaxVersion
  /\ LET c == copy[e].comment
         edited == Edited(comments[c], text)
     IN  /\ comments' = [comments EXCEPT ![c] = edited]
         /\ copy' = [copy EXCEPT ![e] = [comment |-> c, text |-> text, version |-> edited.version]]
         /\ Emit(Event(comments[c].item, "comment_edited"))
  /\ UNCHANGED << items, links >>

\* The replies to it stay.
DeleteComment(e) ==
  /\ copy[e] # NoCopy /\ Expected(copy[e].comment, copy[e].version)
  /\ comments' = [comments EXCEPT ![copy[e].comment] = Gone]
  /\ copy' = [copy EXCEPT ![e] = NoCopy]
  /\ Emit(Event(comments[copy[e].comment].item, "comment_deleted"))
  /\ UNCHANGED << items, links >>

----------------------------------------------------------------------------
(* Links *)

\* A fault for the checks: who made a link is part of what it is.
FaultySameLink(l, m) == l = m

\* indexOfLink: three parts identify a link.
SameLink(l, m) == l.from = m.from /\ l.kind = m.kind /\ l.to = m.to

\* A link that is there already is not added again, and nothing is told.
AddLink(l) ==
  /\ l.from # l.to
  /\ Load(l.from) /\ Load(l.to)
  /\ \A n \in DOMAIN links : ~SameLink(links[n], l)
  /\ links' = Append(links, l)
  /\ Emit(Event(l.from, "link_added"))
  /\ UNCHANGED << items, comments, copy >>

\* The first that fits is removed.
RemoveLink(l) ==
  \E n \in DOMAIN links :
    /\ SameLink(links[n], l)
    /\ \A m \in 1..(n - 1) : ~SameLink(links[m], l)
    /\ links' = SubSeq(links, 1, n - 1) \o SubSeq(links, n + 1, Len(links))
    /\ Emit(Event(links[n].from, "link_removed"))
    /\ UNCHANGED << items, comments, copy >>

----------------------------------------------------------------------------
Next ==
  \/ \E i \in Items :
       \/ \E it \in Item : CreateItem(i, it) \/ UpdateItem(i, it)
       \/ ReorderItem(i) \/ DeleteItem(i)
  \/ \E e \in Editors :
       \/ \E c \in Comments :
            \/ Look(e, c)
            \/ \E i \in Items, r \in Comments \cup {NoReply}, t \in Texts :
                 AddComment(e, c, i, r, t)
       \/ \E t \in Texts : EditComment(e, t)
       \/ DeleteComment(e)
  \/ \E l \in Link : AddLink(l) \/ RemoveLink(l)

Spec == Init /\ [][Next]_vars

----------------------------------------------------------------------------
TypeOK ==
  /\ items \in [Items -> Item \cup {Unborn, Gone}]
  /\ comments \in [Comments -> Comment \cup {Unborn, Gone}]
  /\ links \in Seq(Link)
  /\ copy \in [Editors -> Copy \cup {NoCopy}]
  /\ \A c \in Comments : Live(comments[c]) => items[comments[c].item] # Unborn
  /\ \A n \in DOMAIN links : Unborn \notin {items[links[n].from], items[links[n].to]}
  /\ untold \subseteq Items
  /\ seq \in Nat

(***************************************************************************)
(* One level of threads: what is replied to, as long as it is there, is a  *)
(* comment on the same item and not itself a reply.                        *)
(***************************************************************************)
Threads ==
  \A c \in Comments :
    Live(comments[c]) /\ comments[c].replyTo # NoReply =>
      LET up == comments[comments[c].replyTo]
      IN  Live(up) => up.item = comments[c].item /\ up.replyTo = NoReply

(***************************************************************************)
(* However many callers add and remove it, a link is there at most once,   *)
(* whoever made it, and never from an item to itself: one RemoveLink takes *)
(* it away.                                                                *)
(***************************************************************************)
LinkedOnce ==
  \A n \in DOMAIN links :
    /\ links[n].from # links[n].to
    /\ \A m \in DOMAIN links : m # n =>
         << links[m].from, links[m].kind, links[m].to >> # << links[n].from, links[n].kind, links[n].to >>

(***************************************************************************)
(* A comment is edited or deleted only by someone who had seen the text    *)
(* that is lost by it: two editors cannot overwrite each other unnoticed.  *)
(***************************************************************************)
NothingOverwritten ==
  [][\A c \in Comments :
       Live(comments[c]) /\ comments'[c] # comments[c] =>
         \E e \in Editors :
           /\ copy[e] # NoCopy /\ copy'[e] # copy[e]
           /\ copy[e].comment = c /\ copy[e].text = comments[c].text]_vars

(***************************************************************************)
(* The feed tells everything.  Of an item none of whose events was         *)
(* swallowed, the feed says when it came and went; each of its changes of  *)
(* a status, a parent or a part starts from the value the one before left, *)
(* and the last leaves what is stored; and the comments and links added    *)
(* less those removed are the ones there are.                              *)
(***************************************************************************)
Told(i, kind) == {n \in DOMAIN feed : feed[n].item = i /\ feed[n].kind = kind}

Count(i, kind) == Cardinality(Told(i, kind))

Lifetime(i) ==
  /\ Count(i, "item_created") = IF items[i] = Unborn THEN 0 ELSE 1
  /\ Count(i, "item_deleted") = IF items[i] = Gone THEN 1 ELSE 0
  /\ \A n \in DOMAIN feed : feed[n].item = i =>
       feed[n].kind = "item_created" \/ \E m \in Told(i, "item_created") : m < n

\* The events that tell of a change of k.
Changes(i, k) == {n \in DOMAIN feed : feed[n].item = i /\ k \in DOMAIN feed[n].changes}

Chain(i, k) ==
  \A n \in Changes(i, k) :
    LET later == {m \in Changes(i, k) : m > n}
        left  == feed[n].changes[k].to
    IN  /\ later = {} /\ Live(items[i]) => left = items[i][k]
        /\ \A m \in later : (\A l \in later : m <= l) => left = feed[m].changes[k].from

Tally(i) ==
  /\ Count(i, "comment_added") - Count(i, "comment_deleted") =
       Cardinality({c \in Comments : Live(comments[c]) /\ comments[c].item = i})
  /\ Count(i, "link_added") - Count(i, "link_removed") =
       Cardinality({n \in DOMAIN links : links[n].from = i})

FeedTells ==
  \A i \in Items \ untold : Lifetime(i) /\ Tally(i) /\ \A k \in Keys : Chain(i, k)
=============================================================================
