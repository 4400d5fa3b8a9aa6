# Verification of oh-my-agents

TLA+ models of the API server (`src/services/api`, Go) and of what it promises
its web client (`src/services/web`), with TLC runs on small instances and TLAPS
proofs for every instance. Paths below are relative to
`src/services/api/internal/` unless they begin with `src/`.

## The system

The server keeps projects. A project has a tracker: a schema of item types, a
tree of items, comments, links between items, and an activity feed. Everything
is in files under the project's root, cached in memory by one store per project
and written through. Clients edit over HTTP or over a socket; every change is
announced on a bus, and a hub hands it to the sockets that have joined the
room. Clients fetch state once and then live on the announcements, which can be
refused, dropped or overtaken on the way.

| component | state | operations | talks to |
| --- | --- | --- | --- |
| rank algebra (`tracker/rank.go`) | none | `Between`, `Validate` | the store calls it |
| schema rules (`tracker/validate_*.go`) | none | `Validate`, `ValidateNew`, `ValidatePatch`, `ValidateItem`, `ApplyDefaults` | the store calls them |
| tracker store (`tracker/store`) | schema, items, comments, links, events, counter; one lock | put/delete type; create, update, delete, reorder item; add/edit/delete comment; add/remove link; queries and pages | persistence below, `announce` hook above |
| tracker persistence (`tracker/fs`) | one file per type, item and comment; `links.json`; `events.jsonl` | `Load`, `Save*`, `Delete*`, `AppendEvent` | the filesystem |
| bus (`bus/memory.go`) | a counter, a bounded channel per subscriber | `Publish`, `Subscribe`, `Close` | store and decorators publish, the hub subscribes |
| hub and connections (`realtime`) | the connections; per connection its rooms, closed flag and bounded queue | `dispatch`, `Connect`, `Join`, `Leave`, `Close` | bus, socket handler |
| socket handler (`realtimews`) | goroutines per socket | read a frame, write a delivery, ping | connections, stores, idempotency keys |
| idempotency (`idempotency/keys.go`) | outcomes by key | `Recall`, `Remember` | socket commands |
| project registry (`projects`) | a settings record per project, a marker file in its root | create, rename, repoint, remove, list | settings store, files |
| announcing decorators (`projectsbus`, `settingsbus`) | none | wrap a store, publish after each write | bus |
| scopes (`scopes`) | the open tracker of each project | open, seed | registry, tracker store |
| settings store (`settings`) | a file per key | get, set, delete, keys | files |
| web client (`src/services/web/src`) | rooms wanted, joins outstanding, generation, items shown | join, send a command, fetch, apply an event | socket, HTTP |

What makes each correct: ranks sort where a drag was dropped; the tracker's
items satisfy their types, form a forest, and are closed bottom-up; memory,
files and feed agree over failures and restarts; the feed accounts for every
change; a page never misses or repeats more than an offset must; a client of
the socket loses nothing without being told to fetch again; a command sent
twice under its key runs once and is answered truly; a project stays listed and removable as
long as anything of it is left; what a page shows, once all is quiet, is what
is stored.

What is hard, and where:

- **Long legal sequences.** The tree, the resolution gate and the schema are
  kept by guards in several operations that have to agree (`store/enforce.go`,
  `store/core.go`); ranks are built on ranks that earlier drags left
  (`rank.go`).
- **Failure between two steps.** A write goes to the file, to the memory, to
  the feed and to the bus, in this order; each can fail and the process can
  stop (`store/item.go`, `store/event.go`, `fs/files.go`).
- **Interleaving.** Publishers, the hub's pump and two goroutines per socket
  share the connections; both queues are bounded and lossy (`bus`,
  `realtime`).
- **Read-modify-write without a lock.** Project records and their directories
  (`projects/mutate.go`), commands between `Recall` and `Remember`
  (`realtimews/commands.go`).
- **Reads that span writes.** Pages by offset (`store/page.go`), a feed that is
  resumed (`store/event.go`), the page in the browser, which merges fetched
  lists with events (`hooks/useTracker.ts`, `hooks/useProjects.ts`).

`PROJECT.json` lists the hazards at their lines.

## Modules

| module | models | state and actions |
| --- | --- | --- |
| `Ranks` | `rank.go` | A rank is a sequence of digits below `Base` (26 in the code), `Less` is Go's string comparison. The loop of `Between` is `StopAt` (the first position with room) and `Minted` (what it has written by then). |
| `Order` | creation, `Reorder` and deletion as far as ranks go | `rank`: item to rank. `CreateItem`, `Reorder`, `DeleteItem`. |
| `Trees` | the walks of `enforce.go` | `AncestorsOf` is the least set closed under the parent link: what the loop of `ancestorsOf` collects. `Below` is what `unresolvedBelow` recurses over. |
| `Schema` | `validate_item.go`, `validate_schema.go`, `validate_field.go` | One operator per function. A field's kind and options are the set of values it accepts. |
| `Tracker` | `store/core.go`, `item.go`, `enforce.go` | `schema`, `items`, `minted`. One action per write: `PutItemType`, `DeleteItemType`, `CreateItem`, `UpdateItem`, `DeleteItem`. Each runs under the store's write lock, so each is one step; a refused call changes nothing. |
| `AtomicStore` | what a caller may rely on | A call takes effect at once or not at all and is answered accordingly; a crash may leave it unanswered. |
| `Persistence` | the write path of every store operation, `fs` and `New` | Memory (`mem`, `feed`, `seq`), files (`disk`, `log`, `unended`), the operation in flight. `Begin`, `Save` or `SaveFails`, `Apply`, per event `EmitRecorded`, `EmitRefused`, `EmitTorn` or `EmitUnsynced`, `Answer`; `Crash` and `Reopen` (`Load` and `New`). |
| `Realtime` | `bus/memory.go`, `realtime`, the writer of `realtimews/handler.go` | Bus (`seq`, `backlog`, and `dropped`, the messages that found it full and after which none was queued), hub (`last`, `begun`), pump (`job`, `gap`, `left`, `at`), connections (`life`, `rooms`, `out`). One step per lock acquisition or channel operation: `Take`, `Visit`, `Joined`, `Lock`, `Send`, `Drain`, `Dispatched`; `Connect`, `Join`, `Leave`, `Write`, `Close`, `Forget`, `End`; `Publish`. `due` is no state of the code: it records what each client has to hear of. |
| `KeyValue` | the contract of a settings store, as `settings/memory.go` has it | `docs`, the open `call`s. `Begin`, `Effect`, `Fail`. |
| `Settings` | `settings/fs.go`, `atomic.go` | `file` and temporary files per key; the steps `WriteTemp`, `Rename`, `DropTemp`, `RemoveFile`, `Missing`, for whoever takes them. `Inside` says which key's document sits in the path of another's directory. |
| `Commands` | `realtimews/commands.go`, `projects.go`, `tracker.go`, `idempotency/keys.go`, `settingsbus`, the client's `command` and `abandon` | Sockets with the job each reader is at, the memory `seen`, what commands made, what clients were told and show. `Send`, `Receive` (`Recall`), the command's own steps, `Announce`, `Remember`, `Answer`; `Drop`, `SocketDies`, `Age`, `Crash`. A command is one call with one key. The page sends each once (`Send`); after a drop, what is wanted (`wish`) is tried by another call with another key. `Resend`, the same command under the same key, is what `idempotency/keys.go` and the handler's tests expect of a client; the repository has none that does it. The commands rename, repoint and remove of a project are the calls of `Registry`: removing and creating one can fail with its directory gone or made, which no answer tells. |
| `Registry` | `projects`, `projectsbus`, PATCH of `projectshttp` | `record`, `dir` (marker and types), the open `call`s. A call is the script of its steps (`Script`): `Read`, `Mark`, `Put`, `Check`, `Clear`, `DeleteRecord`, `Announce`; each may fail, `Crash` cuts them all. |
| `Scopes` | `scopes` | The cached `tracker` of each project over `Registry`: `OpenTracker` (with `Seeded`), `Author` (a type put or deleted), `Write` (a setting), `Restart`. |
| `Feed` | `store/event.go` | `feed`, `seq`; `Emit` and `EmitChanges` as operators the writers use. |
| `Discussion` | `store/comment.go`, `link.go` and the events of `item.go`, `reorder.go` | Items, comments, links, the copy each editor has read. One action per operation, each one step under the store's lock. |
| `Pages` | `store/page.go` | `Paginate` over a sequence of rows. |
| `Listing` | `store/find.go`, `tree.go`, the reads of `comment.go` and `event.go`, `trackerhttp/query.go` | A reader (`query`, `cursor`, `seen`) that pages while writers create, update, move, reorder, delete and comment: `ReadPage`, `Resume`, and an action per writer. It begins with any store that is consistent and a forest, its feed as failed appends and restarts left it (`ListingAssumption`). Identifiers are numbers, since all that is asked of one is how it compares. |
| `WebSync` | `realtime/client.ts`, `membership.ts`, `hooks/useRealtime.ts`, `useTracker.ts`, `useProjects.ts`, `tracker/api.ts`, and the server as far as it is heard | The socket both ways, joins outstanding, requests in flight, what is rendered. `Rejoin`, `ReceiveAck`, `ReceiveResync`, `ReceiveEvent`, `Render`, the answers and failures of fetches, of which a tracker's list is one page (`ServeList`); on the server `Change` and, as steps of their own, `Announce` and `Lose`: a project's announcements wait in any number and pass each other, a tracker's is made under the lock of its write (`Locked`); `FallBehind`, `ServeJoin`. |
| `MC*` | constants and catalogs for TLC | |
| `StoreProofs`, `TrackerProofs`, `ListingProofs`, `RealtimeProofs`, `DiscussionProofs`, `ScopesProofs`, `CommandsProofs`, `WebSyncProofs` | theorems and their lemmas, those of `Ranks`, `Order` and `Persistence` in `StoreProofs`, of `Trees` in `TrackerProofs`, of `Pages` in `ListingProofs`, of `Registry` in `ScopesProofs`, of `Settings` in `CommandsProofs` | |

`Order` extends `Ranks`; `Tracker` extends `Schema` and `Trees`; `Persistence`
instantiates `AtomicStore` under its refinement mapping. `Commands` extends
`Settings` and instantiates `KeyValue`; `Scopes` extends `Registry`;
`Discussion` extends `Feed`, `Listing` extends `Feed`, `Pages` and `Trees`.
An operator called `Faulty...` is a plausible bug in the definition that follows it; replacing the
definition by it must break a property.

## Runs

Passing:

| run | bounds | shows |
| --- | --- | --- |
| `order` | 3 items, 4 letters, ranks of up to 2 | New items sort last; a drag lands where there is room. Four letters are the fewest for which a midpoint, an adjacent pair and an open end all differ; with two letters per rank they run out after a few drags, which is when `Between` gets interesting. |
| `tracker` | 3 items, 2 types redefined over one field, 3 versions of an item | Every item satisfies its type, the forest and the gate, while items and definitions change. Three items make a grandparent, and a subtree to move beneath it; one type is born unresolved, the other resolved; the definitions add, require, default and drop the field. |
| `persistence` | 2 entities, 1 value, 4 events, at most 2 per operation | Atomicity, write-through and numbering over every failure and crash. Two events per operation allow a failure between them; four numbers allow two restarts with records before and after each. |
| `realtime` | 1 connection, 2 rooms, 5 messages, backlog 2, queue 2 | No silent loss, no use of a closed queue, the shape of a queue, and that everything due is heard, fetched again, or the client is gone; all but for messages dropped with nothing queued after them, of which nobody is told. Both queues overflow; a message may go to two rooms, as `dispatch` allows. Connections do not affect each other except through the pump, and the proofs cover any number. |
| `workspace` | 2 projects, names, directories and callers, 4 calls, 1 restart | `Removable` and `RecordGoesLast`: no directory is orphaned. `Kept`: nothing acknowledged is undone. `NewsIsCurrent`: a listener ends with the record. `Restartable`: the cached tracker is the one of the project. Two callers make every pair of calls overlap, four calls let two follow what the others left. |
| `commands` | 2 commands, 2 sockets, 6 plans, memory of 1, 3 frames, 1 restart | At most once and true answers per key, over replays, forgotten outcomes and dead sockets; `TwiceIfUnknown`: two calls of a page for one thing are both applied only if one was rejected with its socket; listeners are told; the files implement `KeyValue`. The plans pair the commands that meet: on one key, on colliding paths, a creation with an edit, two creations, and two calls of a page for one thing. Three frames replay one of two commands. |
| `discussion` | 2 items, 3 comments, 2 editors, 1 kind of link, 5 events, 1 of them lost, 2 versions | One level of threads, links a set, no text lost unseen, and a feed from which all can be recounted. Three comments make a reply to a reply attempted; two editors make one copy stale. |
| `listing` | 3 items, 3 comments, 8 queries accepted and 2 refused, pages of 1, 2 writes | `Steady` is what an offset is worth, exactly. `HandledOnce`: the feed can be resumed and paged. `GateAgrees`: two walks, one answer. Pages of one put every row at a boundary; one event is missing from the feed, so numbers and positions differ. |
| `web` | 2 identifiers, 2 values, 2 rooms, pages of 1, 2 writes, 2 troubles | When all is quiet, the page shows what is stored, but for the losses listed with `Current`; and it becomes quiet. A trouble is a dropped socket, a lost announcement, a resync or a failed fetch; two of them let a loss meet a drop. Two writes are what one announcement needs to overtake another; a page of one leaves the second item out; two rooms make the first acknowledgement differ from the last. |

Every bound on a counter (`Max...`, `Limit`) is a guard or a constant named in
its module. Symmetry is used for items, connections, sockets and editors, never
in a run that checks liveness. The runs with `CHECK_DEADLOCK FALSE` may stop: an
unreadable feed keeps a tracker closed, nobody has to publish, connect, call or
write, and a reader that has had its last page is done.

Where the code leaves a race open, the property says so by name and holds
everywhere else. None of these exclusions is for convenience: without it TLC
finds the property violated in the same instance. "What the properties leave
out", below, lists what happens then.

| property | leaves out | recorded in |
| --- | --- | --- |
| `AtMostOnce`, `AnswersAreTrue` | a command whose outcome was forgotten, or that began on two sockets at once | `excused` (`Commands`) |
| `TwiceIfUnknown` | a call rejected because its socket dropped | nothing: it is what the client knows |
| `ShownOrComing` | a subject changed for a socket or a process that was gone before the announcement | `unheard` |
| `NoSilentLoss`, `Heard` | messages the bus dropped with none queued after them | `dropped` |
| `Kept` | projects on which calls that write different fields overlapped | `mixed` |
| `NewsIsCurrent` | projects on which any two calls overlapped, or whose last announcement was lost | `raced`, `lost` |
| `Removable` | directories with two owners, in which a step stopped part way, or on whose project calls overlapped | `claims`, `cut`, `raced` |
| `RecordGoesLast` | the same, but for the steps that stopped | `claims`, `raced` |
| `Restartable` | projects whose directory was moved or removed under the open tracker, or has two owners | `moved`, `claims` |
| `Current` | what the hooks, the page limit, or a lost or late announcement keep from the page | `excused` (`WebSync`), `late` |

The variables in the last column are no state of the code and no guard reads
them.

Violations, each of something the source says of itself:

| run | what the source says | what happens |
| --- | --- | --- |
| `order_drop_lands` | "mints a rank that sorts after prev and before next" (`rank.go:28`) | Between `yt` and `zn` it mints `yq`. Starts from a project six creations and three deletions old. |
| `tracker_recategorised` | the gate (`contract.go:42`), "a change that would invalidate stored items is refused" (`core.go:106`) | A redefinition may swap a status's category under stored items. |
| `feed_torn` | "the cost is a gap in the feed" (`store/event.go:14`) | A partial append is swallowed, and the next start refuses the tracker. |

### What the properties leave out

Each of these is a behaviour of the models, found by TLC once the exclusion of
the property named is taken away, or the words of the source are stated as a
property. Where the source says otherwise its words are quoted.

Of the socket and the bus:

- *A message dropped last* (`NoSilentLoss`). The bus drops a message because the
  hub is behind: "it will see the gap in Seq" (`bus/memory.go:49`). The gap shows
  with the next message only; if none is published, no client is ever told.
- *A change nobody hears of* (`ShownOrComing`). "Every change reaches every
  client" (ADR-0010, line 67). The announcement is made with the context of the
  command. When the socket dies between the write and the announcement the bus
  refuses it (`bus/memory.go:35`), the refusal is swallowed
  (`scopes/tracker.go:68`), and no number is used, so no gap shows either.
- *A page's second try* (`TwiceIfUnknown`). "the key makes a command replayed
  after a reconnect safe to send again" (`client.ts:69`), "which is exactly what
  the idempotency key on the retry is for" (`pending.ts:45`). `command` makes a
  new identifier and a new key for each call, `abandon` only rejects, and nothing
  sends a command again. When the server applied the rejected call, the second
  call is applied too.
- *A replay that overtakes the first run* (`AtMostOnce`). "the server recognizes
  the key rather than applying the write twice" (ADR-0008, line 44). `Recall`,
  the command and `Remember` are three steps: a client that keeps its key and
  connects again while the first run is under way is not recognized.

Of projects:

- *A renaming undoes* (`Kept`). "Rename changes display text only"
  (`projects/store.go:16`). It reads the record, another caller re-points or
  removes the project, and it writes the whole record back: the old root, or a
  record that had been removed.
- *A removal that cannot be repeated* (`Removable`). A failure "leaves the project
  still listed and still removable" (`projects/mutate.go:59`). `RemoveAll` deletes
  in no promised order; once the marker is gone `checkMarker` refuses every later
  removal.
- *A directory left behind* (`Removable`, `RecordGoesLast`). "Remove deletes the
  record **and the root directory**" (`projects/store.go:26`). A setting written
  between the two brings the directory back (`settings/fs.go`, `MkdirAll`), without
  a marker, and the record goes.
- *An older record announced last* (`NewsIsCurrent`). "so the list stays current
  without a fetch after every change" (`projects/reduce.ts:12`). Of two calls the
  one that wrote first can announce last (`projectsbus/store.go:62`), and every
  client keeps its older record.
- *A tracker at the old root* (`Restartable`). "the tracker for one project, rooted
  at its own directory" (`scopes/tracker.go:17`). It is cached at the root its first
  caller read, and stays there when the project is re-pointed.
- *The starter type comes back* (`TrackerIsOne` stops at a restart). "never
  comes back after being deleted" (`scopes/seed.go:29`). A schema whose last type was deleted is empty,
  so the next start seeds it again.

Of the feed and the page:

- *A late line* (`NeverRepeats` says nothing of it). A reader "resumes by asking
  for everything after the last Seq it handled" (`tracker/event.go:13`). A line
  that was written and not synced is not shown until a restart, and then with a
  number below some that readers have handled.
- *Two events in one render* (`Current`). "kept current without polling"
  (`useTracker.ts:16`). With nothing lost and nothing failing, two events close
  together leave the page wrong until the next generation; so does a late answer
  that replaces what is newer.
- *The first page* (`Current`). "The schema and the item list are fetched once per
  `generation`" (`useTracker.ts:18`). The request names no limit and follows no
  cursor (`tracker/api.ts:15`), so the list is the first fifty items
  (`tracker/store/page.go:12`). `PageSize` stands for the fifty.

Further disagreements between the code and its words, met while modelling, with
no run of their own:

- Accepted drags can mint ranks ending in the first letter, which `Validate`
  refuses (`rank.go:70`).
- An append that was refused gives its number to the next event after a
  restart, so that not even a gap remains.
- A project can be created in, or re-pointed to, another project's directory,
  whose marker is then replaced.
- `Reorder` reports the drag as made by whoever last updated the item, though
  `ports.go:53` says every mutation names its actor.
- `EditComment`, `DeleteComment` and `RemoveLink` work on what belongs to a
  deleted item; editing and deleting comments, links, and the feed are not yet
  reachable over HTTP or the socket.
- The board sorts by rank, but a reordering is not among the events the page
  follows (`tracker/types.ts:100`).

## Fairness

Two specifications assume any. In `Realtime` the pump is one goroutine that
waits for nothing but locks held for a few instructions: weak fairness of its
steps taken together. A writer with something in its queue either sends it or
learns, from the failed write or from the unanswered ping of `keepalive`, that
the socket is dead, and closes: weak fairness of `Write(c) \/ Close(c)` while
the queue is not empty. An idle connection may stay open for ever. Publishing,
joining and connecting are up to others and get none: so nothing has to come
after a message that was dropped, and `Heard` cannot promise that one.

In `WebSync` weak fairness of `Settle`, everything that happens without
anybody's doing: a caller goes on from its write to the announcement, the socket reconnects for as long as the page is open
(`retry` in `socket.ts` gives up only when told to stop), frames and answers arrive or fail,
and React renders after a change of state. Writes, losses, drops and failures get
none and are bounded: the page is promised to come to rest only once they cease.

## Proofs

All hold for every value of the constants, under the named assumptions of the
modules: at least two letters (`BaseAssumption`), sentinels that are no values
(`NoRankAssumption`, `SentinelAssumption`, `PersistenceAssumption`,
`RealtimeAssumption`, `DiscussionAssumption`, `RegistryAssumption`,
`CommandsAssumption`, `WebAssumption`), finitely many items (`ItemsAssumption`,
`TrackerAssumption`), a store that is consistent and a forest when its
reader comes and writers that keep to the schema (`ListingAssumption`), pages of at least one
row (`LimitAssumption`), room for one entry in a queue and one outcome in the
memory (`RealtimeAssumption`, `CommandsAssumption`). The bounds of the models
(`Max...`) are constants like the others: nothing is proved only up to one of
them.

- **Ranks.** `Stops`: the loop of `Between` ends, at most one position past the
  longer rank. `AppendSortsLast`, `RoomyIsBetween`: it keeps its promise for an
  open end and wherever the two ranks leave room where they first differ, which
  is as much as can be proved: `order_drop_lands` is the rest.
- **Order.** `OrderTypeCorrect` is inductive; `CreationAppends` and
  `RoomyDropsLand` are step properties that follow from it and the rank
  theorems, using that a finite set of ranks has a greatest one.
- **Tracker.** `TrackerTypeCorrect`, then `TrackerForest` (the cycle check of
  `checkAttach` suffices at any depth: `MoveKeepsAcyclic`), then
  `TrackerConforms`. `TrackerGate` needs a strengthening: `SettledBelow` speaks
  of all depths and a step is only checked at some, so what is inductive is
  `GateAtEdge`, the same for a parent and its child, together with the forest,
  and the lemma `ClosedReachesDeep` lifts it to all depths. Its proviso,
  `StableCatalog`, is what `tracker_recategorised` shows to be missing.
- **Persistence.** The invariant `IInv` adds to `TypeOK` where the operation
  has got to (`Progress`), that the decodable lines of the feed are in order
  and below the counter (`LogOrdered`), and that what readers saw is still in
  the feed (`ShownIsKept`): without the last, a restart could hand out a number
  seen before. `MemoryWritesThrough`, `SequenceNeverRepeats` and `StoreIsAtomic`
  (every step of `Persistence` is one of `AtomicStore` or invisible to it)
  follow.
- **Realtime.** `RealtimeTypeCorrect` includes that no queue grows beyond its
  limit. `RealtimeClosedSafe` follows from `LockInv`: the lock the pump holds
  keeps the connection open, because `Close` waits for it.
  `RealtimeQueuesInOrder` needs `QueueInv`: what is queued is numbered up to
  what the hub has taken, and below the message being dispatched for a
  connection not yet visited. `RealtimeLosesNothingSilently` is
  `NoSilentLoss`, which is not inductive. It needs the backlog numbered above
  what the hub has taken (`FeedInv`), and something in it at or above every
  message due and not `dropped` (`TailInv`), so that a message the bus dropped
  shows as a gap as soon as one after it is queued; that the branch the pump
  takes is the gap's (`PumpInv`); and that what is due to a client is due in a room of
  the message it is still in, and one the visit has yet to ask for (`DueInv`),
  so that a visit never ends without a word. `DueInv` also covers the first
  message the hub takes, which can show no gap: nothing below it is due,
  because a message is dropped only when others wait before it.

- **Discussion.** The invariant `IInv` adds two things to what is promised.
  `Rooted`: a comment that is replied to was minted before, so a new comment
  cannot turn out to be somebody's parent; `Threads` needs it. `Faithful`: an
  editor's copy is never newer than the comment, and shows its text if it is of
  the same version; with it the comparison of versions, which is all the code
  does, implies `EditsAreSeen`, which speaks of texts. `LinksAreASet` follows
  from the search `AddLink` makes under the lock, over sequences of any length.
  `FeedTellsEverything` proves `FeedTells` by a second invariant over the first:
  `Recorded`, nothing is told of an item before it is created, so that its
  counts start from zero; and `Finite`, finitely many comments are there, so
  that they can be counted. `EmitSays` states once what an operation appends
  (all of its events in order, or its item is among the untold) and `Says` is
  all the other lemmas use of it. One event more is one more of its kind
  (`OneMore`); a link taken out of the middle is one less (`LinksLeft`, by a
  bijection); `UpdateSays`, that each value that differs is told in exactly one
  of the up to three events of an update, is what `ChainGrows` needs.

- **Listing.** `Steady` speaks of rows given; a step moves rows and a cursor.
  `InPlace` relates the two: a row that did not come forward was given or has at
  least `cursor` rows ahead of it, and one that did not go back was given at
  most once and then lies before the cursor. Its step for `ReadPage` rests on
  `SortedLists` (the identifier breaks every tie, so a listing holds each row
  once and every two of its rows are in order), on `AheadIs` (the k-th row has k - 1
  ahead of it: a bijection with the positions before it) and on `PageIs`.
  `UpToDate` does for the feed what `HandledOnce` says, page by page: what a
  reader was given, and what it has handled, are the selected events up to the
  number it has reached, in order. As the feed grows at its end only and by
  greater numbers (`EmitGrows`), what was given is always the beginning of what
  is listed (`IsThePrefix`), so the next page continues it (`GrowsInOrder`).
  `Written` proves once what any write does to a reader; what is left of each
  writer is that the store stays consistent (`Put`, `PutComment`).
  `ListingTypeCorrect`, `PagesAreSteady` and `FeedHandledOnce` follow.
  `GateIsWhatIsListed` is about two walks over one forest, so the store has to
  stay one: `ForestStep`, by `PlacedKeepsAcyclic` (what `checkAttach` asks of
  one item is enough at every depth). Then what is below an item is at or below
  exactly one of its children (`BelowIsUnderChildren`: of two items on one walk
  one is above the other, `WalksAreLines`), which is one step of either
  recursion, over the children (`CountUnder`) and over the tree. A recursive
  function is any solution of its equation: `SumUnfolds` and `CountUnfolds` show
  one exists, by naming the cardinalities as one. That every solution agrees
  with them (`SumOfChildren`, `CountsBelow`) is the induction, done without
  the induction theorems: where two differed there would be a least set at which
  they do (`LeastOf`), and the step from its parts excludes that.

- **Registry and scopes.** A call is a script of steps that other calls come
  between, so `Inv` has to say what an open call knows at each step. `HasRead`:
  a call past its first read holds a record, its own project's. `Minted` and
  `Creating`: nobody else knows a project that is being created. `Counted`:
  on a project that is not `raced` no two calls that write are open. From these
  `Agreeing`: what such a call read is still what is stored, in the fields it
  will write back, although it writes without a lock. That makes `Kept`
  inductive. `Claimed` and `Marks` follow a marker from `Mark` to `Clear`:
  between the clearing and the deletion of the record the directory is gone,
  which is `RecordGoesLast`, and at any other time it is marked, which is
  `Removable`. `News` holds an announcement against what was stored when it was
  due. `Opening` does for the tracker what `Agreeing` does for the record, and
  gives `Restartable`. `OneTracker` (`TrackerIsOne`) is a property of steps that
  needs only the types, and no run checks it: opening never replaces a tracker
  that is there.
- **Commands.** All is said of one key, however often it is sent. The heart is
  `Followed`, of a command under a key that is
  not `excused`: at most one run is under way; a run before its effect found
  none, and a run after it carries an outcome that is true (`TrueOf`); a
  remembered outcome is true, young, and all that was told; if nothing is
  remembered nothing was told, and nothing happened but in the run. Neither
  `AtMostOnce` nor `AnswersAreTrue` is inductive alone, since the second run
  starts from what the first remembered. `Owned` ties each temporary file to
  the writer that will rename or drop it. `ShownOrComing` is inductive over the
  types. `SettingsKeepPromise` is the refinement: `WriteTemp` and the faults of
  a call are invisible to the contract, the rename or the removal is its
  `Effect`, a restart fails every open call.
- **Web client.** `ShownIsCurrent` speaks of a page at rest; `Inv` says what is
  true on the way. Unless a new generation is coming (`Reloading`), for every
  identifier that is not excused what is stored is still to be announced
  (`Untold`), or an event on the wire tells of it (`Pending`), or one waits to
  be rendered (`ToRender`), or whatever the requests in flight bring is what is
  stored (`Arriving`). `WireTells`: the last event on an identifier carries what
  is stored, unless that is still to be announced or the event is known to be
  late (`Honest`); `LatestTells` says so of the event that waits. `Connected` is
  why a generation is coming whenever a room is not joined: the joins of an open
  socket are awaited until acknowledged (`outstanding`), and the last
  acknowledgement starts it.

Only model-checked:

- `Heard` and `ComesToRest`: liveness under fairness is out of the prover's
  reach.
- `TwiceIfUnknown`.
- The violations: what is proved stops where they begin.

## Not modelled

- Decoding and encoding of HTTP and frames, status codes, configuration,
  logging, the spelling of keys, names and paths: no state of their own.
- `Close` of the bus and shutdown: nothing runs after them.
- Loss of power: it depends on the order in which a filesystem commits
  directory entries, not on this code.
- `List` of the registry and `Keys` of the settings store: reads that change
  nothing.
- In the browser: rooms that change while the page is open, the drag's drop
  position on the board, tombstones, and rendering.
- The contract suites shared by the tests (`projectstest`, `trackertest`,
  `bustest`, `settingstest`): they say what the code promises and run nothing
  in the server.

- A client that keeps its idempotency keys (`Resend`) is not in the repository;
  it is modelled as the server expects it, and marked external.

Worth doing next: `Announce` of the tracker composed with `Realtime`, so that
what `WebSync` assumes of its wire (a lost announcement is followed by a resync
once a later one is seen) is shown by refinement; the board's drop position over
`Order`.
