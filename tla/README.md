# Mindarchy: a verification project in TLA+

Mindarchy is a mind map editor (C++ and Qt). Its maps can be shared: a Go server
keeps them in CouchDB and merges the edits of several desktop clients live, over
WebSockets. This directory models the parts of the program where the *order* of
events decides whether an edit, a role, a document or a window is kept: on the
server the live rooms and the sharing service, between the two the live session
of the clients, and in the client the editing engine with its history and the
application with its windows and the protocol by which they quit. TLC checks the
models on small instances; the safety properties of the live rooms, the sharing
service, the live session and the application are proved with TLAPS for every
value of the constants.

Paths below are relative to the repository's root; `B/` stands for
`backend/internal/` and `C/` for `src/collaboration/`.

## 1. The system

```
  Engine  --changed-->  ShareCoordinator  --edit-->  liveV2Handler  -->  LiveRoom
 (document)            (outbox in SQLite)           (one per conn.)    (one per map)
    ^                         |   ^                       |                 |
    |   remote state          |   +-- hello, applied, ----+  one lock per   |
    +-------------------------+       durable                 map, held     |
                                                              across store  v
  ShareClient --HTTP--> sharing.Service (cached access lists) --------> CouchDB
  (login, maps)                                              heads (compare-and-swap)
                                                             batches, receipts, invitations
```

### Components

| Component | State | Operations | What is hard | What makes it correct |
|---|---|---|---|---|
| **Live rooms** `B/rooms/live.go`, `receipts.go`, `manager.go` | document, pending edits, recent receipts, timer, copy of the head, subscribers | `OpenLive`, `Subscribe`/leave, `SubmitTo`, `Flush`, `recoverCommit`, `indexCommittedReceipts`, `CloseLive` | store calls that fail, lose their answer or are applied late; crashes; other writers of the head; retries | every edit is committed at most once, acknowledged only when durable, never dropped, and a flush is always scheduled |
| **CouchDB access** `B/couch` | none of its own: head, immutable batches and receipts | compare-and-swap, `PutImmutable(s)`, loads | a PUT whose answer is lost, a bulk write of which a part succeeds | a head write applies only to the head it was computed from |
| **Live WebSocket handler** `B/httpapi/live_v2.go` | a bounded queue per connection | accept, read loop, writer | the room is obtained before and subscribed to after the upgrade; slow peers are cut | every subscriber is in the room of its map |
| **Sharing service** `B/sharing`, HTTP part `B/httpapi/server.go` | cached map (access list, content, revision), invitations, lock | `Create`, `Get`, `hydrateCurrent`, `Invite`, `Accept` | requests load without the lock and install later; writes that fail after the cache was changed | nobody has a role that was not offered; no edit is taken back; what was granted is durable |
| **Share coordinator** `C/sharecoordinator.cpp` | visible document, applied identifiers, epoch, revision, deferred handshake | capture, hello/applied/durable, drain, renew, sign in and out | frames that arrive while local edits are captured or cannot be captured; reconnections; restarts of either side | no captured edit is lost, its author always sees it, all clients converge |
| **Outbox, session, transport** `C/localstore.cpp`, `session.cpp`, `sharetransport.cpp` | SQLite outbox, stored document, connection | enqueue, clear, reconnect with backoff | crash between two steps | cleared by receipts only |
| **Retention** `B/rooms/retention.go`, maintenance command | garbage plan in the head | `Checkpoint`, `Collect` | crash between the deletions; readers of an older head | every document a reader can reach exists |
| **Version 1 rooms** `B/rooms/room.go`, `manager.go` `SubmitWithStatus` | as live rooms, one commit per submission | submit, replay | counters reused, duplicates | same as an in-memory room |
| **Live operations** `B/liveops`, `C/liveoperations.cpp` | none | diff, apply, normalize, project | concurrent moves and deletions | the result is a tree; what is laid over the room's map is what the editor shows |
| **Presence** `B/httpapi/server.go` | last heartbeat of each account | heartbeat, janitor, broadcast | rosters computed under the lock and written after it | the last roster sent is the present one |
| **Client login, map list** `C/shareclient.cpp` | login in flight, renewal timer, session | login, restore, sign out | answers that arrive after a sign-out or a change of server; several tabs | a sign-out is final; a remembered login is renewed |
| **Engine** `src/engine.cpp` | document, selection, undo and redo, file, clean mark | some forty commands, undo, redo, open, save, clipboard, remote documents | the history is rewritten by edits of others; a cached answer to "is anything unsaved?"; local numbers of nodes that others hold on to | undo takes back one's own edits only; whatever is shown can be opened again; closing loses nothing |
| **Document session, recovery** `src/documentsession.h`, `src/documentrecovery.h` | registry of windows in a locked file, a snapshot of each window | register, vote, poll, checkpoint, discard | a window may close, refuse, save or be asked about in the middle of a quit, and the process may die in it | all windows quit or none; what is not saved is in a snapshot; what was closed does not come back |
| **Desktop application** `src/macapplication.cpp`, `qml/MindWorkspace.qml` | documents, native windows that host them as tabs, the one in front, `m_quitting` | start, open, close, tabs, quit | activation is refused while a prompt or a quit blocks what shows | no native window goes blank; a quit ends; the tabs come back as they were |
| **Authentication, listings, HTTP decoding** | none | calls to CouchDB, views | | |
| **Automerge experiment** `B/collab` | | | used by a fixture program and tests only | |
| **Canvas, drawing, themes, QML** | | | layout and toolkit calls, no protocol | |

`PROJECT.json` lists them with their sources and status; its `hazards` name every
place of this code that is hard to test, with the properties that watch it.

### How the components interact

* One *head* document per map is the only thing that two writers contend for:
  flushes of the live room, acceptances of the sharing service, maintenance.
  It is written by compare-and-swap on its revision. Batches and receipts are
  immutable.
* A live room is one object in one server process, guarded by the map's lock
  that its operations hold *while they talk to CouchDB*. The sharing service
  uses the same store but another lock (`s.mu`), held across store calls only in
  `Accept`.
* In the client, `Engine::changed` is emitted by every command; the coordinator
  compares the document with what it last saw and turns the difference into
  operations. In the other direction it lays what is pending over the map that
  the server sent and hands the result to the engine, which also applies the
  difference to each state of its history.
* Each document of the application has an entry in `documents.ini` and a
  snapshot on disk. To quit, windows talk through `documents.ini` only: each
  polls it every 150 ms, votes when it is its turn and learns the outcome. The
  next process finds the snapshots, the registry as it was left and `tabs.ini`.
* A client's outbox is the other durable place. The server may lose what is not
  flushed; the outbox may be cleared only by a receipt. Identifiers of edits make
  the two meet: a resubmitted edit must be recognised.

The documentation fixes the environment: one server process per database, and
maintenance with the server stopped (`docs/collaboration-scaling.md:25`, `:27`,
`:50`).

## 2. The modules

| Module | Contents |
|---|---|
| `MapStore` | the documents of one map in CouchDB: head, batches, receipts, head writes in flight |
| `LiveRoom` | the live room and its connections over `MapStore`, with its properties |
| `DurableLog` | abstract specification: an append-only log without repetitions, announced only when durable; `LiveRoom` implements it |
| `LiveRoomInductive` | the inductive invariant of `LiveRoom` |
| `LiveRoomProofs`, `LiveRoomLogProofs` | proofs: types, history, receipts and acknowledgements; the queue, documents and the refinement |
| `Sharing` | the sharing service: cache, head, invitations, concurrent requests |
| `LiveSync` | the live session of the clients over their connections |
| `MindMap` | the document of the client: its tree, what follows from a change (`rebuild`), what the loader accepts |
| `LiveOperations` | canonical form of a document, the operations between two of them and their application |
| `Editor` | the engine of one window: commands, history, file, clipboard, recovery, messages of a live session |
| `Desktop` | the application: windows and tabs, snapshots, closing, quitting, the next start |
| `SharingProofs`, `LiveSyncProofs`, `DesktopProofs`, `EditorProofs` | proofs of the modules named |
| `MapProofs` | proofs about `MindMap` and `LiveOperations`: trees, `Rebuild`, the loader, canonical form, operations and what they leave of words |
| `SequenceTools` | operators on sequences and functions that the provers can expand |
| `DataLemmas` | least elements, induction over sets of naturals, members of sequences: lemmas for the proofs |
| `MCLiveRoom`, `MCSharing`, `MCLiveSync`, `MCEditor`, `MCDesktop` | small instances and symmetry |

### MapStore and LiveRoom

`head` has the fields of `protocol.Head` that matter: revision, last batch,
sequence, whether receipts are indexed, the live protocol, the accounts that may
write. A batch is `[parent, seq, ops, changes]`: its receipts and its document;
its name is its content (`PutImmutable` of the same content is a success), so
`batches` is a sequence without repetitions and a name is an index into it. A
document is the sequence of the operations merged into it: what a property can
tell apart is which operations are in it and in which order, not what they do.
`inflight` holds head writes whose answer was lost: each of them may be applied
later, if the head has not changed (`Land`), or never (`Vanish`). `log` is a
history variable, the committed batches.

Each room operation holds the map's lock while it talks to the store, so at most
one, the `task`, is under way; but each store call is an action of its own,
because changes of access by others, late writes and crashes come in between.
`task` keeps the head that the operation loaded, and a cursor: the batch that the
receipt walk has reached, or the one that a flush has written.

| Code | Actions |
|---|---|
| `OpenLive` | `OpenExisting`, `OpenLoad`, `IndexBatch`..`MarkIndexed`, `Promote`, `OpenDone` |
| `Subscribe`, leave, `evictIdleLocked` | `Subscribe`, `Leave` |
| `SubmitTo`, `ackDuplicate` | `SubmitLoad`, then one of `SubmitRefused`, `SubmitRecovers`, `SubmitDuplicate`, `SubmitRejected`, `SubmitApplied`; `SubmitAstray` for a closed room |
| `schedule`, `Flush`, `flushLocked`, `recoverCommit`, `complete` | `FlushNothing`, `FlushLoad`, `FlushStuck`, `FlushProceeds`, `FlushRecovers`, indexing, `FlushPut`, `FlushCommit` |
| any store call that fails, conflicts or loses its answer | `StoreFails`, `IndexFails`, `HeadConflict`, `HeadAmbiguous`, the second disjunct of `FlushPut` |
| `Accept` of the sharing service, as far as the head goes | `ChangeAccess` |
| end of the process, `CloseLive` | `Crash` (an orderly end is a flush followed by it) |

Left out: byte quotas and the early flush at 100 edits or 128 KiB (both only
choose *when* the timer fires, which is arbitrary in the model), the 500 ms, and
`Head.Deleted`, which nothing in the repository sets. An account has one
connection at a time; two connections of one account act like two accounts that
may send the same edit, which retries over one connection already do.

### Sharing

A request is a process with a program counter: `hydrateCurrent` loads
(`HydrateLoad`), compares under the lock (`HydrateCompare`), loads the state
outside of the lock and installs it (`HydrateInstall`), and the caller goes on
(`Read`, `Invite`, `GrantUnknown`, `GrantHeld`, `GrantLoad`, `GrantStore`,
`GrantConflict`). `mu` is the request that holds `s.mu` across store calls.
Content is the number of the last commit, which is what staleness is about.
`Commit` is a flush of a live room. A head write whose answer is lost is applied
at once or never; later application is explored in `LiveRoom`. Expiry of
invitations is left out: it can only forbid an acceptance.

### LiveSync

The room is the one of `LiveRoom` seen from outside: a document, a durable
prefix that grows, an epoch and a revision; a restart goes back to the durable
prefix. Edits and frames travel over FIFO channels; a lost connection loses the
frames on their way down, and leaves edits on their way up that the server may
still read, in `old`, while the client is already connected again. Two epochs
are enough: a hello is the first frame of a connection and its epoch is adopted
before any other is compared.

A client is a record with the coordinator's fields: `editor` is the engine's
document, `visible` is `m_visible`, what the coordinator knows of it. An edit is
the difference between the two; `outbox` is the `pending` table. `UserEdits`
includes the capture that `Engine::changed` triggers, with its failure;
`ClientReceives` is the whole of `handleLiveMessage`, the drain of
`handleJoined` after a hello included; `ClientDefers` is the early return when
the capture fails. Not modelled: the protocol of version 1 and its snapshots,
`access_revoked`, edits that no longer apply, and astray subscribers (these are in
`LiveRoom`). A refused submission is one that has no effect; the client shows it
and keeps the edit. `ClientReceives` adopts a document as a whole; what this
means for the nodes, for the selection and for the history of the window is the
matter of `Editor`.

### MindMap, LiveOperations and Editor

A document (`State` in the code) is a record: nodes by local number, each with
the identity that it keeps in files and on other machines; relationships;
layout; the selection; the next local number. What the editor stores and never
looks into (text, notes, style, resources, image, calendar entries, position) is
`content`, a member of a small set. Numbers and identities are kept apart because
the code keeps them apart, and renumbers the one when a message arrives.
`Rebuild` is `rebuild`: tasks are aggregated upwards and the selection keeps to
what the folds show. `Loadable` is the loader's validation, `Loaded` what it makes
of accepted bytes. `LiveOperations` has `normalize`, `project`, `diff` and `apply`
of `C/liveoperations.cpp` in this order; an application returns the set of
results, empty when an operation is refused or the result is no tree.

| Code | Definitions |
|---|---|
| `checkpoint`, `changed`, `captureLiveChanges` | `Checkpoint`, `Show`, `Captured`; all three in `Command` |
| commands that add, move, remove, connect, paste | the disjuncts of `Nodes`, `ConnectSelection` |
| commands on the selected nodes | the disjuncts of `Contents` |
| layout, theme, spacing | the disjuncts of `Looks` |
| mouse and arrow keys | `Select`, `SelectMany`, `SelectNone`, `Navigate` |
| `restore`, undo, redo | `Restore`, `Undo`, `Redo` |
| `save`, `loadDocumentBytes`, `saveRecovery` with `openRecovery` | `Save`, `Open`, `Recover` |
| `handleLiveMessage`, `applyRemoteDocumentBytes`, `rebaseStack`, `localIds`, `preserveLocalIds`, `preserveSelection` | `Message`, `Merged`, `Rebased`, `LocalNumbers`, `Renumbered`, `KeepSelection` |

A session of the model is the map as the room last sent it and the batches that are
pending beyond it. A message takes over any number of them and perhaps one edit of
another user (`TheirEdits`). The other user has the same program: the edit is what one
of the engine's commands (`TheirCommands`: the look, the layout, manual positions,
contents, folds, check marks, kinds, relationships, and nodes added, moved or removed
anywhere among their siblings) changes in the map as the other client's loader makes it,
and is captured there as it is here. If that loader does not accept the map, its user
sees an error and edits nothing. `others` is a history variable: what others wrote,
added and removed and the user has not touched since. A node that others bring back is
not removed any more, and when others remove something the account of what they added
starts anew (see (c) of *Editor* in section 5).

Left out: of the other client, edits from an older view of the room than its present
one, and commands that change more than one branch or several settings at once (steps
through its history, templates, pasted branches, several selected nodes, a theme
recipe); geometry, thus also which node an arrow key finds (any that shows), and
the offsets of other nodes that a manual move recomputes; the limit of 200 000
records that are kept; the freezing of inherited style in pasted branches;
calendars and the wording of templates. Several nodes that one command makes get
their identities in increasing order, and the new local numbers of a message
follow the order of the keys (the code: a hash table's). `Recover` is a restart:
the snapshot is written and opened. The file that is opened is one file. A map
that is shared is live at once. `rebuild` inserts an empty node when number 1 is
missing: not modelled, the run that reaches such a state ends there.

### Desktop

One process, its windows and the disk. A window of the model is a document with
its tab, named by its session, which outlives the process through the snapshot; a
host is a native window. `desk` holds the order of documents, the host of each,
what each host shows and which is in front; `ui` the state of each window's prompt
and dialogs and of its part in a quit (`m_quitId`, `m_quitFinished`, frozen, removed);
`registry` is `documents.ini`; `tabs` is `tabs.ini`.

| Code | Actions |
|---|---|
| `start` with `unfinishedPaths` and `tabs.ini`, the welcome screen, or a file | `Start`, `StartHome`, `StartWith` |
| `open`, requests forwarded to the running process, `reopen` | `Open`, `OpenNew`, `Reopen` |
| `activate`, `tabAction`, `moveTab`, `saveTabs` | `Activate`, `NewTab`, `SwitchTab`, `MergeTabs`, `DetachTab`, `MoveTab`, `SaveTabs` |
| editing, `saveDocument`, the timer of snapshots | `Edit`, `Save`, `Checkpoint` |
| the share, template, open and image dialogs; date entry and a text that is not committed | `OpenDialog`, `EndDialog` |
| `requestClose`, `approveClose`, `cancelClose`, `saveBeforeClosing` | `CloseHost`, `CloseTab`, `Discard`, `CancelClose`, `SaveBeforeClosing` |
| `remove`, at the next turn of the event loop | `RemoveWindow` |
| `requestQuit`, `beginQuit` | `RequestQuit`, `QuitAlone` |
| `pollQuit` of one window, with `prepareQuit` and `voteToQuit` | `Confirm`, `Refuse`, `Close`, `Cancel` |
| the process dies | `Crash` |

`Blocked` is what makes `activate` refuse to leave the tab that a host shows
(`modalTabBlocked`, `commitForTabSwitch`, open sheets): a prompt, the freeze of a
quit, or a dialog. The dialogs are of two sorts, for they differ when the window
closes: a *popup* (share, template, open, image) stays where it is, while `requestClose`
first wants an *entry* (of a date, or a text that the editor refuses) to be finished.

Drafts in open text fields count as part of the document; files that cannot be read,
geometry and menus are left out, and so are of the dialogs: drafts of dates that a
restart brings back, with their dialog, also in tabs that do not show; changes that a
dialog makes to a document between its vote and its closing (a vote disables the
workspace, and dialogs lie above it, `qml/DocumentWorkspace.qml:75`, `:300`); and file
dialogs as windows of their own that hold up a quit on platforms with sheets. The names
of new windows are random in the code and come in one fixed order here, which is not the
order of their file names (`Naming`). A window that is about to be removed is out of its
user's reach, and one that closes for a quit does not poll again: both last one turn of
the event loop. The lock of the registry is always obtained. A file dialog for saving is
part of the prompt. The run has prompts that do not block a quit (`Sheets = FALSE`);
native sheets do and leave fewer behaviours.

## 3. What TLC checks

| Run | Instance | Properties | Shows |
|---|---|---|---|
| `live_new_map` | 2 accounts with an edit each, queue of 2, 1 fault, 1 crash, 1 change of access; 440 000 states | `Inductive`, `DocumentIsHistory`, `FlushScheduled`, `AcceptedNotDropped`, `ImplementsDurableLog`, `AcceptedBecomesDurable` | the invariant of the proofs; batches hold the document that their history gives; pending edits have a timer; no edit leaves the queue uncommitted; refinement of `DurableLog`; under fairness, accepted edits become durable |
| `live_old_map` | history of two unindexed version 1 batches, two payloads per identifier, queue of 1, 2 faults, 1 crash; 450 000 states | `TypeOK`, `ExactlyOnce`, `AckedDurable`, `ReceiptsCoverHistory`, `QueueBounded` | receipts, retries and reused identifiers, with a bulk write of which any part succeeds; the queue at its quota |
| `astray_subscriber` | *violation* | `AppliedReachesEveryone` | see findings |
| `late_write_after_restart` | *violation* | `PendingIsTransient` | see findings |
| `sharing` | owner and two guests, 2 tokens, 2 requests, 1 commit, 2 acceptances, 1 failure or restart; 1 900 000 states, up to symmetry | `TypeOK`, `CurrentMeansEqual`, `RolesWereOffered`, `NoEditTakenBack`, `StaleOnlyByOverlap`, `RolesLostOnlyByOverlap` | what the cache and the head may hold, who may have or lose a role, and how stale an answer is |
| `grant_not_stored` | *violation* | `AcceptedIsDurable` | see findings |
| `live_sync` | 2 clients with an edit each, 1 fault; 370 000 states | `TypeOK`, `CapturedSurvives`, `PendingShown`, `Converged`, `OutboxDrains` | the outbox protocol |
| `outbox_out_of_order` | 1 client with two edits; *violation* | `OwnEditsInOrder` | see findings |
| `signed_out_edits` | *violation* | `EditsNotReplaced` | see findings |
| `editor` | a map of its own with a root, a task and a meeting; a shared one with a root, a branch and a leaf; 2 to 5 steps, history of 2 (see below); 208 000 states | `TypeOK`, `StatesOpen`, `HistorySettled`, `SelectionShown`, `ClosingLosesNothing`, `GoneStaysGone`, `OthersKept`, `SharedIsShown`, `MessageKeepsPlace` | what is shown or can be undone opens again; the clean mark is right; messages and steps keep the room and the window together; undo respects others |
| `undo_loses_root` | *violation* | `HistoryRooted` | see findings |
| `desktop` | 3 windows in 2 hosts, or a first start; a fourth window; commands, dialogs, quits, crashes and failed snapshots in four combinations; 192 000 states | `TypeOK`, `VotedIsKept`, `ClosedStaysClosed`, `NoHostGoesBlank`, `QuitIsUnanimous`, `QuitKeepsTabs`, `QuitDecided`, `QuitEnds` | all windows close or none, nothing unsaved is lost, tabs come back, a quit ends |

Each property of a passing run has a mutant: a plausible bug in one definition
(`\* Mutant:` in the modules) with which TLC finds it violated.

### Why the bounds are enough

The bounds are guards on counters: `MaxFaults`, `MaxCrashes`, `MaxGrants`, `MaxCommits`,
`MaxAccepts`, `MaxFailures`, `MaxEdits`, `MaxEffort`, `budget`. Two edits are enough to
have one in a batch and one that is new, or one of each author; a queue of one reaches
its quota while another edit waits, a queue of two lets a batch of one be recovered
while another edit is pending. One fault and one crash give a lost answer that is
applied before, after or never, across a restart; two faults let a retry fail in turn.
In an old map two batches are needed for a walk that stops between them. Two requests
overlap in every pair of phases; a third account is needed for a role that appears in
one of two lists only. In `live_sync` renewals and reconnections are free, so the one
fault (a failed write, a refused submission, a cut, a restart, a sign-out) is met by any
number of handshakes; the instance passes as well with two faults (1 750 000 states),
without the temporal property.

In `editor`, `MaxEffort` is 5: a command, a change of the selection or a message
costs two, a step through the history, a save, a copy, opening a file or a
recovery one. So there are two commands or messages with a step through the
history before, between or after them, or one with three such steps: a command,
its undo, a message that rewrites the redo stack, and so on. The histories hold
two states, so that the oldest is dropped; documents grow to six nodes (`MaxNodes`)
and a depth of three (`MaxDepth`), so that both limits are met by pasting and by
templates; `MaxIdentity` leaves as many identities as this needs, and the initial
ones are such that new nodes come before, between and after the old ones in the
order of keys, in which operations are made and applied. `MeetingSections` and
`WeekDays` shorten the templates to one section, of the kind that is selected
afterwards. Changes to a value in `Content` need two values.

In `desktop`, `budget` bounds commands of the user (`effort`), requests to quit,
deaths of the process and snapshots that cannot be written. The combinations of
(effort, quits, crashes, faults) are (1, 2, 1, 1), (2, 1, 0, 0) and (3, 0, 0, 0) over
three windows, one of them alone in its host, and (2, 1, 0, 0) from a first start: two
quits with what is left of the first one, of which a crash or a failed snapshot
may be the end, more commands around a single one, and three without any, such as to
open a dialog, close the tab under it and detach another. Polls, removals,
snapshots, saving of tabs, answers to prompts, the end of dialogs and starts are free.
What is beyond the bounds is proved for the invariants and action properties, and not
known for the two temporal properties, whose evaluation takes most of the time.

`Sharing` is checked up to permutations of guests, tokens and requests, which is
sound because its run has no liveness property; the other runs use no symmetry.
Deadlock is checked in the runs of the server and of the live session: these
models can always take a step. `Editor` and `Desktop` stop when their bound is
used up (`CHECK_DEADLOCK FALSE`); that a quit does not stop half way is
`QuitDecided` and `QuitEnds`.

### Fairness

* `LiveRoom`: `WF_vars(TaskStep)`: a store call ends, by an answer or by its
  deadline (10 s in `schedule`), so a task goes on. A failure is never *forced*:
  `StoreFails` is not in `TaskStep`. `SF_vars(FlushLoad)`: the callback of the
  timer runs and queues for the room's mutex; it is enabled only between other
  operations, and Go's mutex hands over to a waiter that starves. Crashes are
  unfair. Failures are bounded: a store that fails for ever keeps edits pending
  for ever, as it should.
* `LiveSync`: deliveries in both directions, the flush (the theorem of the room),
  reconnection (the backoff is capped at 30 s and retried after every error) and
  the renewal of the session each five minutes. The renewal matters: it is the
  only step after which an edit that was refused once is submitted again without
  the user. It exists with a remembered login; without one this liveness is lost.
  Nobody has to edit, sign in or restart.
* `Desktop`: `Poll(w)` and `RemoveWindow(w)` for each window: the timer of 150 ms
  of a session, and a call that is queued for the next turn of the event loop.
  Users owe nothing: a prompt may stay open for ever, and a quit ends all the
  same.

## 4. What is proved

Every safety invariant and every action property of the passing runs is a theorem, but
for `SharedIsShown` of `editor`, and so is the refinement of `DurableLog`. They hold for
every value of the constants: any sets of accounts, clients, tokens, requests, files and
contents, any number of edits, nodes, windows, faults and crashes, every bound. The
theorems of `Editor` have the hypothesis `~SharedFile`: the file that a window opens is
not attached to a live map of its own (below). The assumptions are those the modules
name, which say no more than what the constants stand for: `LegacyAssumption` (the
history a map starts with has distinct identifiers, which are not among those of the new
edits), `RoomAssumption` (each identifier has an author; bounds are naturals; the queue
has room for one edit), `SharingAssumption` (the owner is an account; `None` is nobody;
bounds are naturals), `SyncAssumption` (bounds are naturals), `DesktopAssumption`
(windows are numbered in the order of their file names and get their names in some
order; there are as many hosts as windows), `FileAssumption` (a path is not empty),
`OpeningAssumption` (the windows to begin with are in order, and none of them welcomes),
`MapAssumption` (limits are naturals, a map may have a node), `EditorAssumption` (the
history holds a state, a meeting has notes, a week has days), `StartAssumption` (a
window begins with a document that the loader accepts and `rebuild` leaves alone; the
file was written by an editor like this one, if it opens at all) and `FixtureAssumption`
(the largest generated tree is no deeper than a map may be). TLC evaluates all of them.

| Module | Theorem | Statement |
|---|---|---|
| `LiveRoomProofs` | `InductiveInvariant` | `Spec => []Inductive` |
| | `TypeCorrect` | `Spec => []TypeOK` |
| | `CommittedOnce` | `Spec => []ExactlyOnce` |
| | `AckIsDurable` | `Spec => []AckedDurable` |
| | `ReceiptsComplete` | `Spec => []ReceiptsCoverHistory` |
| | `QuotaKept` | `Spec => []QueueBounded` |
| `LiveRoomLogProofs` | `PendingHasFlush` | `Spec => []FlushScheduled` |
| | `QueueLosesNothing` | `Spec => AcceptedNotDropped` |
| | `DocumentsInvariant` | `Spec => []DocumentSound` |
| | `DocumentsAreHistory` | `Spec => []DocumentIsHistory` |
| | `DurableLogImplemented` | `Spec => ImplementsDurableLog` |
| `SharingProofs` | `SharingIsSound` | `Spec => []SharingInvariant` |
| | `SharingTypeCorrect` | `Spec => []TypeOK` |
| | `CurrentEntriesAreEqual` | `Spec => []CurrentMeansEqual` |
| | `OnlyOfferedRoles` | `Spec => []RolesWereOffered` |
| | `AcceptKeepsEdits` | `Spec => NoEditTakenBack` |
| | `AnswersAreRecent` | `Spec => StaleOnlyByOverlap` |
| | `RolesAreKept` | `Spec => RolesLostOnlyByOverlap` |
| `LiveSyncProofs` | `SyncIsSound` | `Spec => []SyncInvariant` |
| | `SyncTypeCorrect` | `Spec => []TypeOK` |
| | `CapturedEditsSurvive` | `Spec => []CapturedSurvives` |
| | `WaitingEditsShown` | `Spec => []PendingShown` |
| | `ClientsConverge` | `Spec => []Converged` |
| `DesktopProofs` | `DesktopIsSound` | `Spec => []Invariant` |
| | `DesktopTypeCorrect` | `Spec => []TypeOK` |
| | `VotesAreKept` | `Spec => []VotedIsKept` |
| | `ClosedWindowsStay` | `Spec => []ClosedStaysClosed` |
| | `HostsNeverBlank` | `Spec => NoHostGoesBlank` |
| | `QuitsAreUnanimous` | `Spec => QuitIsUnanimous` |
| | `QuitsKeepTabs` | `Spec => QuitKeepsTabs` |
| `EditorProofs` | `WindowStaysValid` | `~SharedFile => (Spec => [](Valid /\ Anchored))` |
| | `RootedStaysValid` | `Spec /\ []HistoryRooted => []Valid` |
| | `WindowTyped` | `~SharedFile => (Spec => []TypeOK)` |
| | `HistoryOpens` | `~SharedFile => (Spec => []StatesOpen)` |
| | `HistoryStaysSettled` | `~SharedFile => (Spec => []HistorySettled)` |
| | `HistoryKeepsRoot` | `~SharedFile => (Spec => []HistoryRooted)` |
| | `SelectionStaysShown` | `~SharedFile => (Spec => []SelectionShown)` |
| | `ClosingIsSafe` | `~SharedFile => (Spec => []ClosingLosesNothing)` |
| | `MessagesKeepPlace` | `~SharedFile => (Spec => MessageKeepsPlace)` |
| | `HistoryKeepsTheirs` | `~SharedFile => (Spec => []TheirsKept)` |
| | `RemovedStaysGone` | `~SharedFile => (Spec => []GoneStaysGone)` |
| | `TheirWordsStay` | `~SharedFile => (Spec => []OthersKept)` |

In each module the proof that a step keeps the invariant has one lemma per
action, or per group of actions that do the same to what the lemma is about.

### Live rooms

`ExactlyOnce` says that no identifier occurs twice in the
history. It is not inductive: that a flush commits only new identifiers depends
on what the room knew when it accepted them. The invariant makes this explicit.
(1) *Chain*: the head names the end of a chain of stored batches. (2)
*InflightSound*: a head write that is under way, or whose answer was lost, is
either computed from an older head, and then can never be applied, or keeps the
batch of the head or commits a batch of identifiers that are not in the history,
over an indexed one. Since it is applied only to the head it was computed from,
what was true of this head when the task looked is true when it lands. (3)
*RoomSound*: every identifier of the history is receipted in the store, or is
among the room's recent receipts, or in a batch whose commit the room does not
know yet; the identifiers in the queue are new with respect to what the room
knows. (4) *TaskHeadSound*, *WalkSound*, *TaskSound*: what a task has established
at each of its store calls, in particular that the walk over the unindexed
batches has covered everything above its cursor, and that a flush writes the head
only for a batch it has stored over a head whose receipts exist. Types are proved
apart, because every other lemma needs them. `QuotaKept` reads off it that the queue
holds no edit twice and none that the room knows to be committed: the identifiers of
the queue are new with respect to what the room knows.

`PendingHasFlush` needs no more than the local shape of `Flush` and `SubmitTo`
(`Wakeup`: pending edits imply a timer or a flush that holds the lock).
`QueueLosesNothing` combines the inductive invariant with the recovery of a
commit, where the batch that the head names is compared with a prefix of the
queue.

*Documents and the refinement.* `DocumentSound` is on top of it: every stored
batch, also one that the head never came to name, holds its parent's document
with its own operations merged (`BatchesSound`); the room's document is that of
the batch it knows with its queue merged (`RoomDocument`), which is why a flush
may store it; and the document of the head has the operations of the history,
each once (`HeadDocument`). That a step implements `DurableLog` then comes down
to two cases: a head write that lands appends the operations of one batch, none
of which is in the document, and `complete` announces only operations that are in
the document of the head. Every other step leaves both alone.

### Sharing

The difficulty is that `hydrateCurrent` loads without the lock and installs
later. `CopiesSound`: a head that somebody loaded has an older revision than the
head, or is the head. `ContentSound`: two copies of one revision, wherever they
are, agree on the content. `ListsSound`: every access list anywhere holds offered
roles only, so that it does not matter which of them is written or installed.
`FloorsSound`: what a request finds in the cache is at least as new as the head
was when the oldest request beside it started; this is inductive because each
request that may install something started no earlier than that. `RolesAreKept` has
the same argument for revisions instead of content: a head, cached or loaded, that is
no older than the one that gave an account its role has a role for it.

### LiveSync

`CapturedSurvives` follows from `StreamSound`: a receipt on its way names durable
edits, and the durable prefix never shrinks. `Converged` and `PendingShown` need
more. The frames of one connection are ever later states of the room that it
joined (`FramesLater`, `FramesBefore`), the client knows an earlier one than any
of them (`FramesFollow`, where `Known` is a handshake that was put off, if there
is one), and the last frame has the room's document; so a client that has read
all of them, and has nothing of its own on the way, shows the room's document
(`ShownSound`). This is also why the client may drop a frame that is older than
what it knows. `OutboxSound` says that the outbox is in the order of the edits,
and that an edit that is not captured yet is later than all of it.

### Desktop

The invariant has a part about windows and a part about agreement.

*Windows.* `IsDesk` (in `TypeOK`): each document has one place in the order and
one host; what a host shows, what is in front and what welcomes is among them.
One lemma for each operation on the windows (`ActivatingDesk`, `RehostedDesk`,
`TogetherDesk`, `RemovedDesk`, `MovedOrder`, `RestoredDesk`, ...) says that it
keeps this, and for each host that showed one of its own tabs whether it still does:
it does, unless the operation takes a tab from it (`remove`, `moveDocument`) and
activating another one is refused. `NoHostGoesBlank` follows host by host; what makes
an activation refused is `Blocked`, and the property exempts what is left
(`Exempt`; section 5, *Desktop* (c)).

*Tabs.* `TabsSound`: the groups in `tabs.ini` are disjoint (`Disjoint`), and from
the request to quit until the windows come back, windows that were in one host
when it was made, gone or not, are in one group (`Kept`). `QuitKeepsTabs`
follows, because restoring puts windows of one group into one host and those of
two groups into two.

*Agreement.* `WindowSound` says of each window that it is registered unless its
user closed it; that once a quit is decided it has voted unless its user closed
it; and that as long as it is frozen its vote stands for a snapshot of what it
holds. A quit is decided when nobody is awaited; since participants are extended
with all registered windows before that (`ParticipantsMembers`), all have voted
(`AllHaveVoted`). Without the first part the second is not inductive: a window
that was not registered would not be waited for.

### Editor

`StatesOpen` says that what a window shows, and what its undo and redo bring back, is
a document that the loader accepts. The difficulty is that none of these documents
is made in one place: a command changes the one that shows, a message changes all of
them by operations that were made for another one.

*Every document is a tree.* `Valid` has every document of a window `Sound`: its nodes
are a tree (there is a depth for each of them, one more than its parent's), within
the limits, of valid nodes, with distinct identities out of those used so far, and
`Settled`: `rebuild` has nothing to aggregate. The document that shows has a
selection of nodes that show; what was saved is what the file holds. `MapProofs` has
what this rests on: what taking out a branch, adding one, and moving one do to a tree
and its depths; that `Aggregated` terminates in the one table that satisfies its
equation, and leaves a settled table alone; that a document is accepted by the loader
if and only if it is valid; that the canonical form of a sound document, and what
operations make of it, can be projected to a tree or are refused. Tables that are
defined by recursion down a tree are dealt with by induction on depths
(`DownRecursion`, `UpRecursion`), over the set of those depths at which the claim
holds. `EditorProofs` then has one lemma per command, of which the templates, the
clipboard (a tree that is cut out, renumbered and put elsewhere) and messages take
the most.

*The root.* A message renumbers the states of the history such that number 1 belongs to
the root of the incoming map. That they keep a root there is not inductive in `Valid`:
it depends on what is pending. `Anchored` says of a live window that either all states
have the root of the room, and no pending batch takes it away or hangs it under another
node, or some pending batch removes it. In the second case the room refuses that batch
and no later overlay can be made, so that messages leave the window alone. Here
`~SharedFile` is needed: opening a file that is attached to a live map keeps the old
history and joins another map, with another root, and the run `undo_loses_root` shows
where that leads. `RootedStaysValid` is the case without this hypothesis: as long as the
histories have their roots, all the rest holds.

*Words.* `GoneStaysGone` and `OthersKept` speak of the document that shows, but undo
may show any state of the history, so `TheirsKept` says of each state that it
`Follows` what others did: it holds nothing they removed, all they added, and the
words they wrote last. A message lays the difference between the document and the
overlay over each state; what such a state then says is that of the overlay for every
node that the difference writes, adds or removes, and what it said before for every
other one (`LaidFollows`). A command gives only identities that were never used, so
that it brings nothing back. What the user changes is taken out of `others` by the
command that changes it (`Steady` is the part of a command that the proof needs: it
keeps the root or removes it, and it takes no words from before).

### Only model-checked

* Liveness (`AcceptedBecomesDurable`, `OutboxDrains`, `QuitDecided`, `QuitEnds`)
  needs fairness and ENABLED, which are out of this prover's reach.
* `SharedIsShown`. For the half about steps of the user, the operations between two
  documents would have to lead from the one to the other, `Results(a, Diff(a, b)) =
  {b}`, which is false of the code without the condition `~Torn` and needs, with it, an
  induction over the operations in the order of keys; for the half about messages, that
  a merged document is the projection of the overlay but for local numbers.
* That the code does what the definitions say.

No module declares a RECURSIVE operator.

## 5. Findings

1. **A subscriber of a closed room** (`astray_subscriber`). `OpenLive` returns
   the room and releases its lock; the handler accepts the WebSocket and only
   then subscribes (`B/httpapi/live_v2.go:73`). If the last subscriber leaves in
   between the room is evicted, and the newcomer is subscribed to an object that
   nobody else uses: it hears nothing until it submits an edit itself.
2. **A room that can never flush again** (`late_write_after_restart`). A head
   write in flight when the server goes down may be applied after the restarted
   server has loaded the old head and accepted an edit. `recoverCommit`
   (`B/rooms/live.go:398`) answers `resync_required` for ever; the room is not
   evicted, because it has pending edits, and does not load the head again.
3. **A grant that was not stored** (`grant_not_stored`). `Accept` changes the
   cached access list before it writes the head (`B/sharing/service.go:268`);
   when the write fails, the retry finds the role in the cache and reports
   success.
4. **The outbox out of order** (`outbox_out_of_order`). A new edit is sent at once
   although older ones wait in the outbox (`C/sharecoordinator.cpp:514`); the
   documentation says that the outbox drains in order.
5. **Edits made while signed out** (`signed_out_edits`). They are not captured
   (`C/sharecoordinator.cpp:67`), and the sign-in takes the document as it is for
   the known one (`:303`), so the server's state erases them.

6. **A history without a root** (`undo_loses_root`). Opening a file keeps the
   document before it on the undo stack (`src/engine.cpp:1116`). When the opened
   map is shared and a message arrives, the states of the stack are renumbered
   such that number 1 belongs to the root of the incoming map only (`:1822`,
   `:1879`). Undo then restores a document without a node 1, which `rebuild` and
   every command take for the root.

### Seen while modelling, and left out by a property

The following hold in the code as well. No document promises the opposite as
plainly as above, or a run of its own would say little more; the property in
parentheses exempts them.

*Editor.* (a) A message turns relationships such that the smaller identity comes
first (`src/engine.cpp:1846`); relating the same nodes again then appends the pair
in the other direction (`:1137`), and the saved file is refused by the loader
(`:1108`), although the application holds a pair for the same in both directions
(`tests/engine_test.cpp:1318`) (`StatesOpen`). (b) Undo after a shared map was
opened over another document submits the removal of the map's root, which every
room refuses (`C/sharecoordinator.cpp:577`) (`SharedIsShown`: there is no such
map to compare with). (c) When others removed the place that an undone command had moved or
removed a branch from, undo removes with it what they added to the branch
(`src/engine.cpp:1872`, `C/liveoperations.cpp:178`) (`OthersKept`: its `added` starts
anew when others remove something). (d) Operations are made in the order of keys, so
that a child that moves out of a branch that is removed in the same difference may be
removed before it has moved (`C/liveoperations.cpp:90`, `:178`). A single command does
neither; several edits in one batch, a message that takes over several batches, or a
step through a history from which a message dropped states (`src/engine.cpp:1872`) may
(`SharedIsShown`: `Torn`; a batch is one command here, and the instance too small for
the others). (e) Edits
between the request that creates a map and its answer (`C/sharecoordinator.cpp:204`,
`:303`) are not captured (a session is live at once here). (f) Merges are by
field and may combine to a document that the loader refuses (`:596`); the window
then shows an error and stays behind until it is opened again (`Message`). (g)
With nothing selected, a message selects the root (`KeepSelection`). (h) What the
loader settles in a map that it is sent is shown, taken for known
(`C/sharecoordinator.cpp:600`) and never sent, so that the window and the room differ
until another message or edit brings the node up again. The loader completes tasks
from those below them, as when the user makes a text of a task while others change
tasks below it; and a window numbers siblings anew: with A and C at the orders 0 and 5
in the room, and 0 and 1 in the window, a new sibling after C is sent with the order 2
and comes before C for everybody else, and in the window itself with the next message
(`SharedIsShown` compares a message with the map as the loader settles it, and holds a
step of the user to agreement only if there was agreement before it; the instance has
such differences).

*Sharing.* (a) Two acceptances at the same time may lose a role: each loads the head
without the lock, and the one that loaded it first may install it last, over what the
other has stored, and then writes the access list of the cache back without the
other's role (`B/sharing/service.go:161`, `:278`) (`RolesLostOnlyByOverlap`: what was
given after the oldest of the overlapping requests began). (b) An owner who accepts an
invitation to the own map is downgraded (`:268`). `hydrateCurrent` finds no map without
an owner, `Accept` ignores that (`:254`) and writes back what happens to be cached
(the same property: maps with an owner).

*Desktop.* (a) A crash in a quit, or a window that its user closes as the last one of a
quit, leaves `confirming` in `documents.ini`: the windows that the next process restores
are appended to the participants, vote, and close by themselves, although "startup
restores unsaved documents and drafts" (`docs/controls.md:91`; it does, and they are
there at the start after that). A window that voted before the crash counts as having
voted and is not asked in the new process: the old quit is decided without it, and a
request to quit that is made before that joins the old one and never ends (`QuitEnds`,
second part of `Unheard`). (b) When the participant that refused is closed before it
polls again, `m_quitting` stays true (`QuitEnds`, first part of `Unheard`). (c) A tab
whose host shows it and that closes with a dialog open leaves the host without a tab:
`requestClose` does not look at the share, template, open or image dialog, `remove`
activates the next tab, which `activate` refuses (`src/macapplication.cpp:374`), and
does not look at the result (`:334`). So does a window that closes for a quit that has
been called off in the meantime. And so does detaching a tab that does not show while
something blocks it: it is activated first, in its old host, and then keeps that host
from showing another one (`:565`). A question or a dialog is left in such a tab when
tabs are activated over it during a quit (`:372`) that is then refused; and a tab stays
frozen that has not heard of the refusal of one quit before the next one begins
(`NoHostGoesBlank`: `Exempt`). (d) To cancel a close prompt in a window that has voted
unlocks it; what is edited afterwards is not in the snapshot when the quit closes it
(`VotedIsKept`). (e) Snapshots of unchanged windows are not deleted by a quit. (f) A
start with a file or for a new document restores nothing, and the tabs of the unfinished
ones are overwritten. (g) Saving under the path of another window gives two windows with
one file. (h) A file that is opened from outside into a welcome screen that is about to
close is gone with it.

## 6. Plan

Done: the core (`MapStore`, `LiveRoom`, its proofs), `Sharing`, `LiveSync`, the
engine with the operations on documents (`MindMap`, `LiveOperations`, `Editor`),
and the application with the protocol of quitting (`Desktop`).

Next, in this order, with the properties they are for:

1. `Retention`: `Checkpoint` and `Collect` as processes over `MapStore` documents
   beside readers that loaded an older head, with crashes between any two store
   calls. *Every document reachable from the head exists; collection only deletes
   what the plan of the head lists; receipts survive a checkpoint.* To be composed
   with the receipt walk of `LiveRoom`, whose parents may have been collected. One
   run; the invariant is small enough to prove.
2. `Presence` and `ShareClient` (login, renewal, sign-out in several tabs): as far
   as the number of runs allows, as one module with the coordinator's renewal, on
   which `OutboxDrains` depends.
3. `SubmitWithStatus` of version 1 rooms against the in-memory room.
4. The server's `liveops.Apply` against the client's `Results`: the two are
   written apart and must agree on what they refuse.

Proofs: `SharedIsShown` (section 4 says what it needs). Then `Retention`.

Bounds on the whole: a run is to end within five minutes on two workers.

## 7. What is not modelled, and why

* Rendering, geometry, measuring, themes, QML views: numeric layout and toolkit
  calls.
* `lastDocuments` and the lists of recent documents: what they hold does not
  reach the start that is modelled, which goes by snapshots.
* The isolated runner for diagnostics in `src/main.cpp`, fixtures and timings.
* Authentication against CouchDB, OIDC, view queries, HTTP decoding: stateless
  calls; the models start where a request has an account.
* The Automerge experiment: only a fixture program and tests use it.
* Several servers on one database: the documentation forbids it.
* What edits do to a document, in the models of the server and of the live
  session: there a document is the sequence of the edits merged into it, and
  `Editor` models what they do, with a session that delivers in order.
