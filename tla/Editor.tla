------------------------------- MODULE Editor -------------------------------
(***************************************************************************)
(* The engine of one document window (src/engine.cpp): the commands, the   *)
(* history, the file, the clipboard, and the edits of others that a live   *)
(* session merges into the document (applyRemoteDocumentBytes, driven by   *)
(* src/collaboration/sharecoordinator.cpp).                                *)
(*                                                                         *)
(* A session holds the map as the room last sent it and the batches that   *)
(* the outbox holds beyond it.  How batches and states travel is the       *)
(* matter of LiveSync; here a message may bring any state that follows.    *)
(***************************************************************************)
EXTENDS LiveOperations

CONSTANTS
  Opening,         \* documents that windows begin with
  Joined,          \* documents of windows that begin in a live session
  OnDisk,          \* the file that can be opened
  SharedFile,      \* that file is attached to a live map
  UndoLimit,       \* states of the history (the code: 40)
  MeetingSections, \* sections of the meeting template
                   \*   (the code: agenda, notes, decisions, actions)
  WeekDays,        \* days of the weekly template (the code: 5)
  MaxEffort        \* bound: commands, selections and messages count two, steps
                   \*   through the history, uses of the file and copies one

ASSUME EditorAssumption ==
  /\ UndoLimit \in Nat \ {0}
  /\ SharedFile \in BOOLEAN
  /\ MeetingSections \in Seq({"agenda", "notes", "decisions", "actions"})
  /\ "notes" \in ToSet(MeetingSections)
  /\ WeekDays \in Nat \ {0}
  /\ MaxEffort \in Nat

\* Windows begin with documents that the loader accepts and rebuild has settled;
\* the file, if it opens at all, was written by an editor like this one.
ASSUME StartAssumption ==
  /\ \A d \in Opening \cup Joined :
       /\ IsDocument(d) /\ IsFile(Bytes(d)) /\ Loadable(Bytes(d)) /\ Rebuild(d) = d
       /\ DOMAIN d.nodes \subseteq 1 .. d.nextId - 1 /\ IdentitiesOf(d.nodes) \subseteq Identity
       /\ d.selected = None => d.selection = {}
  /\ IsFile(OnDisk) /\ IdentitiesOf(OnDisk.nodes) \subseteq Identity
  /\ Loadable(OnDisk) => Aggregated(OnDisk.nodes) = OnDisk.nodes

\* The largest generated tree keeps within the depth.
ASSUME FixtureAssumption ==
  \E level \in [1 .. MaxNodes -> 0 .. MaxDepth] :
    level[1] = 0 /\ \A i \in 2 .. MaxNodes : level[i] = level[(i - 2) \div 4 + 1] + 1

VARIABLES
  doc,        \* the document, with its selection: State
  undo, redo, \* the history
  file,       \* the file on disk
  path,       \* m_documentPath: the document has that file
  saved,      \* m_savedBytes: what the document was when saved or opened
  edited,     \* m_edited: the cached answer to "are there unsaved changes?"
  clipboard,  \* a document with a root of its own, or nothing
  session,    \* [live, room, pending]
  used,       \* identities that were given to a node
  others,     \* history: what others wrote, added and removed since the session
              \*   began and the user left alone
  effort

vars == <<doc, undo, redo, file, path, saved, edited, clipboard, session, used, others,
          effort>>

Nobody == [wrote |-> <<>>, added |-> {}, gone |-> {}]
NoSession == [live |-> FALSE, room |-> <<>>, pending |-> <<>>]
LiveWith(d) == [live |-> TRUE, room |-> Normalize(d), pending |-> <<>>]

Init ==
  /\ \/ doc \in Opening /\ session = NoSession
     \/ doc \in Joined /\ session = LiveWith(doc)
  /\ undo = <<>> /\ redo = <<>>
  /\ file = OnDisk /\ path = FALSE
  /\ saved = Bytes(doc) /\ edited = FALSE
  /\ clipboard = <<>>
  /\ used = IdentitiesOf(doc.nodes) \cup IdentitiesOf(file.nodes)
  /\ others = Nobody
  /\ effort = 0

-----------------------------------------------------------------------------
(***************************************************************************)
(* What every change shares.  The signal `changed' lets the window compare *)
(* the document with the saved one again, and lets the coordinator capture *)
(* what is new for the room.                                               *)
(***************************************************************************)
Spend(n) == effort + n <= MaxEffort /\ effort' = effort + n

Captured(before, after) ==
  LET ops == Diff(Normalize(before), Normalize(after))
  IN IF session.live /\ ops # <<>>
       THEN [session EXCEPT !.pending = Append(@, ops)] ELSE session

Show(next) ==
  /\ doc' = next
  /\ edited' = (Bytes(doc') # saved')
  /\ session' = Captured(doc, doc')

\* checkpoint: the state before the command; the oldest is dropped.
Checkpoint ==
  /\ undo' = LET kept == Append(undo, doc)
             IN IF Len(kept) > UndoLimit THEN Tail(kept) ELSE kept
  /\ redo' = <<>>

\* What others wrote counts until the user changes or removes it.
StillTheirs(next) ==
  LET holds(u) == \E i \in DOMAIN next.nodes :
                    next.nodes[i].syncId = u /\ next.nodes[i].content = others.wrote[u]
      rest == [u \in {u \in DOMAIN others.wrote : holds(u)} |-> others.wrote[u]]
  IN [others EXCEPT !.wrote = rest, !.added = @ \cap IdentitiesOf(next.nodes)]

Quiet == UNCHANGED <<file, path, clipboard>>

\* A command with the document that it leaves.
Command(next) ==
  /\ Spend(2)
  /\ Checkpoint
  /\ saved' = saved
  /\ Show(next)
  /\ used' = used \cup IdentitiesOf(doc'.nodes)
  /\ others' = StillTheirs(doc')
  /\ Quiet

nodes == doc.nodes
Selected == doc.selected
HasSelected == Selected \in DOMAIN nodes
Room(n) == Cardinality(DOMAIN nodes) + n <= MaxNodes
Fresh == Identity \ used

\* Identities of n nodes made at once.
FreshRow(n) == {InOrder(S) : S \in {S \in SUBSET Fresh : Cardinality(S) = n}}

SelectOnly(d, i) == [d EXCEPT !.selected = i, !.selection = {i}]

-----------------------------------------------------------------------------
(***************************************************************************)
(* The selection.                                                          *)
(***************************************************************************)
Choose(d) ==
  /\ Spend(2)
  /\ d # doc
  /\ doc' = d
  /\ UNCHANGED <<undo, redo, file, path, saved, edited, clipboard, session, used, others>>

Picked(i, extend) ==
  [doc EXCEPT !.selected = i, !.selection = IF extend THEN @ \cup {i} ELSE {i}]

Select == \E i \in Unfolded(nodes), extend \in BOOLEAN : Choose(Picked(i, extend))

\* Arrow keys: to the parent, to the first child, or to a node that lies in that
\* direction; what lies where is left open.
Navigate ==
  \E i \in IF HasSelected THEN Unfolded(nodes) \ {Selected} ELSE {Root},
     extend \in BOOLEAN : Choose(Picked(i, extend))

SelectNone == Choose([doc EXCEPT !.selected = None, !.selection = {}])

\* A rubber band: the last of the nodes is the selected one.
SelectMany ==
  \E S \in SUBSET Unfolded(nodes), extend \in BOOLEAN :
    \/ S = {} /\ ~extend /\ Choose([doc EXCEPT !.selected = None, !.selection = {}])
    \/ \E last \in S :
         Choose([doc EXCEPT !.selected = last,
                            !.selection = IF extend THEN @ \cup S ELSE S])

-----------------------------------------------------------------------------
(***************************************************************************)
(* The look of the map.                                                    *)
(***************************************************************************)
SetLayout ==
  \E l \in Layout \ {doc.layout} :
    Command(Rebuild([doc EXCEPT !.layout = l, !.manual = @ /\ l # "Compact"]))

SetSpacing ==
  \E v \in Content \ {doc.look} :
    /\ ~doc.manual /\ doc.layout # "Compact"
    /\ Command(Rebuild([doc EXCEPT !.look = v]))

SetBranchStyle == \E v \in Content \ {doc.look} : Command([doc EXCEPT !.look = v])

SetTheme == \E v \in Content \ {doc.look} : Command(Rebuild([doc EXCEPT !.look = v]))

ApplyThemeRecipe ==
  \E v \in Content, l \in Layout :
    /\ doc.look # v \/ doc.layout # l \/ doc.manual
    /\ Command(Rebuild([doc EXCEPT !.look = v, !.layout = l, !.manual = FALSE]))

SetManual ==
  /\ doc.layout # "Compact"
  /\ Command(Rebuild([doc EXCEPT !.manual = ~@]))

-----------------------------------------------------------------------------
(***************************************************************************)
(* Nodes come and go.                                                      *)
(***************************************************************************)
\* Mutant: the next number is not advanced.
GrownInPlace(new, parent, sibling, tops) ==
  [doc EXCEPT !.nodes = Over([nodes EXCEPT
     ![parent].children = After(nodes[parent].children, sibling, tops),
     ![parent].folded = FALSE], new)]

\* Nodes with local numbers of their own; the tops become children of `parent',
\* after the sibling or at the end.
GrownIn(d, new, parent, sibling, tops) ==
  [d EXCEPT !.nodes = Over([d.nodes EXCEPT
              ![parent].children = After(d.nodes[parent].children, sibling, tops),
              ![parent].folded = FALSE], new),
            !.nextId = @ + Cardinality(DOMAIN new)]
Grown(new, parent, sibling, tops) == GrownIn(doc, new, parent, sibling, tops)

\* A new text under a task is a task.
Entry(n, u, parent, kind) ==
  [NewNode(u, parent) EXCEPT !.kind = kind, !.task = kind = "text" /\ n[parent].task]

Added(u, parent, sibling, kind) ==
  SelectOnly(Grown(Single(doc.nextId, Entry(nodes, u, parent, kind)), parent, sibling,
                   <<doc.nextId>>), doc.nextId)

Add(parent, sibling, kind) ==
  /\ parent \in DOMAIN nodes
  /\ Room(1)
  /\ Depth(nodes, parent) + 1 <= MaxDepth
  /\ \E u \in Fresh : Command(Rebuild(Added(u, parent, sibling, kind)))

AddChild == Add(Selected, None, "text")
AddChildFromPointer == \E parent \in Unfolded(nodes) : Add(parent, None, "text")
AddSibling ==
  /\ HasSelected
  /\ Add(IF nodes[Selected].parent = None THEN Root ELSE nodes[Selected].parent, Selected, "text")
AddDateNode == Add(IF HasSelected THEN Selected ELSE Root, None, "date")

\* A template under the selected node: a top with sections, each with one entry;
\* the numbers go to the top and then to each section and its entry in turn.
Template(uids, meeting, tasks) ==
  LET first == doc.nextId
      section(k) == first + 2 * k - 1
      node(i) == NewNode(uids[i - first + 1], None)
      new == [i \in first .. first + 2 * Len(tasks) |->
        LET k == (i - first + 1) \div 2
        IN CASE i = first ->
                  [node(i) EXCEPT !.parent = Selected, !.meeting = meeting, !.task = ~meeting,
                                  !.children = [n \in DOMAIN tasks |-> section(n)]]
             [] i # first /\ i = section(k) ->
                  [node(i) EXCEPT !.parent = first, !.children = <<i + 1>>, !.task = tasks[k]]
             [] OTHER -> [node(i) EXCEPT !.parent = i - 1, !.task = tasks[k]]]
  IN Grown(new, Selected, None, <<first>>)

AddMeetingTemplate ==
  /\ HasSelected /\ Cardinality(doc.selection) = 1
  /\ Room(1 + 2 * Len(MeetingSections))
  /\ Depth(nodes, Selected) + 3 <= MaxDepth
  /\ \E uids \in FreshRow(1 + 2 * Len(MeetingSections)) :
       Command(Rebuild(SelectOnly(
         Template(uids, TRUE, [k \in DOMAIN MeetingSections |-> MeetingSections[k] = "actions"]),
         doc.nextId + 2 * Position(MeetingSections, "notes"))))

AddWeeklyTasks ==
  /\ HasSelected /\ Cardinality(doc.selection) = 1
  /\ Room(1 + 2 * WeekDays)
  /\ Depth(nodes, Selected) + 3 <= MaxDepth
  /\ \E uids \in FreshRow(1 + 2 * WeekDays) :
       Command(Rebuild(SelectOnly(
         Template(uids, FALSE, [k \in 1 .. WeekDays |-> TRUE]),
         doc.nextId + 2)))

\* The selected branches go, but never the root.
Unselected(gone) ==
  LET rest == IF HasSelected THEN Ancestors(nodes, Selected) \ gone ELSE {}
  IN SelectOnly(WithoutNodes(doc, gone), IF rest = {} THEN Root ELSE Deepest(nodes, rest))

RemoveSelected ==
  /\ doc.selection \ {Root} # {}
  /\ Command(Rebuild(Unselected(UNION {Branch(nodes, i) : i \in doc.selection \ {Root}})))

MayMoveIn(n, i, parent) ==
  /\ parent \notin Branch(n, i)
  /\ Depth(n, parent) + 1 + Height(n, i) <= MaxDepth
MayMove(i, parent) == MayMoveIn(nodes, i, parent)

MovedBefore(ids, parent, sibling) == Rebuild(Moved(doc, ids, parent, sibling))

MoveNode ==
  \E i \in DOMAIN nodes \ {Root}, parent \in DOMAIN nodes :
    /\ MayMove(i, parent)
    /\ \E sibling \in ({None} \cup Kids(nodes, parent)) \ {i} :
         Command(MovedBefore(<<i>>, parent, sibling))

\* A sibling that moves with the branches gives way to the next one that does not.
Staying(ids, parent, sibling) ==
  LET children == nodes[parent].children
      later == {k \in DOMAIN children :
                  /\ children[k] \notin ToSet(ids)
                  /\ sibling # None /\ k >= Position(children, sibling)}
  IN IF later = {} THEN None ELSE children[CHOOSE k \in later : \A l \in later : k <= l]

MoveBranches ==
  \E ids \in {BranchRoots(nodes, doc.selection)}, parent \in DOMAIN nodes :
    /\ ids # <<>> /\ Root \notin ToSet(ids)
    /\ \A i \in ToSet(ids) : MayMove(i, parent)
    /\ \E sibling \in {None} \cup Kids(nodes, parent) :
         \E next \in {MovedBefore(ids, parent, Staying(ids, parent, sibling))} :
           Bytes(next) # Bytes(doc) /\ Command(next)

-----------------------------------------------------------------------------
(***************************************************************************)
(* What a node is and holds.                                               *)
(***************************************************************************)
Changed(d, i, n) == [d EXCEPT !.nodes[i] = n]
With(i, n) == Changed(doc, i, n)
Holding(i, v) == With(i, [nodes[i] EXCEPT !.content = v])

ToggleFold ==
  /\ HasSelected /\ nodes[Selected].children # <<>>
  /\ Command(Rebuild(With(Selected, [nodes[Selected] EXCEPT !.folded = ~@])))

StorageKind(kind) == IF kind = "task" THEN "text" ELSE kind

\* Mutant: what is no task any more stays checked.
RetypedChecked(i, kind) ==
  LET task == kind = "task"
      below == IF task \/ (kind = "text" /\ nodes[i].task) THEN Branch(nodes, i) \ {i} ELSE {}
  IN [j \in DOMAIN nodes |->
       CASE j = i -> [nodes[j] EXCEPT !.kind = StorageKind(kind), !.task = task]
         [] j \in below -> [nodes[j] EXCEPT !.task = task]
         [] OTHER -> nodes[j]]

\* A node that becomes a task, or a task that becomes text, takes its branch along.
RetypedIn(n, i, kind) ==
  LET task == kind = "task"
      cascade == task \/ (kind = "text" /\ n[i].task)
      below == IF cascade THEN Branch(n, i) \ {i} ELSE {}
  IN [j \in DOMAIN n |->
       CASE j = i -> [n[j] EXCEPT !.kind = StorageKind(kind), !.task = task,
                                  !.checked = @ /\ task, !.meeting = @ /\ kind = "text"]
         [] j \in below -> [n[j] EXCEPT !.kind = IF task THEN "text" ELSE @,
                                        !.task = task, !.checked = @ /\ task]
         [] OTHER -> n[j]]
Retyped(i, kind) == RetypedIn(nodes, i, kind)

MayRetype(n, i, kind) ==
  \/ n[i].kind # StorageKind(kind) \/ n[i].task # (kind = "task")
  \/ kind = "task" /\ \E j \in Branch(n, i) : ~n[j].task

\* Mutant: the nodes above are not aggregated again.
SetNodeKindAlone(i, kind) ==
  /\ MayRetype(nodes, i, kind)
  /\ Command([doc EXCEPT !.nodes = Retyped(i, kind)])

SetNodeKind(i, kind) ==
  /\ MayRetype(nodes, i, kind)
  /\ Command(Rebuild([doc EXCEPT !.nodes = Retyped(i, kind)]))

ChangeKind == \E i \in DOMAIN nodes, kind \in {"text", "task", "date"} : SetNodeKind(i, kind)

ToggleTask ==
  /\ HasSelected /\ nodes[Selected].kind = "text"
  /\ SetNodeKind(Selected, IF nodes[Selected].task THEN "text" ELSE "task")

\* Only a task without tasks of its own is checked by hand.
TaskChildren(n, i) ==
  IF n[i].kind = "text" /\ ~n[i].meeting THEN {c \in Kids(n, i) : n[c].task} ELSE {}

ToggleChecked ==
  /\ HasSelected /\ nodes[Selected].kind = "text" /\ TaskChildren(nodes, Selected) = {}
  /\ Command(Rebuild(With(Selected,
       [nodes[Selected] EXCEPT !.task = TRUE, !.checked = ~@])))

SetText ==
  \E i \in DOMAIN nodes, v \in Content :
    /\ nodes[i].kind = "text" /\ nodes[i].content # v
    /\ Command(Rebuild(Holding(i, v)))

SetNotes ==
  \E v \in Content :
    /\ HasSelected /\ nodes[Selected].content # v
    /\ Command(Holding(Selected, v))

SetDateEntry ==
  \E i \in DOMAIN nodes, v \in Content :
    /\ nodes[i].kind = "date" /\ nodes[i].content # v
    /\ Command(Rebuild(Holding(i, v)))

UpdateMeeting ==
  \E v \in Content :
    /\ HasSelected /\ nodes[Selected].meeting /\ nodes[Selected].content # v
    /\ Command(Rebuild(Holding(Selected, v)))

SetResource ==
  \E i \in DOMAIN nodes, v \in Content :
    nodes[i].content # v /\ Command(Rebuild(Holding(i, v)))

\* An image is set even when it is the one the node has.
SetImage == \E i \in DOMAIN nodes, v \in Content : Command(Rebuild(Holding(i, v)))

MoveManual ==
  \E i \in DOMAIN nodes, v \in Content : doc.manual /\ Command(Rebuild(Holding(i, v)))

HoldingAll(S, v) ==
  [doc EXCEPT !.nodes = [i \in DOMAIN nodes |->
    IF i \in S THEN [nodes[i] EXCEPT !.content = v] ELSE nodes[i]]]

ApplyNodeStyle ==
  \E v \in Content :
    /\ \E i \in doc.selection : nodes[i].content # v
    /\ Command(Rebuild(HoldingAll(doc.selection, v)))

ResetNodeStyle ==
  /\ doc.selection # {}
  /\ Command(Rebuild(HoldingAll(doc.selection, Plain)))

\* The folds above a node that was searched for open, as a command of their own.
Revealed(folded, i) ==
  SelectOnly(Rebuild([doc EXCEPT !.nodes =
                        [j \in DOMAIN nodes |-> [nodes[j] EXCEPT !.folded = @ /\ j \notin folded]]]), i)

RevealSearchNode ==
  \E i \in DOMAIN nodes : \E folded \in {{a \in Ancestors(nodes, i) : nodes[a].folded}} :
    \/ folded = {} /\ Choose(SelectOnly(doc, i))
    \/ folded # {} /\ Command(Revealed(folded, i))

ConnectSelection ==
  \E a, b \in doc.selection :
    /\ a < b /\ doc.selection = {a, b}
    /\ <<a, b>> \notin ToSet(doc.connections)
    /\ Len(doc.connections) < MaxNodes
    /\ Command([doc EXCEPT !.connections = Append(@, <<a, b>>)])

\* A generated tree of four children to a node, for inspection.
LoadFixture ==
  \E count \in 1 .. MaxNodes : \E uids \in FreshRow(count) :
    Command(Rebuild(
      [doc EXCEPT !.nodes = [i \in 1 .. count |->
                    [NewNode(uids[i], IF i = Root THEN None ELSE (i - 2) \div 4 + 1)
                       EXCEPT !.children = Only([k \in 1 .. count |-> k],
                                                {k \in 2 .. count : (k - 2) \div 4 + 1 = i})]],
                  !.connections = <<>>, !.nextId = count + 1,
                  !.selected = Root, !.selection = {Root}]))

-----------------------------------------------------------------------------
(***************************************************************************)
(* The history.  A step through it is an edit for the room like any other. *)
(***************************************************************************)
\* Mutant: the cached answer to "edited?" is not asked for again.
RestoreUnchecked(state) ==
  /\ Spend(1)
  /\ saved' = saved /\ edited' = edited
  /\ doc' = Rebuild(state)
  /\ session' = Captured(doc, doc')
  /\ UNCHANGED <<file, path, clipboard, used, others>>

\* Mutant: the room does not learn of undo and redo.
RestoreUncaptured(state) ==
  /\ Spend(1)
  /\ saved' = saved /\ session' = session
  /\ doc' = Rebuild(state)
  /\ edited' = (Bytes(doc') # saved)
  /\ UNCHANGED <<file, path, clipboard, used, others>>

Restore(state) ==
  /\ Spend(1)
  /\ saved' = saved
  /\ Show(Rebuild(state))
  /\ UNCHANGED <<file, path, clipboard, used, others>>

Undo ==
  /\ undo # <<>>
  /\ undo' = Front(undo) /\ redo' = Append(redo, doc)
  /\ Restore(Last(undo))

Redo ==
  /\ redo # <<>>
  /\ redo' = Front(redo) /\ undo' = Append(undo, doc)
  /\ Restore(Last(redo))

-----------------------------------------------------------------------------
(***************************************************************************)
(* Files.  A write is atomic; one that fails changes nothing.              *)
(***************************************************************************)
Save ==
  /\ Spend(1)
  /\ file' = Bytes(doc) /\ path' = TRUE /\ saved' = file'
  /\ Show(doc)
  /\ UNCHANGED <<undo, redo, clipboard, used, others>>

\* Opening leaves the map of the document before and joins the one that is
\* attached to the file.
Open ==
  /\ Spend(1)
  /\ Loadable(file)
  /\ Checkpoint
  /\ doc' = Loaded(file)
  /\ saved' = Bytes(doc') /\ edited' = FALSE
  /\ session' = IF SharedFile THEN LiveWith(doc') ELSE NoSession
  /\ path' = TRUE /\ others' = Nobody
  /\ UNCHANGED <<file, clipboard, used>>

\* The window ends and is restored from its snapshot, which holds the document
\* and what it is compared with; the engine begins with a new document.
Recover ==
  /\ Spend(1)
  /\ Loadable(doc)
  /\ \E u \in Fresh :
       /\ undo' = <<Blank(u)>> /\ redo' = <<>>
       /\ used' = used \cup {u}
  /\ doc' = Loaded(Bytes(doc))
  /\ saved' = saved /\ edited' = (Bytes(doc') # saved)
  /\ session' = NoSession /\ others' = Nobody
  /\ UNCHANGED <<file, path, clipboard>>

-----------------------------------------------------------------------------
(***************************************************************************)
(* The clipboard: branches as a document with a root of its own, so that   *)
(* the loader judges them.                                                 *)
(***************************************************************************)
\* The nodes of the branches in the order of the outline, numbered from 2.
Outline(d, tops) ==
  LET below[i \in DOMAIN d] ==
        <<i>> \o FlattenSeq([k \in DOMAIN d[i].children |-> below[d[i].children[k]]])
  IN FlattenSeq([k \in DOMAIN tops |-> below[tops[k]]])

\* The branches under `parent', with the n-th node of `order' numbered from `first'.
Numbered(d, order, first, parent) ==
  LET number(i) == IF i \in ToSet(order) THEN first + Position(order, i) - 1 ELSE parent
  IN Table([n \in first .. first + Len(order) - 1 |->
       [d[order[n - first + 1]] EXCEPT !.parent = number(@),
                                       !.children = [k \in DOMAIN @ |-> number(@[k])]]])

NumberedEdges(edges, order, first) ==
  LET number(i) == first + Position(order, i) - 1
  IN [k \in DOMAIN edges |-> <<number(edges[k][1]), number(edges[k][2])>>]

Copied(tops, order) ==
  [Bytes(doc) EXCEPT
     !.nodes = Over(Single(Root, [NewNode(NoParent, None) EXCEPT
                              !.children = [k \in DOMAIN tops |-> Position(order, tops[k]) + 1]]),
                    Numbered(nodes, order, 2, Root)),
     !.connections = NumberedEdges(
        Only(@, {e \in ToSet(@) : {e[1], e[2]} \subseteq ToSet(order)}), order, 2)]

CopyBranches ==
  /\ doc.selection # {}
  /\ clipboard' = LET tops == BranchRoots(nodes, doc.selection)
                  IN Copied(tops, Outline(nodes, tops))
  /\ clipboard' # clipboard
  /\ Spend(1)
  /\ UNCHANGED <<doc, undo, redo, file, path, saved, edited, session, used, others>>

\* Branches with new identities under the selected node.
Pasted(b, uids) ==
  LET imported == Loaded(b)
      order == [k \in 1 .. Cardinality(DOMAIN b.nodes) - 1 |-> k + 1]
      branches == Numbered(b.nodes, order, doc.nextId, Selected)
      kids == imported.nodes[Root].children
      tops == [k \in DOMAIN kids |-> doc.nextId + Position(order, kids[k]) - 1]
      named == [n \in DOMAIN branches |->
                 [branches[n] EXCEPT !.syncId = uids[n - doc.nextId + 1]]]
      grown == Grown(named, Selected, None, tops)
  IN [grown EXCEPT
        !.connections = @ \o NumberedEdges(imported.connections, order, doc.nextId),
        !.selected = tops[1], !.selection = ToSet(tops)]

\* ... if the loader accepts both them and the document with them.
PasteBranchData(b) ==
  /\ Loadable(b) /\ b.nodes[Root].children # <<>>
  /\ HasSelected
  /\ Room(Cardinality(DOMAIN b.nodes) - 1)
  /\ \E uids \in FreshRow(Cardinality(DOMAIN b.nodes) - 1) :
       \E merged \in {Pasted(b, uids)} :
         /\ Loadable(Bytes(merged))
         /\ Command(Rebuild([Loaded(Bytes(merged)) EXCEPT
                               !.selection = merged.selection, !.selected = merged.selected]))

PasteBranches == clipboard # <<>> /\ PasteBranchData(clipboard)

\* Lines of text, each under the root or under a line before it.
FromLines(parents) ==
  [Bytes(Blank(NoParent)) EXCEPT
     !.nodes = Table([i \in 1 .. Len(parents) + 1 |->
       [NewNode(1 - i, IF i = Root THEN None ELSE parents[i - 1]) EXCEPT
          !.children = Only([k \in DOMAIN parents |-> k + 1],
                            {k \in 2 .. Len(parents) + 1 : parents[k - 1] = i})]])]

PasteOutline ==
  \E parents \in {<<Root>>, <<Root, Root>>, <<Root, 2>>} : PasteBranchData(FromLines(parents))

-----------------------------------------------------------------------------
(***************************************************************************)
(* A message of the live session.                                          *)
(*                                                                         *)
(* The room applies some of the pending batches and then perhaps the edit  *)
(* of another client, which is made from the map as that client sees it.   *)
(* The client lays what is still pending over the map that it is sent      *)
(* (handleLiveMessage) and brings the result into the editor, where nodes  *)
(* keep their local numbers and every state of the history gets the same   *)
(* operations (applyRemoteDocumentBytes).                                  *)
(***************************************************************************)
\* What one command of another client's engine makes of its document, by itself:
\* the look of the map,
TheirLooks(d) ==
  {[d EXCEPT !.look = v] : v \in Content}
    \cup {[d EXCEPT !.layout = l, !.manual = @ /\ l # "Compact"] : l \in Layout}
    \cup {[d EXCEPT !.manual = ~@ /\ d.layout # "Compact"]}

\* a node with other contents, its fold, its check mark, its kind,
TheirContents(d) ==
  {Changed(d, i, [d.nodes[i] EXCEPT !.content = v]) : i \in DOMAIN d.nodes, v \in Content}
TheirFolds(d) ==
  {Changed(d, i, [d.nodes[i] EXCEPT !.folded = ~@]) :
     i \in {i \in DOMAIN d.nodes : d.nodes[i].children # <<>>}}
TheirChecks(d) ==
  {Changed(d, i, [d.nodes[i] EXCEPT !.task = TRUE, !.checked = ~@]) :
     i \in {i \in DOMAIN d.nodes : d.nodes[i].kind = "text" /\ TaskChildren(d.nodes, i) = {}}}
TheirKinds(d) ==
  {[d EXCEPT !.nodes = RetypedIn(@, r[1], r[2])] :
     r \in {r \in (DOMAIN d.nodes) \X {"text", "task", "date"} : MayRetype(d.nodes, r[1], r[2])}}

\* a relationship, a branch less,
TheirRelations(d) ==
  {[d EXCEPT !.connections = Append(@, e)] :
     e \in {e \in (DOMAIN d.nodes) \X (DOMAIN d.nodes) :
             e[1] < e[2] /\ e \notin ToSet(d.connections) /\ Len(d.connections) < MaxNodes}}
TheirRemovals(d) == {WithoutNodes(d, Branch(d.nodes, i)) : i \in DOMAIN d.nodes \ {Root}}

\* a node more, or a branch at another place.
Places(n, p) == {None} \cup Kids(n, p)
TheirAdditions(d) ==
  LET n == d.nodes
      entry(a, kind) == Single(d.nextId, Entry(n, a[1], a[2], kind))
  IN UNION {{GrownIn(d, entry(a, "date"), a[2], None, <<d.nextId>>)}
              \cup {GrownIn(d, entry(a, "text"), a[2], sibling, <<d.nextId>>) :
                      sibling \in Places(n, a[2])} :
            a \in {a \in Fresh \X (DOMAIN n) :
                    Cardinality(DOMAIN n) < MaxNodes /\ Depth(n, a[2]) < MaxDepth}}
TheirMoves(d) ==
  LET n == d.nodes
  IN UNION {{Moved(d, <<m[1]>>, m[2], sibling) : sibling \in Places(n, m[2]) \ {m[1]}} :
            m \in {m \in (DOMAIN n \ {Root}) \X (DOMAIN n) : MayMoveIn(n, m[1], m[2])}}
TheirCommands(d) ==
  UNION {TheirLooks(d), TheirContents(d), TheirFolds(d), TheirChecks(d), TheirKinds(d),
         TheirRelations(d), TheirRemovals(d), TheirAdditions(d), TheirMoves(d)}

\* The rooms that its edit leaves: the client shows the map as its loader makes it,
\* and sends what the command changed of that.
TheirEdits(c) ==
  LET d == Loaded(Project(c))
  IN IF ~Loadable(Project(c)) THEN {}
     ELSE UNION {Results(c, Diff(Normalize(d), Normalize(Rebuild(e)))) : e \in TheirCommands(d)}

\* Local numbers for identities: known ones, and the next to give.
Meet(known, uids) ==
  LET new == InOrder(uids \ DOMAIN known.of)
  IN [of |-> Over(known.of, [u \in ToSet(new) |-> known.next + Position(new, u) - 1]),
      next |-> known.next + Len(new)]

\* Mutant: only the root keeps its number.
RootNumber(d, rootUid) == [of |-> Single(rootUid, Root), next |-> 2]

LocalNumbers(d, rootUid) ==
  LET kept == {i \in DOMAIN d.nodes : i # Root /\ d.nodes[i].syncId # rootUid}
  IN [of |-> Over(Single(rootUid, Root),
                  [u \in {d.nodes[i].syncId : i \in kept} |->
                     CHOOSE i \in kept : d.nodes[i].syncId = u]),
      next |-> Highest({d.nextId} \cup {i + 1 : i \in DOMAIN d.nodes})]

\* preserveLocalIds.
Renumbered(d, known) ==
  LET number(i) == IF i = None THEN None ELSE known.of[d.nodes[i].syncId]
  IN [d EXCEPT
       !.nodes = Table([n \in {number(i) : i \in DOMAIN d.nodes} |->
         LET i == CHOOSE i \in DOMAIN d.nodes : number(i) = n
         IN [d.nodes[i] EXCEPT !.parent = number(@),
                               !.children = [k \in DOMAIN @ |-> number(@[k])]]]),
       !.connections = [k \in DOMAIN @ |-> <<number(@[k][1]), number(@[k][2])>>],
       !.nextId = known.next]

\* preserveSelection: by identity; the root when the selected node is gone.
KeepSelection(next, previous) ==
  LET same(i) == {j \in DOMAIN next.nodes :
                    i \in DOMAIN previous.nodes /\ next.nodes[j].syncId = previous.nodes[i].syncId}
      selected == IF same(previous.selected) = {} THEN Root
                  ELSE CHOOSE j \in same(previous.selected) : TRUE
      kept == UNION {same(i) : i \in previous.selection}
  IN [next EXCEPT !.selected = selected,
                  !.selection = IF kept = {} THEN {selected} ELSE kept]

\* Mutant: the history stays as it is.
NotRebased(stack, ops, numbers) == [known |-> numbers, stack |-> stack]

\* Mutant: a state that does not take the operations stays.
RebasedOrKept(r, old, ops) ==
  LET merged == {b \in {Project(c) : c \in Results(Normalize(Rebuild(old)), ops)} : Loadable(b)}
      next == Loaded(CHOOSE b \in merged : TRUE)
      known == Meet(r.known, IdentitiesOf(next.nodes))
  IN IF merged = {} THEN [r EXCEPT !.stack = Append(@, old)]
     ELSE [known |-> known,
           stack |-> Append(r.stack, KeepSelection(Renumbered(next, known), old))]

\* rebaseStack, of one state: one that does not take the operations is dropped.
RebasedState(r, old, ops) ==
  LET merged == {b \in {Project(c) : c \in Results(Normalize(Rebuild(old)), ops)} : Loadable(b)}
      next == Loaded(CHOOSE b \in merged : TRUE)
      known == Meet(r.known, IdentitiesOf(next.nodes))
  IN IF merged = {} THEN r
     ELSE [known |-> known,
           stack |-> Append(r.stack, KeepSelection(Renumbered(next, known), old))]

Rebased(stack, ops, numbers) ==
  LET upto[k \in 0 .. Len(stack)] ==
        IF k = 0 THEN [known |-> numbers, stack |-> <<>>]
        ELSE RebasedState(upto[k - 1], stack[k], ops)
  IN upto[Len(stack)]

\* The rooms after some batches: one of them, or none.
AfterBatches(c, batches) ==
  LET rooms[k \in 0 .. Len(batches)] ==
        IF k = 0 THEN {c} ELSE UNION {Results(x, batches[k]) : x \in rooms[k - 1]}
  IN rooms[Len(batches)]

\* applyRemoteDocumentBytes: what it makes of the document and its history.
Merged(overlay) ==
  LET ops == Diff(Normalize(doc), overlay)
      known == Meet(LocalNumbers(doc, RootOf(overlay)), DOMAIN overlay.nodes)
      candidate == Rebuild(Renumbered(Loaded(Project(overlay)), known))
      undone == Rebased(undo, ops, known)
      redone == Rebased(redo, ops, undone.known)
  IN IF Bytes(candidate) = Bytes(doc)
       THEN [doc |-> doc, undo |-> undo, redo |-> redo]
       ELSE [doc |-> Rebuild(KeepSelection([candidate EXCEPT !.nextId = redone.known.next], doc)),
             undo |-> undone.stack, redo |-> redone.stack]

\* What others wrote and removed, by that message.  A node that they bring back
\* is not gone any more; a place that they remove may take with it, in an undone
\* state, what they added elsewhere.
Observed(before, overlay) ==
  LET was == DOMAIN before.nodes
      is == DOMAIN overlay.nodes
      theirs == {u \in is : u \in was => before.nodes[u].content # overlay.nodes[u].content}
      known == is \cap (theirs \cup DOMAIN others.wrote)
  IN [wrote |-> [u \in known |->
                  IF u \in theirs THEN overlay.nodes[u].content ELSE others.wrote[u]],
      added |-> IF was \subseteq is THEN others.added \cup (is \ was) ELSE {},
      gone |-> (others.gone \cup (was \ is)) \ is]

Incorporate(overlay) ==
  /\ \E merged \in {Merged(overlay)} :
       doc' = merged.doc /\ undo' = merged.undo /\ redo' = merged.redo
  /\ edited' = (Bytes(doc') # saved)
  /\ others' = Observed(Normalize(doc), overlay)

\* A state that pending batches do not fit, or that the loader refuses, is shown
\* as an error and leaves the editor alone.
Message ==
  /\ session.live
  /\ Spend(2)
  /\ \E k \in 0 .. Len(session.pending) :
       \E c \in AfterBatches(session.room, SubSeq(session.pending, 1, k)) :
         \E sent \in TheirEdits(c) \cup {c} :
           /\ session' = [session EXCEPT !.room = sent, !.pending = SubSeq(@, k + 1, Len(@))]
           /\ session' # session
           /\ used' = used \cup DOMAIN sent.nodes
           /\ \E shown \in {{x \in AfterBatches(sent, session'.pending) : Loadable(Project(x))}} :
                \/ shown = {} /\ UNCHANGED <<doc, undo, redo, edited, others>>
                \/ \E overlay \in shown : Incorporate(overlay)
  /\ UNCHANGED <<file, path, saved, clipboard>>

-----------------------------------------------------------------------------
Nodes == AddChild \/ AddChildFromPointer \/ AddSibling \/ AddDateNode
           \/ AddMeetingTemplate \/ AddWeeklyTasks \/ RemoveSelected
           \/ MoveNode \/ MoveBranches \/ LoadFixture
           \/ CopyBranches \/ PasteBranches \/ PasteOutline
Contents == ToggleFold \/ ChangeKind \/ ToggleTask \/ ToggleChecked
              \/ SetText \/ SetNotes \/ SetDateEntry \/ UpdateMeeting
              \/ SetResource \/ SetImage \/ MoveManual
              \/ ApplyNodeStyle \/ ResetNodeStyle \/ RevealSearchNode \/ ConnectSelection
Looks == SetLayout \/ SetSpacing \/ SetBranchStyle \/ SetTheme \/ ApplyThemeRecipe \/ SetManual
Selections == Select \/ Navigate \/ SelectNone \/ SelectMany
Files == Save \/ Open \/ Recover

Next == Nodes \/ Contents \/ Looks \/ Selections \/ Undo \/ Redo \/ Files \/ Message

Spec == Init /\ [][Next]_vars

-----------------------------------------------------------------------------
(***************************************************************************)
(* Properties.                                                             *)
(***************************************************************************)
States == {doc} \cup ToSet(undo) \cup ToSet(redo)

\* Every variable has its type, and the history is bounded.
IsState(d) ==
  /\ DOMAIN d = DOMAIN Blank(1)
  /\ d.layout \in Layout /\ d.manual \in BOOLEAN /\ d.look \in Content
  /\ d.selected \in DOMAIN d.nodes \cup {None} /\ d.selection \subseteq DOMAIN d.nodes
  /\ \A i \in DOMAIN d.nodes :
       /\ i \in 1 .. d.nextId - 1
       /\ DOMAIN d.nodes[i] = DOMAIN NewNode(1, None)
       /\ d.nodes[i].content \in Content
TypeOK ==
  /\ \A s \in States : IsState(s)
  /\ Len(undo) + Len(redo) <= UndoLimit
  /\ path \in BOOLEAN /\ edited \in BOOLEAN /\ session.live \in BOOLEAN
  /\ used \subseteq Identity /\ others.gone \subseteq Identity
  /\ effort \in 0 .. MaxEffort

\* What the window shows, and every state that its history can bring back, is a
\* document that the loader would accept: commands, pasted branches and merged
\* edits of others keep the tree within its limits and the nodes consistent, and
\* no relationship outlives a node that it joins.  (That each pair is related
\* once is left to the loader: a merge may turn a relationship round.)
StatesOpen ==
  \A s \in States :
    /\ Loadable([Bytes(s) EXCEPT !.connections = <<>>])
    /\ \A e \in ToSet(s.connections) :
         e[1] # e[2] /\ e[1] \in DOMAIN s.nodes /\ e[2] \in DOMAIN s.nodes

\* The history holds states as they were shown: to restore one changes nothing
\* of it (rebuild has no more to aggregate), so that undo brings back exactly
\* what the command took away, and redo what it made.
HistorySettled == \A s \in States : Bytes(Rebuild(s)) = Bytes(s)

\* The selection is of nodes that show, whatever was folded, removed, undone or
\* merged; the node that keys act on belongs to it.
SelectionShown ==
  IF doc.selected = None THEN doc.selection = {}
  ELSE doc.selected \in doc.selection /\ doc.selection \subseteq Unfolded(nodes)

\* A window with nothing unsaved can be closed: its file holds the document,
\* whatever was undone, recovered or merged since it was written.
ClosingLosesNothing ==
  path /\ ~edited => Normalize([doc EXCEPT !.nodes = file.nodes,
                                           !.connections = file.connections,
                                           !.layout = file.layout,
                                           !.manual = file.manual,
                                           !.look = file.look]) = Normalize(doc)

\* The batches that are left for the room, laid over its map, make what the
\* editor shows: no edit is missed, sent twice or changed on the way.  (There is
\* no such map when the room refuses them: the window then says so.)  A message
\* brings the two together, the map as the loader settles it; a step of the user
\* keeps them together if they were the same.  They are not where the loader had
\* something to settle, which is shown and not sent (sharecoordinator.cpp:600),
\* nor after a step that takes a node from above another that it keeps: the batch
\* removes the node with what the room still has below it (liveoperations.cpp:178).
Agrees(s, d) == \A x \in AfterBatches(s.room, s.pending) : x = Normalize(d)
Torn(before, after) ==
  \E u \in DOMAIN before.nodes \ DOMAIN after.nodes :
    Under(before, u) \cap DOMAIN after.nodes # {}
Heard == session'.room # session.room \/ Len(session'.pending) < Len(session.pending)
SharedIsShown ==
  [][session'.live =>
       IF Heard
         THEN \A x \in AfterBatches(session'.room, session'.pending) :
                Loadable(Project(x)) => Normalize(doc') = Normalize(Loaded(Project(x)))
         ELSE Agrees(session, doc) /\ ~Torn(Normalize(doc), Normalize(doc')) =>
                Agrees(session', doc')]_vars

\* A node that others removed does not come back unless others bring it back: not
\* by a step through the history, nor by anything else that the user does.
GoneStaysGone == others.gone \cap IdentitiesOf(nodes) = {}

\* What others wrote stays until the user changes it: undo and redo bring back no
\* words from before.  What they added stays until the user removes it, or others
\* remove a place that an undone command may have taken it from.
OthersKept ==
  /\ \A i \in DOMAIN nodes : LET u == nodes[i].syncId
                             IN u \in DOMAIN others.wrote => nodes[i].content = others.wrote[u]
  /\ others.added \subseteq IdentitiesOf(nodes)

\* Across a message nodes keep the numbers that the canvas, an open text editor
\* and a drag know them by, and no other node takes one over; the selected node
\* stays selected while it shows.  (To open the file is no message.)
MessageKeepsPlace ==
  [][session.live /\ session'.live /\ session'.room # session.room /\ doc' # Loaded(file) =>
       /\ \A i \in DOMAIN nodes, j \in DOMAIN nodes' :
            i = j <=> nodes[i].syncId = nodes'[j].syncId
       /\ Selected \in DOMAIN nodes' /\ Selected \in Unfolded(nodes') => Selected' = Selected]_vars

\* (docs/collaboration-scaling.md:42: "Incoming state preserves ... rebased
\* undo/redo.")  Every state that undo or redo restores has its root at number 1,
\* where the commands and the layout look for it.
HistoryRooted == \A s \in States : Root \in DOMAIN s.nodes /\ s.nodes[Root].parent = None

=============================================================================
