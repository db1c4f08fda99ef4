-------------------------------- MODULE Desktop --------------------------------
(***************************************************************************)
(* The desktop application (src/macapplication.cpp): one process with the  *)
(* documents of all windows, each with its recovery snapshot               *)
(* (src/documentrecovery.h) and its entry in the registry of sessions      *)
(* (src/documentsession.h), by which windows agree to quit; and what the   *)
(* next process finds of it.                                               *)
(*                                                                         *)
(* A window of this model is a document with its tab; a host is the native *)
(* window that shows one of its tabs.  Windows are named by their session, *)
(* which outlives the process.  Drafts in open text fields are counted as  *)
(* part of the document, and files that cannot be read are left out.       *)
(***************************************************************************)
EXTENDS Integers, Sequences, SequencesExt, FiniteSets, SequenceTools

CONSTANTS
  Window,     \* bound: sessions that ever exist, 1 .. n in the order of file names
  Naming,     \* the order in which windows get these names, which are random
  Host,       \* native windows, as many
  File,       \* paths of documents
  Content,    \* what a document may hold
  Plain,      \* what a new one holds
  Opening,    \* windows and documents to begin with, each with its bound
  OnDisk,     \* documents on disk to begin with
  Sheets      \* prompts are native sheets (on macOS and Windows)

ASSUME DesktopAssumption ==
  /\ IsFiniteSet(Window) /\ Window = 1 .. Cardinality(Window) /\ Host = Window
  /\ ToSet(Naming) = Window /\ Len(Naming) = Cardinality(Window)
  /\ Plain \in Content /\ OnDisk \in [File -> Content]
  /\ Sheets \in BOOLEAN

None == 0
NoFile == ""   \* a document that was never saved
ASSUME FileAssumption == NoFile \notin File

VARIABLES
  running,   \* the process
  quitting,  \* m_quitting
  desk,      \* the windows: their order (m_documents), the host of each, what
             \*   each host shows (activeWorkspace), the host in front (m_active),
             \*   the host with the welcome screen
  map,       \* of each window: what it holds, what that is compared with, its file
  ui,        \* of each window: the state of its dialogs and of its part in a quit
  registry,  \* documents.ini: registered sessions and the quit under way
  snapshots, \* *.recovery
  files,     \* the documents on disk
  tabs,      \* tabs.ini
  born,      \* sessions that were given to a window
  closed,    \* history: windows that the user closed
  left,      \* history: the host of each window that the last quit closed
  budget     \* bound: what users do, requests to quit, deaths of the process and
             \*   snapshots that cannot be written

vars == <<running, quitting, desk, map, ui, registry, snapshots, files, tabs, born,
          closed, left, budget>>

shell == <<running, quitting>>
disk == <<snapshots, files, tabs>>
history == <<closed, left>>

Blank == [text |-> Plain, base |-> Plain, path |-> NoFile]
Idle == [frozen |-> FALSE, prompt |-> FALSE, back |-> None, removed |-> FALSE,
         leaving |-> FALSE, asked |-> 0, finished |-> FALSE, dialog |-> "none"]
NoDesk == [documents |-> <<>>, host |-> <<>>, shown |-> [h \in Host |-> None],
           front |-> None, welcome |-> None]

(* What a window holds, the state of its dialogs, and the windows: each document  *)
(* has one place and one host; what is shown, in front or welcomes is among them; *)
(* and the welcome screen has the application for itself.                         *)
Document == [text : Content, base : Content, path : File \cup {NoFile}]
Dialogs == [frozen : BOOLEAN, prompt : BOOLEAN, back : Window \cup {None}, removed : BOOLEAN,
            leaving : BOOLEAN, asked : Nat, finished : BOOLEAN,
            dialog : {"none", "popup", "entry"}]
IsDesk(d) ==
  LET windows == ToSet(d.documents)
      hosts == {d.host[w] : w \in windows}
  IN /\ d = [documents |-> d.documents, host |-> d.host, shown |-> d.shown,
             front |-> d.front, welcome |-> d.welcome]
     /\ d.documents \in Seq(Window) /\ IsInjective(d.documents)
     /\ d.host \in [windows -> Host] /\ d.shown \in [Host -> windows \cup {None}]
     /\ \A h \in Host \ hosts : d.shown[h] = None
     /\ {d.front, d.welcome} \subseteq hosts \cup {None}
     /\ d.welcome # None => \E w \in windows : windows = {w}

ASSUME OpeningAssumption ==
  \A o \in Opening :
    /\ IsDesk(o.desk) /\ o.desk.welcome = None
    /\ o.map \in [ToSet(o.desk.documents) -> Document]

Init ==
  /\ \E o \in Opening : desk = o.desk /\ map = o.map /\ budget = o.budget
  /\ running = (desk.documents # <<>>) /\ quitting = FALSE
  /\ born = DOMAIN map
  /\ ui = [w \in born |-> Idle]
  /\ registry = [windows |-> born, state |-> "none", id |-> 0, participants |-> <<>>, votes |-> {}]
  /\ snapshots = <<>> /\ files = OnDisk
  /\ tabs = [groups |-> <<>>, active |-> None]
  /\ closed = {} /\ left = <<>>

Spend(what) == budget[what] > 0 /\ budget' = [budget EXCEPT ![what] = @ - 1]

-----------------------------------------------------------------------------
(***************************************************************************)
(* The windows.                                                            *)
(***************************************************************************)
Documents == ToSet(desk.documents)

\* A set in order.
Sorted(set) ==
  CHOOSE s \in [1 .. Cardinality(set) -> set] : \A j, k \in DOMAIN s : j < k => s[j] < s[k]

TabsOf(d, h) == Only(d.documents, {w \in DOMAIN d.host : d.host[w] = h})
Hosts(d) == {d.host[w] : w \in ToSet(d.documents)}
\* The first tab of each host.
Firsts(d) == Only(d.documents, {Head(TabsOf(d, h)) : h \in Hosts(d)})
With(f, w, x) == [v \in DOMAIN f \cup {w} |-> IF v = w THEN x ELSE f[v]]
Without(f, w) == [v \in DOMAIN f \ {w} |-> f[v]]

Unsaved(w) == map[w].text # map[w].base
\* modalTabBlocked, and what is as good: the question before closing, the end of a
\* quit, and the dialogs of the document: for sharing, templates and files (a popup),
\* and an entry that is not committed yet, of a date or of a text.
Blocked(w) == ui[w].prompt \/ ui[w].frozen \/ ui[w].dialog # "none"
\* The document changes: the user, a dialog or a message works on it.  (A window that
\* is about to go is not for users any more: it goes at the next turn of the loop.)
Usable(w) ==
  /\ desk.shown[desk.host[w]] = w /\ desk.welcome # desk.host[w]
  /\ ~ui[w].prompt /\ ~ui[w].frozen /\ ~ui[w].leaving

\* activate: unless what the host shows now has to be answered first.
Activating(d, w, blocked) ==
  LET h == d.host[w]
  IN IF ~quitting /\ d.shown[h] \in blocked \ {w} THEN d
     ELSE [d EXCEPT !.shown[h] = w, !.front = h]
AllBlocked == {w \in Documents : Blocked(w)}
Activated(d, w) == Activating(d, w, AllBlocked)

\* activeWindow: the host in front, or that of the last document.
ActiveHost(d) ==
  IF d.front # None \/ d.documents = <<>> THEN d.front ELSE d.host[Last(d.documents)]
ActiveShown == IF ActiveHost(desk) = None THEN None ELSE desk.shown[ActiveHost(desk)]

\* prepareTabCommand.
TabCommand == running /\ ~quitting /\ ActiveShown \notin AllBlocked

\* saveTabs: the tabs of each host in the order of the documents; not in a quit.
TabFile(d) ==
  LET firsts == Firsts(d)
      active == IF ActiveHost(d) = None THEN None ELSE d.shown[ActiveHost(d)]
  IN [groups |-> [k \in DOMAIN firsts |->
                   [paths |-> TabsOf(d, d.host[firsts[k]]), active |-> d.shown[d.host[firsts[k]]]]],
      active |-> IF active = None THEN tabs.active ELSE active]
SavedTabs(d) == IF quitting THEN tabs ELSE TabFile(d)

\* prune: sessions whose lock nobody holds.
Registered == registry.windows \cap Documents
Enrolled(w) == [registry EXCEPT !.windows = Registered \cup {w}]
Forgotten(w) == [registry EXCEPT !.windows = @ \ {w}]

\* setDocument: a window that has another file says so.
Recorded(w, m) ==
  IF m.path \in {NoFile, map[w].path} THEN registry ELSE Enrolled(w)

\* Mutant: the host stays in front.
VacatedInFront(d, h) ==
  [d EXCEPT !.shown[h] = None, !.welcome = IF @ = h THEN None ELSE @]

\* A host that lost its last tab closes.
Vacated(d, h) ==
  [d EXCEPT !.shown[h] = None, !.front = IF @ = h THEN None ELSE @,
            !.welcome = IF @ = h THEN None ELSE @]

\* Mutant: the old host is left alone.
RehostedOnly(d, w, h) ==
  LET there == [d EXCEPT !.host[w] = h]
  IN IF TabsOf(there, d.host[w]) = <<>> THEN Vacated(there, d.host[w]) ELSE there

\* moveDocument, for a window that its new host does not show yet: the old host
\* shows another one, unless w has to be answered first.
Rehosted(d, w, h) ==
  LET old == d.host[w]
      there == [d EXCEPT !.host[w] = h]
      peers == TabsOf(there, old)
  IN IF peers = <<>> THEN Vacated(there, old)
     ELSE IF d.shown[old] = w THEN Activated(there, Head(peers))
     ELSE there

-----------------------------------------------------------------------------
(***************************************************************************)
(* The process begins.                                                     *)
(***************************************************************************)
Fresh == {w \in Window \ born :
            \A v \in Window \ born : Position(Naming, w) <= Position(Naming, v)}
FreeHost(d) == CHOOSE h \in Host : h \notin Hosts(d) /\ \A g \in Host \ Hosts(d) : h <= g

\* A new window with a document.
Opened(m, h, welcome) ==
  \E w \in Fresh :
    /\ desk' = Activated([desk EXCEPT !.documents = Append(@, w), !.host = With(@, w, h),
                                      !.welcome = welcome], w)
    /\ map' = With(map, w, m)
    /\ born' = born \cup {w}
    /\ ui' = With(ui, w, Idle)
    /\ registry' = Enrolled(w)

\* unfinishedPaths: the snapshots with changes, in the order of their names.
Unfinished ==
  Sorted({w \in DOMAIN snapshots : snapshots[w].text # snapshots[w].base})

\* Each gets a host; then those that tabs.ini has in one group move to the host of
\* the first of them, and the order of the file becomes that of the documents.
Restored ==
  LET alive == [k \in DOMAIN tabs.groups |-> Only(tabs.groups[k].paths, ToSet(Unfinished))]
      groups == Only(alive, ToSet(alive) \ {<<>>})
      grouped == FlattenSeq(groups)
      order == grouped \o Only(Unfinished, ToSet(Unfinished) \ ToSet(grouped))
      home(w) == LET g == {k \in DOMAIN groups : w \in ToSet(groups[k])}
                 IN Position(Unfinished,
                            IF g = {} THEN w ELSE Head(groups[CHOOSE k \in g : TRUE]))
      host == [w \in ToSet(order) |-> home(w)]
      wasShown == {tabs.groups[k].active : k \in DOMAIN tabs.groups}
      show(h) == LET there == {w \in DOMAIN host : host[w] = h}
                     was == there \cap wasShown
                 IN IF there = {} THEN None
                    ELSE IF tabs.active \in there THEN tabs.active
                    ELSE IF was # {} THEN CHOOSE w \in was : TRUE
                    ELSE order[CHOOSE k \in DOMAIN order :
                                 order[k] \in there /\ \A j \in 1 .. k - 1 : order[j] \notin there]
      last == IF grouped = <<>> THEN Last(order) ELSE Head(Last(groups))
  IN [documents |-> order, host |-> host, shown |-> [h \in Host |-> show(h)],
      front |-> host[IF tabs.active \in DOMAIN host THEN tabs.active ELSE last],
      welcome |-> None]

Begin ==
  /\ ~running /\ running' = TRUE
  /\ left' = <<>>
  /\ UNCHANGED <<quitting, disk, closed, budget>>

Start ==
  /\ Begin
  /\ Unfinished # <<>>
  /\ desk' = Restored
  /\ map' = [w \in ToSet(Unfinished) |-> snapshots[w]]
  /\ ui' = [w \in ToSet(Unfinished) |-> Idle]
  /\ registry' = [registry EXCEPT !.windows = ToSet(Unfinished)]
  /\ born' = born

\* Nothing is unfinished: the welcome screen, before a new document.
StartHome ==
  /\ Begin
  /\ Unfinished = <<>>
  /\ \E h \in {FreeHost(desk)} : Opened(Blank, h, h)

Read(f) == [text |-> files[f], base |-> files[f], path |-> f]

\* With a file, or for a new document: the snapshots stay for another time.
StartWith ==
  /\ Begin
  /\ \E m \in {Blank} \cup {Read(f) : f \in File} : Opened(m, FreeHost(desk), None)

-----------------------------------------------------------------------------
(***************************************************************************)
(* Documents are opened, edited and saved.                                 *)
(***************************************************************************)
\* The welcome screen gives way to the first document.
Welcomed(m) ==
  \E w \in Documents :
    /\ desk.host[w] = desk.welcome
    /\ map' = [map EXCEPT ![w] = m]
    /\ desk' = Activated([desk EXCEPT !.welcome = None], w)
    /\ registry' = Recorded(w, m)
    /\ UNCHANGED <<ui, born>>

Open ==
  /\ running /\ ~quitting
  /\ Spend("effort")
  /\ \E f \in File :
       IF \E w \in Documents : map[w].path = f
         THEN /\ \E w \in Documents :
                   /\ map[w].path = f
                   /\ \A k \in 1 .. Position(desk.documents, w) - 1 : map[desk.documents[k]].path # f
                   /\ desk' = Activated(desk, w)
              /\ UNCHANGED <<map, ui, registry, born>>
       ELSE IF desk.welcome # None THEN Welcomed(Read(f))
       ELSE Opened(Read(f), FreeHost(desk), None)
  /\ UNCHANGED <<shell, disk, history>>

OpenNew ==
  /\ running /\ ~quitting
  /\ Spend("effort")
  /\ IF desk.welcome # None THEN Welcomed(Blank) ELSE Opened(Blank, FreeHost(desk), None)
  /\ UNCHANGED <<shell, disk, history>>

\* The application is called for when it has no window.
Reopen ==
  /\ running /\ ~quitting /\ desk.documents = <<>>
  /\ Spend("effort")
  /\ \E h \in {FreeHost(desk)} : Opened(Blank, h, h)
  /\ UNCHANGED <<shell, disk, history>>

Edit(w) ==
  /\ Usable(w)
  /\ Spend("effort")
  /\ \E v \in Content \ {map[w].text} : map' = [map EXCEPT ![w].text = v]
  /\ UNCHANGED <<shell, desk, ui, registry, disk, born, history>>

\* What is saved is put into the snapshot at once.
Saved(w, f) ==
  /\ files' = [files EXCEPT ![f] = map[w].text]
  /\ map' = [map EXCEPT ![w] = [text |-> map[w].text, base |-> map[w].text, path |-> f]]

Targets(w) == IF map[w].path = NoFile THEN File ELSE {map[w].path}

Save(w) ==
  /\ Usable(w) /\ ui[w].dialog # "entry"
  /\ Spend("effort")
  /\ \E f \in File : Saved(w, f)
  /\ registry' = Recorded(w, map'[w])
  /\ snapshots' = IF ui[w].removed THEN snapshots ELSE With(snapshots, w, map'[w])
  /\ UNCHANGED <<shell, desk, ui, tabs, born, history>>

OpenDialog(w) ==
  /\ Usable(w) /\ ui[w].dialog = "none"
  /\ Spend("effort")
  /\ \E kind \in {"popup", "entry"} : ui' = [ui EXCEPT ![w].dialog = kind]
  /\ UNCHANGED <<shell, desk, map, registry, disk, born, history>>

\* A dialog lies over the window, which a vote does not disable with the document.
EndDialog(w) ==
  /\ ui[w].dialog # "none" /\ ~ui[w].leaving
  /\ ui' = [ui EXCEPT ![w].dialog = "none"]
  /\ UNCHANGED <<shell, desk, map, registry, disk, born, history, budget>>

\* Mutant: a window that was closed still takes snapshots.
CheckpointAlways(w) ==
  /\ desk.welcome # desk.host[w]
  /\ snapshots' = With(snapshots, w, map[w])
  /\ snapshots' # snapshots
  /\ UNCHANGED <<shell, desk, map, ui, registry, files, tabs, born, history, budget>>

\* Once per second.
Checkpoint(w) ==
  /\ desk.welcome # desk.host[w] /\ ~ui[w].removed
  /\ snapshots' = With(snapshots, w, map[w])
  /\ snapshots' # snapshots
  /\ UNCHANGED <<shell, desk, map, ui, registry, files, tabs, born, history, budget>>

-----------------------------------------------------------------------------
(***************************************************************************)
(* Tabs.                                                                   *)
(***************************************************************************)
Activate(w) ==
  /\ Spend("effort")
  /\ desk' = Activated(desk, w) /\ desk' # desk
  /\ UNCHANGED <<shell, map, ui, registry, disk, born, history>>

\* Commands of the tab bar write tabs.ini.
Rearranged(d) ==
  /\ desk' = d /\ desk' # desk
  /\ tabs' = SavedTabs(d)
  /\ UNCHANGED <<shell, map, ui, registry, snapshots, files, born, history>>

NewTab ==
  /\ TabCommand /\ ActiveShown # None /\ desk.welcome = None
  /\ Spend("effort")
  /\ Opened(Blank, ActiveHost(desk), None)
  /\ tabs' = SavedTabs(desk')
  /\ UNCHANGED <<shell, snapshots, files, history>>

SwitchTab ==
  /\ TabCommand /\ ActiveShown # None
  /\ Spend("effort")
  /\ \E w \in Documents :
       desk.host[w] = ActiveHost(desk) /\ Rearranged(Activated(desk, w))

\* The tabs of all hosts in the order of these, in the active one.
Together(h) ==
  LET others == Only(Firsts(desk), {w \in Documents : desk.host[w] # h})
  IN [desk EXCEPT
        !.documents = TabsOf(desk, h)
          \o FlattenSeq([k \in DOMAIN others |-> TabsOf(desk, desk.host[others[k]])]),
        !.host = [w \in Documents |-> h],
        !.shown = [g \in Host |-> IF g = h THEN @[g] ELSE None],
        !.front = h]

MergeTabs ==
  /\ TabCommand /\ ActiveShown # None
  /\ AllBlocked = {}
  /\ Spend("effort")
  /\ Rearranged(Together(ActiveHost(desk)))

DetachTab ==
  /\ TabCommand /\ ActiveShown # None
  /\ Spend("effort")
  /\ \E w \in ToSet(TabsOf(desk, ActiveHost(desk))) :
       /\ Len(TabsOf(desk, ActiveHost(desk))) > 1
       /\ Rearranged(Activated(Rehosted(Activated(desk, w), w, FreeHost(desk)), w))

MoveTab ==
  /\ TabCommand
  /\ Spend("effort")
  /\ \E w, before \in Documents :
       /\ w # before /\ desk.host[w] = desk.host[before]
       /\ LET rest == Only(desk.documents, Documents \ {w})
              after == Position(desk.documents, w) < Position(desk.documents, before)
              at == Position(rest, before) + (IF after THEN 1 ELSE 0)
          IN Rearranged([desk EXCEPT !.documents = InsertAt(rest, at, w)])

\* Twice per second.
SaveTabs ==
  /\ running
  /\ tabs' = SavedTabs(desk) /\ tabs' # tabs
  /\ UNCHANGED <<shell, desk, map, ui, registry, snapshots, files, born, history, budget>>

-----------------------------------------------------------------------------
(***************************************************************************)
(* A window is closed by its user.                                         *)
(***************************************************************************)
\* approveClose: the snapshot goes, and the window at the next turn of the loop.
\* In a window that has been asked to quit, only the prompt goes.
Approved(w, back) ==
  IF ui[w].frozen
    THEN ui' = [ui EXCEPT ![w].prompt = FALSE] /\ UNCHANGED <<registry, snapshots, closed>>
    ELSE /\ ui' = [ui EXCEPT ![w].prompt = FALSE, ![w].back = back,
                             ![w].removed = TRUE, ![w].leaving = TRUE]
         /\ registry' = Forgotten(w)
         /\ snapshots' = Without(snapshots, w)
         /\ closed' = closed \cup {w}

\* requestClose: what is not saved has to be answered for, and an entry is finished
\* first.  (Its dialog refuses to show another tab again: cancelClose ends there.)
RequestClose(w, back) ==
  /\ ~ui[w].frozen /\ ~ui[w].leaving
  /\ IF ui[w].dialog = "entry"
       THEN /\ ui' = [ui EXCEPT ![w].prompt = FALSE, ![w].back = None]
            /\ UNCHANGED <<registry, snapshots, closed>>
     ELSE IF Unsaved(w)
       THEN /\ ui' = [ui EXCEPT ![w].prompt = TRUE, ![w].back = back]
            /\ UNCHANGED <<registry, snapshots, closed>>
       ELSE Approved(w, back)

\* By the button of the native window.
CloseHost(w) ==
  /\ desk.shown[desk.host[w]] = w /\ ~ui[w].prompt
  /\ Spend("effort")
  /\ RequestClose(w, ui[w].back)
  /\ UNCHANGED <<shell, desk, map, files, tabs, born, left>>

\* By a tab of the active host, which shows it for the question.
CloseTab(w) ==
  /\ TabCommand /\ ActiveShown # None /\ desk.host[w] = ActiveHost(desk)
  /\ Spend("effort")
  /\ RequestClose(w, IF w = ActiveShown THEN None ELSE ActiveShown)
  /\ desk' = Activated(desk, w)
  /\ tabs' = SavedTabs(desk')
  /\ UNCHANGED <<shell, map, files, born, left>>

\* The answers.
Discard(w) ==
  /\ ui[w].prompt /\ ~ui[w].leaving
  /\ Approved(w, ui[w].back)
  /\ UNCHANGED <<shell, desk, map, files, tabs, born, left, budget>>

CancelClose(w) ==
  /\ ui[w].prompt /\ ~ui[w].leaving
  /\ ui' = [ui EXCEPT ![w].prompt = FALSE, ![w].frozen = FALSE, ![w].back = None]
  /\ desk' = IF ui[w].back \in Documents
               THEN Activating(desk, ui[w].back, {v \in AllBlocked : v = w => ui[w].dialog # "none"})
               ELSE desk
  /\ UNCHANGED <<shell, map, registry, disk, born, history, budget>>

SaveBeforeClosing(w) ==
  /\ ui[w].prompt /\ ~ui[w].leaving
  /\ \E f \in Targets(w) : Saved(w, f)
  /\ IF ui[w].frozen
       THEN /\ ui' = [ui EXCEPT ![w].prompt = FALSE]
            /\ snapshots' = With(snapshots, w, map'[w])
            /\ registry' = Recorded(w, map'[w])
            /\ closed' = closed
       ELSE Approved(w, ui[w].back)
  /\ UNCHANGED <<shell, desk, tabs, born, left, budget>>

\* remove: its place goes to the tab that was shown before, or to the nearest one.
Successor(w) ==
  LET peers == Only(desk.documents, {v \in Documents \ {w} : desk.host[v] = desk.host[w]})
      before == Only(peers, {v \in Documents :
                               Position(desk.documents, v) < Position(desk.documents, w)})
  IN IF peers = <<>> THEN None
     ELSE IF ui[w].back \in ToSet(peers) THEN ui[w].back
     ELSE IF before # <<>> THEN Last(before) ELSE Head(peers)

Removed(w) ==
  LET h == desk.host[w]
      next == Successor(w)
      rest == [desk EXCEPT !.documents = Only(@, Documents \ {w}),
                           !.host = Without(@, w),
                           !.shown = [g \in Host |-> IF @[g] = w THEN None ELSE @[g]]]
  IN IF next = None THEN Vacated(rest, h)
     ELSE IF desk.shown[h] # w \/ (~quitting /\ Blocked(w)) THEN rest
     ELSE [rest EXCEPT !.shown[h] = next, !.front = h]

\* Mutant: the last window of a quit leaves the process behind.
RemoveWindowAlone(w) ==
  /\ ui[w].leaving
  /\ desk' = Removed(w)
  /\ map' = Without(map, w) /\ ui' = Without(ui, w)
  /\ registry' = [registry EXCEPT !.windows = Registered \ {w}]
  /\ tabs' = SavedTabs(desk')
  /\ left' = IF quitting /\ ~ui[w].removed THEN With(left, w, desk.host[w]) ELSE left
  /\ UNCHANGED <<shell, snapshots, files, born, closed, budget>>

\* The last window of a quit takes the process along.
RemoveWindow(w) ==
  /\ ui[w].leaving
  /\ desk' = Removed(w)
  /\ map' = Without(map, w) /\ ui' = Without(ui, w)
  /\ registry' = [registry EXCEPT !.windows = Registered \ {w}]
  /\ tabs' = SavedTabs(desk')
  /\ running' = ~(quitting /\ desk'.documents = <<>>)
  /\ quitting' = (quitting /\ running')
  /\ left' = IF quitting /\ ~ui[w].removed THEN With(left, w, desk.host[w]) ELSE left
  /\ UNCHANGED <<snapshots, files, born, closed, budget>>

-----------------------------------------------------------------------------
(***************************************************************************)
(* Quitting: all windows are asked in turn, and all of them close or none. *)
(***************************************************************************)
\* beginQuit, by the first document; a quit that is under way goes on.
Begun ==
  LET first == Head(desk.documents)
  IN IF registry.state = "confirming" /\ ToSet(registry.participants) \cap Registered # {}
       THEN [registry EXCEPT !.windows = Registered]
       ELSE [windows |-> Registered, state |-> "confirming", id |-> registry.id + 1,
             participants |-> <<first>> \o Sorted(Registered \ {first}), votes |-> {}]

RequestQuit ==
  /\ running /\ ~quitting /\ desk.documents # <<>>
  /\ Spend("quits")
  /\ ~(Sheets /\ \E w \in Documents : ui[w].prompt)
  /\ tabs' = SavedTabs(desk)
  /\ quitting' = TRUE
  /\ registry' = Begun
  /\ left' = <<>>
  /\ UNCHANGED <<running, desk, map, ui, snapshots, files, born, closed>>

\* Without a window there is nobody to ask.
QuitAlone ==
  /\ running /\ ~quitting /\ desk.documents = <<>>
  /\ Spend("quits")
  /\ running' = FALSE
  /\ left' = <<>>
  /\ UNCHANGED <<quitting, desk, map, ui, registry, disk, born, closed>>

\* pollQuit: a window that was not asked to begin with is asked, too.
Participants ==
  registry.participants \o
    (IF registry.state = "confirming"
       THEN Sorted(Registered \ ToSet(registry.participants)) ELSE <<>>)

\* Mutants: the one that was first is taken to agree; a window that is gone is
\* waited for.
AwaitedRest == Only(Tail(Participants), Registered \ registry.votes)
AwaitedGone == Only(Participants, ToSet(Participants) \ registry.votes)

Awaited == Only(Participants, Registered \ registry.votes)

Asked(w) == ui[w].asked = registry.id
\* (A window that closes for a quit goes before its next poll.)
Polling(w) ==
  /\ ui[w].leaving => ui[w].removed
  /\ registry.id # 0 /\ w \in ToSet(Participants)

\* The next one that has not voted is asked.
IsNext(w) ==
  /\ registry.state = "confirming" /\ ~Asked(w) /\ w \in Registered \ registry.votes
  /\ Polling(w) /\ Awaited # <<>> /\ Head(Awaited) = w

\* Mutant: a vote does not wait for the snapshot.
ConfirmUnsaved(w) ==
  /\ IsNext(w)
  /\ ui' = [ui EXCEPT ![w].asked = registry.id, ![w].finished = FALSE, ![w].frozen = TRUE]
  /\ registry' = [registry EXCEPT !.windows = Registered, !.participants = Participants,
                                  !.votes = @ \cup {w}]
  /\ UNCHANGED <<shell, desk, map, disk, born, history, budget>>

\* It freezes and takes a snapshot.
Confirm(w) ==
  /\ IsNext(w)
  /\ desk.welcome = desk.host[w] \/ ~ui[w].removed
  /\ ui' = [ui EXCEPT ![w].asked = registry.id, ![w].finished = FALSE, ![w].frozen = TRUE]
  /\ registry' = [registry EXCEPT !.windows = Registered, !.participants = Participants,
                                  !.votes = @ \cup {w}]
  /\ snapshots' = IF desk.welcome = desk.host[w] THEN snapshots ELSE With(snapshots, w, map[w])
  /\ UNCHANGED <<shell, desk, map, files, tabs, born, history, budget>>

\* ... or it cannot, and nobody quits.
Refuse(w) ==
  /\ IsNext(w)
  /\ desk.welcome # desk.host[w]
  /\ IF ui[w].removed THEN UNCHANGED budget ELSE Spend("faults")
  /\ ui' = [ui EXCEPT ![w].asked = registry.id, ![w].finished = FALSE, ![w].frozen = FALSE]
  /\ registry' = [registry EXCEPT !.windows = Registered, !.participants = Participants,
                                  !.state = "cancelled"]
  /\ UNCHANGED <<shell, desk, map, disk, born, history>>

\* The last vote decides, and whoever was asked closes when it learns of that.
Close(w) ==
  /\ registry.state \in {"confirming", "closing"} /\ Polling(w)
  /\ LET decides == (registry.state = "confirming" /\ Awaited = <<>>)
         closes == (Asked(w) /\ ~ui[w].finished)
     IN /\ decides \/ (registry.state = "closing" /\ closes)
        /\ registry' = IF decides THEN [registry EXCEPT !.windows = Registered,
                                            !.participants = Participants, !.state = "closing"]
                       ELSE registry
        /\ ui' = IF closes THEN [ui EXCEPT ![w].finished = TRUE, ![w].leaving = TRUE] ELSE ui
  /\ UNCHANGED <<shell, desk, map, disk, born, history, budget>>

\* The first one that hears of a refusal lets the application go on.
Cancel(w) ==
  /\ registry.state = "cancelled" /\ Asked(w) /\ ~ui[w].finished
  /\ Polling(w)
  /\ ui' = [ui EXCEPT ![w].finished = TRUE, ![w].frozen = FALSE]
  /\ quitting' = FALSE
  /\ UNCHANGED <<running, desk, map, registry, disk, born, history, budget>>

Poll(w) == Confirm(w) \/ Refuse(w) \/ Close(w) \/ Cancel(w)

Crash ==
  /\ running
  /\ Spend("crashes")
  /\ running' = FALSE /\ quitting' = FALSE
  /\ desk' = NoDesk /\ map' = <<>> /\ ui' = <<>> /\ left' = <<>>
  /\ UNCHANGED <<registry, disk, born, closed>>

-----------------------------------------------------------------------------
Starting == Start \/ StartHome \/ StartWith
Tabbing == NewTab \/ SwitchTab \/ MergeTabs \/ DetachTab \/ MoveTab \/ SaveTabs
Working(w) ==
  Edit(w) \/ Save(w) \/ OpenDialog(w) \/ EndDialog(w) \/ Checkpoint(w) \/ Activate(w)
Closing(w) ==
  CloseHost(w) \/ CloseTab(w) \/ Discard(w) \/ CancelClose(w) \/ SaveBeforeClosing(w)

Next ==
  \/ Starting \/ Open \/ OpenNew \/ Reopen \/ Tabbing \/ RequestQuit \/ QuitAlone \/ Crash
  \/ \E w \in Documents : Working(w) \/ Closing(w) \/ RemoveWindow(w) \/ Poll(w)

\* Timers and queued calls run while the process does.
Fairness ==
  \A w \in Window : WF_vars(w \in Documents /\ Poll(w)) /\ WF_vars(w \in Documents /\ RemoveWindow(w))

Spec == Init /\ [][Next]_vars /\ Fairness

-----------------------------------------------------------------------------
(***************************************************************************)
(* Properties.                                                             *)
(***************************************************************************)
\* Every variable has its type: above all the windows are in order (IsDesk), and a
\* process has some only while it runs.
TypeOK ==
  /\ running \in BOOLEAN /\ quitting \in BOOLEAN
  /\ quitting \/ Documents # {} => running
  /\ IsDesk(desk) /\ Documents \subseteq born /\ born \subseteq Window
  /\ map \in [Documents -> Document] /\ ui \in [Documents -> Dialogs]
  /\ registry \in [windows : SUBSET born, state : {"none", "confirming", "cancelled", "closing"},
                   id : Nat, participants : Seq(Window), votes : SUBSET born]
  /\ DOMAIN snapshots \subseteq born /\ snapshots \in [DOMAIN snapshots -> Document]
  /\ files \in [File -> Content]
  /\ tabs \in [groups : Seq([paths : Seq(Window), active : Window \cup {None}]),
               active : Window \cup {None}]
  /\ closed \subseteq born
  /\ DOMAIN left \subseteq born /\ left \in [DOMAIN left -> Host]

\* A native window shows one of its own tabs, from when it opens and through
\* whatever is closed, detached, merged, restored, asked or cancelled, and whatever
\* blocks it meanwhile.  (Two things make it go blank, unless a quit is under way: a
\* tab that closes with a dialog open, or for a quit that was called off, and a tab
\* that is detached while something in it waits for an answer behind another tab.)
Shows(d, h) == d.shown[h] \in ToSet(d.documents) /\ d.host[d.shown[h]] = h
Exempt(w) == Blocked(w) /\ (ui[w].leaving \/ desk.shown[desk.host[w]] # w)
NoHostGoesBlank ==
  [][\A h \in Hosts(desk') :
       (h \in Hosts(desk) => Shows(desk, h))
         => \/ Shows(desk', h)
            \/ ~quitting /\ \E w \in Documents : desk.host[w] = h /\ Exempt(w)]_vars

\* What a window holds and no file has is in its snapshot once it has agreed to
\* quit, until it is unlocked: from its vote on it can close at any time.
VotedIsKept ==
  \A w \in registry.votes \cap Documents :
    Asked(w) /\ ui[w].frozen /\ Unsaved(w)
      => w \in DOMAIN snapshots /\ snapshots[w] = map[w]

\* (docs/controls.md:93.)  A window that its user closed is gone for good, however
\* its closing meets checkpoints, saving, a quit or the death of the process.
ClosedStaysClosed ==
  \A w \in closed : w \notin DOMAIN snapshots /\ (w \in Documents => ui[w].leaving)

\* A quit closes all windows or none: when the first one goes, every other one has
\* agreed or is being closed by its user, and none is working on.
QuitIsUnanimous ==
  [][\A w \in Documents \cap Documents' :
       quitting /\ ui'[w].leaving /\ ~ui[w].leaving /\ ~ui'[w].removed
         => \A v \in Documents : ui[v].removed \/ v \in registry.votes]_vars

\* After a quit the windows that come back share a native window if and only if
\* they did when it was requested.
QuitKeepsTabs ==
  [][Start => \A v, w \in Documents' \cap DOMAIN left :
       desk'.host[v] = desk'.host[w] <=> left[v] = left[w]]_vars

\* A quit is decided while there is a window to decide it, even one that a process
\* before left in the registry.
QuitDecided == registry.state = "confirming" /\ Registered # {}
                 ~> registry.state # "confirming" \/ Registered = {}

\* The outcome does not reach who waits for it: all windows that were asked have
\* closed before a refusal is heard of, or one that agreed before the last process
\* died was never asked in this one.
Unheard ==
  \/ registry.state = "cancelled" /\ \A w \in Documents : ~Asked(w) \/ ui[w].finished
  \/ registry.state = "closing" /\ \E w \in Documents : ~Asked(w) /\ ~ui[w].removed

\* An application that is asked to quit ends or goes on to work; it does not hang
\* with its windows frozen, its tabs dead and files refused.
QuitEnds == quitting ~> ~quitting \/ Unheard

=============================================================================
