---------------------------- MODULE EditorProofs ----------------------------
(***************************************************************************)
(* The document window: every state that its history holds is a document   *)
(* that the loader accepts and respects what others wrote and removed,     *)
(* whatever commands, pasted branches, steps through the history and       *)
(* messages of a live session made of it.                                  *)
(***************************************************************************)
EXTENDS Editor, MapProofs

-----------------------------------------------------------------------------
(***************************************************************************)
(* The inductive invariant.                                                *)
(***************************************************************************)
\* A map with one root.
RoomTyped(c, uids) == LiveDoc(c, uids) /\ ChildrenOf(c, NoParent) = {RootOf(c)}

SessionTyped(s, uids) ==
  /\ s \in [live : BOOLEAN, room : {s.room}, pending : Seq(ToSet(s.pending))]
  /\ s.live => /\ RoomTyped(s.room, uids)
               /\ \A k \in 1 .. Len(s.pending) : BatchTyped(s.pending[k], uids)

\* What was saved is what the file holds, but for the ends of relationships, which
\* the loader may have turned round.
SameFile(a, b) ==
  /\ a.nodes = b.nodes /\ a.layout = b.layout /\ a.manual = b.manual /\ a.look = b.look
  /\ DOMAIN a.connections = DOMAIN b.connections
  /\ \A k \in DOMAIN a.connections :
       a.connections[k] = b.connections[k] \/ a.connections[k] = Oriented(b.connections[k])

HistoryTyped ==
  /\ undo \in Seq(ToSet(undo)) /\ redo \in Seq(ToSet(redo))
  /\ Len(undo) + Len(redo) <= UndoLimit

FileTyped ==
  /\ IsFile(file) /\ IdentitiesOf(file.nodes) \subseteq used
  /\ Loadable(file) => Aggregated(file.nodes) = file.nodes
  /\ path \in BOOLEAN /\ (path => SameFile(saved, file))
  /\ edited = (Bytes(doc) # saved)

ClipboardTyped ==
  clipboard # <<>> =>
    IsFile(clipboard) /\ DOMAIN clipboard.nodes = 1 .. Cardinality(DOMAIN clipboard.nodes)

StatesSound == \A s \in States : Sound(s, used)

Valid ==
  /\ StatesSound
  /\ OnDisplay(doc)
  /\ used \subseteq Identity
  /\ HistoryTyped
  /\ FileTyped
  /\ ClipboardTyped
  /\ SessionTyped(session, used)
  /\ others \in [wrote : {others.wrote}, added : {others.added}, gone : SUBSET Identity]
  /\ effort \in 0 .. MaxEffort

-----------------------------------------------------------------------------
(***************************************************************************)
(* What the parts of it need.                                              *)
(***************************************************************************)
LEMMA SoundIn ==
  ASSUME NEW d, NEW uids, Sound(d, uids), NEW others2, IdentitiesOf(d.nodes) \subseteq others2
  PROVE  Sound(d, others2)
BY DEF Sound, Raw

LEMMA MoreIdentities ==
  ASSUME NEW uids, NEW more, uids \subseteq more
  PROVE  /\ \A d : Sound(d, uids) => Sound(d, more)
         /\ \A c : RoomTyped(c, uids) => RoomTyped(c, more)
         /\ \A ops : BatchTyped(ops, uids) => BatchTyped(ops, more)
         /\ \A s : SessionTyped(s, uids) => SessionTyped(s, more)
<1>1. \A d : Sound(d, uids) => Sound(d, more)
  <2> SUFFICES ASSUME NEW d, Sound(d, uids) PROVE Sound(d, more)
    OBVIOUS
  <2>1. IdentitiesOf(d.nodes) \subseteq more
    BY DEF Sound, Raw
  <2> QED BY <2>1, SoundIn
<1>2. \A c : RoomTyped(c, uids) => RoomTyped(c, more)
  BY DEF RoomTyped, LiveDoc
<1>3. \A ops : BatchTyped(ops, uids) => BatchTyped(ops, more)
  BY DEF BatchTyped, OpTyped
<1>4. \A s : SessionTyped(s, uids) => SessionTyped(s, more)
  BY <1>2, <1>3 DEF SessionTyped
<1> QED BY <1>1, <1>2, <1>3, <1>4

\* A sound document as maps share it.
LEMMA SoundRoom ==
  ASSUME NEW d, NEW uids \in SUBSET Identity, Sound(d, uids)
  PROVE  /\ RoomTyped(Normalize(d), uids) /\ Held(Normalize(d), d.nodes[Root].syncId)
         /\ RootOf(Normalize(d)) = d.nodes[Root].syncId
         /\ DOMAIN Normalize(d).nodes = IdentitiesOf(d.nodes)
<1>1. Shaped(d, uids)
  BY RawShaped DEF Sound
<1> DEFINE c == Normalize(d)
           r == d.nodes[Root].syncId
<1>2. LiveDoc(c, uids) /\ DOMAIN c.nodes = IdentitiesOf(d.nodes) /\ ChildrenOf(c, NoParent) = {r} /\ RootOf(c) = r
  BY <1>1, NormalizeLive
<1>3. r \in DOMAIN c.nodes /\ c.nodes[r].parent = NoParent
  <2> HIDE DEF c, r
  <2>1. r \in ChildrenOf(c, NoParent)
    BY <1>2
  <2> QED BY <2>1 DEF ChildrenOf
<1> QED BY <1>2, <1>3 DEF RoomTyped, Held

\* What is captured for the room.
LEMMA CapturedTyped ==
  ASSUME NEW uids \in SUBSET Identity, SessionTyped(session, uids),
         NEW before, Sound(before, uids), NEW after, Sound(after, uids)
  PROVE  /\ SessionTyped(Captured(before, after), uids)
         /\ Captured(before, after).live = session.live
         /\ Captured(before, after).room = session.room
         /\ Captured(before, after).pending = session.pending \/
              /\ session.live
              /\ Captured(before, after).pending
                   = Append(session.pending, Diff(Normalize(before), Normalize(after)))
<1> DEFINE ops == Diff(Normalize(before), Normalize(after))
           s == Captured(before, after)
<1>1. BatchTyped(ops, uids)
  <2>1. LiveDoc(Normalize(before), uids) /\ LiveDoc(Normalize(after), uids)
    BY SoundRoom DEF RoomTyped
  <2> QED BY <2>1, DiffOf
<1>2. s = session \/ (session.live /\ s = [session EXCEPT !.pending = Append(session.pending, ops)])
  BY DEF Captured
<1> HIDE DEF s, ops
<1>3. /\ session \in [live : BOOLEAN, room : {session.room}, pending : Seq(ToSet(session.pending))]
      /\ session.live => RoomTyped(session.room, uids)
      /\ session.live => \A k \in 1 .. Len(session.pending) : BatchTyped(session.pending[k], uids)
  BY DEF SessionTyped
<1>4. CASE s = session
  BY <1>4 DEF s, ops
<1>5. CASE session.live /\ s = [session EXCEPT !.pending = Append(session.pending, ops)]
  <2> DEFINE p == session.pending
             q == Append(p, ops)
             T == ToSet(p) \cup {ops}
  <2>1. p \in Seq(ToSet(p))
    BY <1>3
  <2> HIDE DEF p
  <2>2. p \in Seq(T) /\ ops \in T
    BY <2>1, SeqMonotonic
  <2> HIDE DEF T
  <2>3. /\ q \in Seq(T) /\ Len(q) = Len(p) + 1 /\ \A k \in 1 .. Len(p) : q[k] = p[k]
        /\ q[Len(p) + 1] = ops /\ Len(p) \in Nat
    BY <2>2, AppendProperties, LenProperties
  <2>4. q \in Seq(ToSet(q))
    BY <2>3, MembersOf
  <2>5. s.live = session.live /\ s.room = session.room /\ s.pending = q
        /\ s \in [live : BOOLEAN, room : {s.room}, pending : Seq(ToSet(s.pending))]
    <3>1. s = [session EXCEPT !.pending = q]
      BY <1>5 DEF p
    <3> HIDE DEF q
    <3> QED BY <1>3, <2>4, <3>1
  <2>6. \A k \in 1 .. Len(q) : BatchTyped(q[k], uids)
    <3> TAKE k \in 1 .. Len(q)
    <3>1. k \in 1 .. Len(p) \/ k = Len(p) + 1
      BY <2>3
    <3> QED BY <1>1, <1>3, <1>5, <2>3, <3>1 DEF p
  <2> HIDE DEF q
  <2>7. SessionTyped(s, uids)
    BY <1>3, <1>5, <2>5, <2>6 DEF SessionTyped
  <2> QED BY <1>5, <2>5, <2>7 DEF s, q, p, ops
<1> QED BY <1>2, <1>4, <1>5

\* The states of the history after a checkpoint.
LEMMA CheckpointTyped ==
  ASSUME HistoryTyped, Checkpoint
  PROVE  /\ HistoryTyped' /\ redo' = <<>> /\ ToSet(redo') = {}
         /\ ToSet(undo') \subseteq ToSet(undo) \cup {doc}
<1> DEFINE T == ToSet(undo) \cup {doc}
           kept == Append(undo, doc)
<1>1. undo \in Seq(ToSet(undo)) /\ UndoLimit \in Nat \ {0} /\ Len(undo) \in Nat /\ Len(redo) \in Nat
      /\ Len(undo) + Len(redo) <= UndoLimit
  BY EditorAssumption, LenProperties DEF HistoryTyped
<1>2. undo \in Seq(T)
  BY <1>1, SeqMonotonic
<1>3. kept \in Seq(T) /\ Len(kept) = Len(undo) + 1 /\ kept # <<>>
  <2>1. doc \in T
    OBVIOUS
  <2> QED BY <1>2, <2>1, AppendProperties
<1>4. undo' = (IF Len(kept) > UndoLimit THEN Tail(kept) ELSE kept) /\ redo' = <<>>
  BY DEF Checkpoint
<1>5. Tail(kept) \in Seq(T) /\ Len(Tail(kept)) = Len(kept) - 1
  BY <1>3, HeadTailProperties
<1> HIDE DEF T, kept
<1>6. undo' \in Seq(T) /\ Len(undo') <= UndoLimit
  BY <1>1, <1>3, <1>4, <1>5
<1>7. undo' \in Seq(ToSet(undo')) /\ ToSet(undo') \subseteq T
  BY <1>6, MembersOf
<1>8. redo' \in Seq(ToSet(redo')) /\ Len(redo') = 0 /\ ToSet(redo') = {}
  BY <1>4 DEF ToSet
<1> QED BY <1>4, <1>6, <1>7, <1>8 DEF HistoryTyped, T

\* The root of what rebuild leaves.
LEMMA RebuiltRoot ==
  ASSUME NEW d, NEW uids, Raw(d, uids)
  PROVE  /\ Rebuild(d).nodes[Root].syncId = d.nodes[Root].syncId /\ Rebuild(d).nextId = d.nextId
         /\ IdentitiesOf(Rebuild(d).nodes) = IdentitiesOf(d.nodes)
<1>1. IsDocument(d)
  BY DEF Raw
<1>2. PICK dep : Tree(d.nodes, dep)
  BY DEF Raw, IsTree
<1>3. Alike(Aggregated(d.nodes), d.nodes) /\ Root \in DOMAIN d.nodes
  BY <1>2, AggregatedIs DEF Tree, Linked
<1>4. Rebuild(d).nodes = Aggregated(d.nodes) /\ Rebuild(d).nextId = d.nextId
  BY <1>1, RebuildIs
<1>5. IdentitiesOf(Aggregated(d.nodes)) = IdentitiesOf(d.nodes)
  BY <1>3 DEF Alike, IdentitiesOf
<1> QED BY <1>3, <1>4, <1>5 DEF Alike

\* Commands leave the root alone, or leave none of the identities with the one that
\* it had, and the room learns of that.
RootStays ==
  /\ States' \subseteq States \cup {doc'}
  /\ \/ /\ doc'.nodes[Root].syncId = nodes[Root].syncId
        /\ session' = session \/ session' = Captured(doc, doc')
     \/ nodes[Root].syncId \notin IdentitiesOf(doc'.nodes) /\ session' = Captured(doc, doc')

\* Commands take identities that are new, or show what a state says.
WordsStay ==
  /\ used \subseteq used'
  /\ \/ others' = StillTheirs(doc') /\ IdentitiesOf(doc'.nodes) \cap used \subseteq IdentitiesOf(nodes)
     \/ others' = others /\ \E s \in States : Words(doc'.nodes) = Words(s.nodes)

Steady == RootStays /\ WordsStay

\* What a command may leave.
Fits(d) ==
  /\ d.nodes[Root].syncId = nodes[Root].syncId \/ nodes[Root].syncId \notin IdentitiesOf(d.nodes)
  /\ IdentitiesOf(d.nodes) \cap used \subseteq IdentitiesOf(nodes)

LEMMA FitsAlike ==
  ASSUME NEW d, Root \in DOMAIN nodes, DOMAIN d.nodes = DOMAIN nodes,
         \A i \in DOMAIN nodes : d.nodes[i].syncId = nodes[i].syncId
  PROVE  Fits(d)
BY DEF Fits, IdentitiesOf

LEMMA SelectFits ==
  ASSUME NEW d, NEW uids, Raw(d, uids), Fits(d), NEW s, NEW S
  PROVE  Fits([d EXCEPT !.selected = s, !.selection = S])
<1> DEFINE e == [d EXCEPT !.selected = s, !.selection = S]
<1>1. e.nodes = d.nodes
  BY DEF Raw, IsDocument
<1> HIDE DEF e
<1>2. Fits(e)
  BY <1>1 DEF Fits
<1> QED BY <1>2 DEF e

\* A command leaves the invariant when it leaves a sound document.
LEMMA CommandValid ==
  ASSUME Valid, NEW next, Sound(next, Identity), OnDisplay(next), Fits(next), Command(next)
  PROVE  Valid' /\ Steady
<1>1. /\ StatesSound /\ used \subseteq Identity /\ HistoryTyped /\ FileTyped /\ ClipboardTyped
      /\ SessionTyped(session, used)
      /\ others \in [wrote : {others.wrote}, added : {others.added}, gone : SUBSET Identity]
      /\ effort \in 0 .. MaxEffort
  BY DEF Valid
<1>2. /\ doc' = next /\ saved' = saved /\ edited' = (Bytes(doc') # saved')
      /\ session' = Captured(doc, doc') /\ used' = used \cup IdentitiesOf(doc'.nodes)
      /\ file' = file /\ path' = path /\ clipboard' = clipboard
      /\ others' = StillTheirs(doc') /\ effort' = effort + 2 /\ effort + 2 <= MaxEffort
      /\ Checkpoint
  BY DEF Command, Show, Spend, Quiet
<1>3. used' \subseteq Identity /\ used \subseteq used' /\ IdentitiesOf(next.nodes) \subseteq used'
  <2>1. IdentitiesOf(next.nodes) \subseteq Identity
    BY DEF Sound, Raw
  <2> QED BY <1>1, <1>2, <2>1
<1>4. HistoryTyped' /\ ToSet(redo') = {} /\ ToSet(undo') \subseteq ToSet(undo) \cup {doc}
  BY <1>1, <1>2, CheckpointTyped
<1>5. Sound(next, used') /\ \A s \in States : Sound(s, used')
  BY <1>1, <1>3, SoundIn, MoreIdentities DEF StatesSound
<1>6. StatesSound'
  <2>1. \A s \in {doc'} \cup ToSet(undo') \cup ToSet(redo') : Sound(s, used')
    BY <1>2, <1>4, <1>5 DEF States
  <2> QED BY <2>1 DEF StatesSound, States
<1>7. SessionTyped(session', used')
  <2>1. SessionTyped(session, used') /\ Sound(doc, used')
    BY <1>1, <1>3, <1>5, MoreIdentities DEF States
  <2> QED BY <1>2, <1>3, <1>5, <2>1, CapturedTyped
<1>8. FileTyped'
  BY <1>1, <1>2, <1>3 DEF FileTyped
<1>9. ClipboardTyped'
  BY <1>1, <1>2 DEF ClipboardTyped
<1>10. others' \in [wrote : {others'.wrote}, added : {others'.added}, gone : SUBSET Identity]
  <2>1. \E w, a : others' = [others EXCEPT !.wrote = w, !.added = a]
    BY <1>2 DEF StillTheirs
  <2>2. PICK w, a : others' = [others EXCEPT !.wrote = w, !.added = a]
    BY <2>1
  <2> QED BY <1>1, <2>2
<1>11. effort' \in 0 .. MaxEffort
  BY <1>1, <1>2, EditorAssumption
<1>12. Valid'
  BY <1>2, <1>3, <1>4, <1>6, <1>7, <1>8, <1>9, <1>10, <1>11 DEF Valid
<1>13. Steady
  <2>1. States' \subseteq States \cup {doc'}
    BY <1>4 DEF States
  <2>2. /\ \/ doc'.nodes[Root].syncId = nodes[Root].syncId
           \/ nodes[Root].syncId \notin IdentitiesOf(doc'.nodes)
        /\ IdentitiesOf(doc'.nodes) \cap used \subseteq IdentitiesOf(nodes)
    BY <1>2 DEF Fits
  <2> QED BY <1>2, <1>3, <2>1, <2>2 DEF Steady, RootStays, WordsStay
<1> QED BY <1>12, <1>13

LEMMA RebuildCommand ==
  ASSUME Valid, NEW d, Raw(d, Identity), Fits(d), Command(Rebuild(d))
  PROVE  Valid' /\ Steady
<1>1. Sound(Rebuild(d), Identity) /\ OnDisplay(Rebuild(d))
  BY RebuildSound
<1>2. Fits(Rebuild(d))
  BY RebuiltRoot DEF Fits
<1> QED BY <1>1, <1>2, CommandValid

\* The document that the window shows.
LEMMA DocIs ==
  ASSUME Valid
  PROVE  /\ Sound(doc, used) /\ Sound(doc, Identity) /\ OnDisplay(doc) /\ Raw(doc, Identity)
         /\ IsDocument(doc) /\ IsTree(nodes) /\ ValidNodes(nodes) /\ Settled(nodes)
         /\ Selected \in DOMAIN nodes \cup {None} /\ doc.selection \subseteq DOMAIN nodes
         /\ DOMAIN nodes \subseteq Nat \ {0}
<1>1. doc \in States
  BY DEF States
<1>2. Sound(doc, used) /\ used \subseteq Identity
  BY <1>1 DEF Valid, StatesSound
<1>3. Sound(doc, Identity)
  BY <1>2, MoreIdentities
<1>4. OnDisplay(doc)
  BY DEF Valid
<1>5. IsTree(nodes)
  BY <1>2 DEF Sound, Raw, nodes
<1>6. DOMAIN nodes \subseteq Nat \ {0}
  BY <1>5 DEF IsTree, Tree, Typed
<1> QED BY <1>2, <1>3, <1>4, <1>5, <1>6 DEF Sound, Raw, nodes, Selected

-----------------------------------------------------------------------------
(***************************************************************************)
(* The selection.                                                          *)
(***************************************************************************)
LEMMA SelectSound ==
  ASSUME NEW d, NEW uids, Sound(d, uids), NEW s, NEW S,
         (s = None /\ S = {}) \/ (s \in S /\ S \subseteq Unfolded(d.nodes))
  PROVE  /\ Sound([d EXCEPT !.selected = s, !.selection = S], uids)
         /\ OnDisplay([d EXCEPT !.selected = s, !.selection = S])
         /\ Bytes([d EXCEPT !.selected = s, !.selection = S]) = Bytes(d)
         /\ [d EXCEPT !.selected = s, !.selection = S].nodes = d.nodes
<1> DEFINE e == [d EXCEPT !.selected = s, !.selection = S]
<1>1. Raw(d, uids) /\ IsDocument(d) /\ IsTree(d.nodes) /\ Settled(d.nodes)
  BY DEF Sound, Raw
<1>2. PICK dep : Tree(d.nodes, dep)
  BY <1>1 DEF IsTree
<1>3. Unfolded(d.nodes) \subseteq DOMAIN d.nodes /\ DOMAIN d.nodes \subseteq Nat
  BY <1>2, UnfoldedOf DEF Tree, Typed
<1>4. s \in Int /\ S \in SUBSET Int /\ s \in DOMAIN d.nodes \cup {None} /\ S \subseteq DOMAIN d.nodes
      /\ (s = None => S = {})
  <2>1. None \in Int /\ None \notin DOMAIN d.nodes
    BY <1>3 DEF None
  <2> QED BY <1>3, <2>1
<1>5. /\ e.nodes = d.nodes /\ e.connections = d.connections /\ e.layout = d.layout
      /\ e.manual = d.manual /\ e.look = d.look /\ e.nextId = d.nextId /\ e.selected = s
      /\ e.selection = S /\ IsDocument(e)
  BY <1>1, <1>4 DEF IsDocument
<1> HIDE DEF e
<1>6. Raw(e, uids)
  BY <1>1, <1>4, <1>5 DEF Raw, Joins
<1>7. Sound(e, uids)
  BY <1>1, <1>4, <1>5, <1>6 DEF Sound
<1>8. OnDisplay(e)
  <2>1. s = None => S = {}
    BY <1>4
  <2>2. s # None => s \in S /\ S \subseteq Unfolded(d.nodes)
    OBVIOUS
  <2> QED BY <1>5, <2>1, <2>2 DEF OnDisplay
<1>9. Bytes(e) = Bytes(d)
  BY <1>5 DEF Bytes
<1> QED BY <1>5, <1>7, <1>8, <1>9 DEF e

LEMMA ChooseValid ==
  ASSUME Valid, NEW s, NEW S, (s = None /\ S = {}) \/ (s \in S /\ S \subseteq Unfolded(nodes)),
         Choose([doc EXCEPT !.selected = s, !.selection = S])
  PROVE  Valid' /\ Steady
<1> DEFINE next == [doc EXCEPT !.selected = s, !.selection = S]
<1>1. /\ StatesSound /\ used \subseteq Identity /\ HistoryTyped /\ FileTyped /\ ClipboardTyped
      /\ SessionTyped(session, used)
      /\ others \in [wrote : {others.wrote}, added : {others.added}, gone : SUBSET Identity]
      /\ effort \in 0 .. MaxEffort
  BY DEF Valid
<1>2. Sound(next, used) /\ OnDisplay(next) /\ Bytes(next) = Bytes(doc)
  BY DocIs, SelectSound DEF nodes
<1>3. /\ doc' = next /\ undo' = undo /\ redo' = redo /\ file' = file /\ path' = path /\ saved' = saved
      /\ edited' = edited /\ clipboard' = clipboard /\ session' = session /\ used' = used
      /\ others' = others /\ effort' = effort + 2 /\ effort + 2 <= MaxEffort
  BY DEF Choose, Spend
<1> HIDE DEF next
<1>4. StatesSound'
  <2>1. \A x \in {doc'} \cup ToSet(undo') \cup ToSet(redo') : Sound(x, used')
    BY <1>1, <1>2, <1>3 DEF StatesSound, States
  <2> QED BY <2>1 DEF StatesSound, States
<1>5. effort' \in 0 .. MaxEffort
  BY <1>1, <1>3, EditorAssumption
<1>6. Valid'
  BY <1>1, <1>2, <1>3, <1>4, <1>5 DEF Valid, HistoryTyped, FileTyped, ClipboardTyped
<1>7. doc'.nodes = nodes
  BY <1>3, DocIs, SelectSound DEF next, nodes
<1>8. Steady
  <2>1. States' \subseteq States \cup {doc'}
    BY <1>3 DEF States
  <2>2. RootStays
    <3> HIDE DEF nodes
    <3> QED BY <1>3, <1>7, <2>1 DEF RootStays
  <2>3. doc \in States /\ Words(doc'.nodes) = Words(doc.nodes)
    BY <1>7 DEF States, nodes
  <2>4. WordsStay
    BY <1>3, <2>3 DEF WordsStay
  <2> QED BY <2>2, <2>4 DEF Steady
<1> QED BY <1>6, <1>8

LEMMA SelectionsValid ==
  ASSUME Valid, Selections
  PROVE  Valid' /\ Steady
<1>1. /\ IsDocument(doc) /\ OnDisplay(doc) /\ IsTree(nodes)
  BY DocIs
<1>2. Root \in Unfolded(nodes)
  BY <1>1, UnfoldedOf DEF IsTree
<1>3. doc.selection \subseteq Unfolded(nodes)
  BY <1>1 DEF OnDisplay, nodes
<1>4. ASSUME NEW i \in Unfolded(nodes), NEW extend \in BOOLEAN, Choose(Picked(i, extend)) PROVE Valid' /\ Steady
  <2> DEFINE S == IF extend THEN doc.selection \cup {i} ELSE {i}
  <2>1. i \in S /\ S \subseteq Unfolded(nodes)
    BY <1>3
  <2>2. Picked(i, extend) = [doc EXCEPT !.selected = i, !.selection = S]
    BY DEF Picked
  <2> HIDE DEF S
  <2>3. Choose([doc EXCEPT !.selected = i, !.selection = S])
    BY <1>4, <2>2
  <2> QED BY <2>1, <2>3, ChooseValid
<1>5. CASE Select
  BY <1>4, <1>5 DEF Select
<1>6. CASE Navigate
  BY <1>2, <1>4, <1>6 DEF Navigate
<1>7. CASE SelectNone
  BY <1>7, ChooseValid DEF SelectNone
<1>8. CASE SelectMany
  <2>1. PICK S \in SUBSET Unfolded(nodes), extend \in BOOLEAN :
          \/ S = {} /\ ~extend /\ Choose([doc EXCEPT !.selected = None, !.selection = {}])
          \/ \E last \in S :
               Choose([doc EXCEPT !.selected = last, !.selection = IF extend THEN @ \cup S ELSE S])
    BY <1>8 DEF SelectMany
  <2>2. CASE Choose([doc EXCEPT !.selected = None, !.selection = {}])
    BY <2>2, ChooseValid
  <2>3. ASSUME NEW last \in S,
               Choose([doc EXCEPT !.selected = last, !.selection = IF extend THEN @ \cup S ELSE S])
        PROVE  Valid' /\ Steady
    <3> DEFINE all == IF extend THEN doc.selection \cup S ELSE S
    <3>1. last \in all /\ all \subseteq Unfolded(nodes)
      BY <1>3
    <3>2. Choose([doc EXCEPT !.selected = last, !.selection = all])
      BY <2>3
    <3> HIDE DEF all
    <3> QED BY <3>1, <3>2, ChooseValid
  <2> QED BY <2>1, <2>2, <2>3
<1> QED BY <1>5, <1>6, <1>7, <1>8 DEF Selections

-----------------------------------------------------------------------------
(***************************************************************************)
(* The look of the map.                                                    *)
(***************************************************************************)
LooksAs(e, d, l, m, v) == e = [d EXCEPT !.layout = l, !.manual = m, !.look = v]

LEMMA LookRaw ==
  ASSUME NEW d, NEW uids, Sound(d, uids), NEW l \in Layout, NEW m \in BOOLEAN, NEW v \in Content,
         ~(l = "Compact" /\ m), NEW e, LooksAs(e, d, l, m, v)
  PROVE  /\ Raw(e, uids) /\ Sound(e, uids) /\ (OnDisplay(d) => OnDisplay(e)) /\ e.nodes = d.nodes
<1>1. Raw(d, uids) /\ IsDocument(d)
  BY DEF Sound, Raw
<1>2. /\ e.nodes = d.nodes /\ e.connections = d.connections /\ e.layout = l
      /\ e.manual = m /\ e.look = v /\ e.nextId = d.nextId /\ e.selected = d.selected
      /\ e.selection = d.selection /\ IsDocument(e)
  BY <1>1 DEF IsDocument, LooksAs
<1>3. Raw(e, uids)
  BY <1>1, <1>2 DEF Raw, Joins
<1>4. Sound(e, uids)
  BY <1>2, <1>3 DEF Sound
<1> QED BY <1>2, <1>3, <1>4 DEF OnDisplay

LEMMA LooksValid ==
  ASSUME Valid, Looks
  PROVE  Valid' /\ Steady
<1>1. /\ Sound(doc, Identity) /\ OnDisplay(doc) /\ doc.layout \in Layout /\ doc.manual \in BOOLEAN
      /\ doc.look \in Content /\ ~(doc.layout = "Compact" /\ doc.manual) /\ IsDocument(doc)
  <2>1. Sound(doc, Identity) /\ Raw(doc, Identity) /\ OnDisplay(doc) /\ IsDocument(doc)
    BY DocIs
  <2> QED BY <2>1 DEF Raw, IsDocument
<1>2. ASSUME NEW l \in Layout, NEW m \in BOOLEAN, NEW v \in Content, ~(l = "Compact" /\ m), NEW e,
             LooksAs(e, doc, l, m, v), Command(Rebuild(e)) \/ Command(e)
      PROVE  Valid' /\ Steady
  <2>1. Raw(e, Identity) /\ Sound(e, Identity) /\ OnDisplay(e) /\ e.nodes = doc.nodes
    BY <1>1, <1>2, LookRaw
  <2>2. Fits(e)
    <3>1. Root \in DOMAIN nodes
      BY DocIs DEF IsTree, Tree, Linked
    <3> QED BY <2>1, <3>1, FitsAlike DEF nodes
  <2> QED BY <1>2, <2>1, <2>2, RebuildCommand, CommandValid
<1>3. CASE SetLayout
  <2>1. PICK l \in Layout \ {doc.layout} :
          Command(Rebuild([doc EXCEPT !.layout = l, !.manual = @ /\ l # "Compact"]))
    BY <1>3 DEF SetLayout
  <2> DEFINE m == doc.manual /\ l # "Compact"
             e == [doc EXCEPT !.layout = l, !.manual = m]
  <2>2. m \in BOOLEAN /\ ~(l = "Compact" /\ m)
    OBVIOUS
  <2>3. Command(Rebuild(e))
    BY <2>1
  <2> HIDE DEF m
  <2>4. LooksAs(e, doc, l, m, doc.look)
    BY <1>1 DEF IsDocument, LooksAs
  <2> HIDE DEF e
  <2> QED BY <1>1, <1>2, <2>2, <2>3, <2>4
<1>4. CASE SetSpacing \/ SetTheme \/ SetBranchStyle
  <2>1. PICK v \in Content : Command(Rebuild([doc EXCEPT !.look = v])) \/ Command([doc EXCEPT !.look = v])
    BY <1>4 DEF SetSpacing, SetTheme, SetBranchStyle
  <2> DEFINE e == [doc EXCEPT !.look = v]
  <2>2. LooksAs(e, doc, doc.layout, doc.manual, v)
    BY <1>1 DEF IsDocument, LooksAs
  <2>3. Command(Rebuild(e)) \/ Command(e)
    BY <2>1
  <2> HIDE DEF e
  <2> QED BY <1>1, <1>2, <2>2, <2>3
<1>5. CASE ApplyThemeRecipe
  <2>1. PICK v \in Content, l \in Layout :
          Command(Rebuild([doc EXCEPT !.look = v, !.layout = l, !.manual = FALSE]))
    BY <1>5 DEF ApplyThemeRecipe
  <2> DEFINE e == [doc EXCEPT !.look = v, !.layout = l, !.manual = FALSE]
  <2>2. LooksAs(e, doc, l, FALSE, v)
    BY DEF LooksAs
  <2>3. Command(Rebuild(e))
    BY <2>1
  <2> HIDE DEF e
  <2> QED BY <1>1, <1>2, <2>2, <2>3
<1>6. CASE SetManual
  <2> DEFINE m == ~doc.manual
             e == [doc EXCEPT !.manual = m]
  <2>1. doc.layout # "Compact" /\ Command(Rebuild(e))
    BY <1>6 DEF SetManual
  <2>2. m \in BOOLEAN
    OBVIOUS
  <2> HIDE DEF m
  <2>3. LooksAs(e, doc, doc.layout, m, doc.look)
    BY <1>1 DEF IsDocument, LooksAs
  <2> HIDE DEF e
  <2> QED BY <1>1, <1>2, <2>1, <2>2, <2>3
<1> QED BY <1>3, <1>4, <1>5, <1>6 DEF Looks

-----------------------------------------------------------------------------
(***************************************************************************)
(* What a node is and holds.                                               *)
(***************************************************************************)
HasNodes(e, d, m) == e = [d EXCEPT !.nodes = m]

LEMMA AlteredRaw ==
  ASSUME NEW d, NEW uids, Sound(d, uids), NEW m \in [DOMAIN d.nodes -> Node], Alike(m, d.nodes),
         ValidNodes(m), NEW e, HasNodes(e, d, m)
  PROVE  /\ Raw(e, uids) /\ e.nodes = m /\ e.selected = d.selected /\ e.selection = d.selection
         /\ Settled(m) => Sound(e, uids)
         /\ OnDisplay(d) /\ (\A i \in DOMAIN m : m[i].folded = d.nodes[i].folded) => OnDisplay(e)
<1>1. Raw(d, uids) /\ IsDocument(d) /\ IsTree(d.nodes) /\ Distinct(d.nodes)
      /\ IdentitiesOf(d.nodes) \subseteq uids
  BY DEF Sound, Raw
<1>2. /\ e.nodes = m /\ e.connections = d.connections /\ e.layout = d.layout
      /\ e.manual = d.manual /\ e.look = d.look /\ e.nextId = d.nextId /\ e.selected = d.selected
      /\ e.selection = d.selection /\ IsDocument(e)
  BY <1>1 DEF IsDocument, HasNodes
<1>3. PICK dep : Tree(d.nodes, dep)
  BY <1>1 DEF IsTree
<1>4. Tree(m, dep) /\ IdentitiesOf(m) = IdentitiesOf(d.nodes)
  BY <1>3, AlikeTree
<1>5. DOMAIN m = DOMAIN d.nodes /\ IsTree(m) /\ Distinct(m)
  BY <1>1, <1>4 DEF Alike, IsTree, Distinct
<1>6. Raw(e, uids)
  BY <1>1, <1>2, <1>4, <1>5 DEF Raw, Joins
<1>7. Settled(m) => Sound(e, uids)
  BY <1>2, <1>5, <1>6 DEF Sound
<1>8. ASSUME OnDisplay(d), \A i \in DOMAIN m : m[i].folded = d.nodes[i].folded PROVE OnDisplay(e)
  <2>1. Unfolded(m) = Unfolded(d.nodes)
    BY <1>3, <1>4, <1>5, <1>8, SameUnfolded
  <2> QED BY <1>2, <1>8, <2>1 DEF OnDisplay
<1> QED BY <1>2, <1>6, <1>7, <1>8

\* A node with other fields, and what is held to be a node of the same place.
InPlace(n, x) ==
  n \in Node /\ n.syncId = x.syncId /\ n.parent = x.parent /\ n.children = x.children /\ ValidNode(n)

LEMMA InPlaceAlike ==
  ASSUME NEW n, NEW m, m = [i \in DOMAIN n |-> m[i]], \A i \in DOMAIN n : InPlace(m[i], n[i])
  PROVE  m \in [DOMAIN n -> Node] /\ Alike(m, n) /\ ValidNodes(m)
BY DEF InPlace, Alike, ValidNodes

LEMMA NodesValid ==
  ASSUME Valid, NEW m, m = [i \in DOMAIN nodes |-> m[i]], \A i \in DOMAIN nodes : InPlace(m[i], nodes[i]),
         NEW e, HasNodes(e, doc, m), Command(Rebuild(e))
  PROVE  Valid' /\ Steady
<1>1. Sound(doc, Identity)
  BY DocIs
<1>2. m \in [DOMAIN doc.nodes -> Node] /\ Alike(m, doc.nodes) /\ ValidNodes(m)
  BY InPlaceAlike DEF nodes
<1>3. Raw(e, Identity) /\ e.nodes = m
  BY <1>1, <1>2, AlteredRaw
<1>4. Root \in DOMAIN nodes
  BY DocIs DEF IsTree, Tree, Linked
<1>5. Fits(e)
  BY <1>2, <1>3, <1>4, FitsAlike DEF Alike, nodes
<1> QED BY <1>3, <1>5, RebuildCommand

LEMMA NodesAre ==
  ASSUME Valid
  PROVE  /\ \A i \in DOMAIN nodes : nodes[i] \in Node /\ ValidNode(nodes[i]) /\ InPlace(nodes[i], nodes[i])
         /\ nodes = [i \in DOMAIN nodes |-> nodes[i]] /\ None \notin DOMAIN nodes /\ Root \in DOMAIN nodes
<1>1. IsTree(nodes) /\ ValidNodes(nodes)
  BY DocIs
<1>2. PICK dep : Tree(nodes, dep)
  BY <1>1 DEF IsTree
<1>3. nodes \in [DOMAIN nodes -> Node] /\ Root \in DOMAIN nodes
  BY <1>2 DEF Tree, Typed, Linked
<1>4. None \notin DOMAIN nodes
  BY <1>2, <1>3, KidsDeeper
<1>5. \A i \in DOMAIN nodes : nodes[i] \in Node /\ ValidNode(nodes[i])
  BY <1>1, <1>3 DEF ValidNodes
<1>6. nodes = [i \in DOMAIN nodes |-> nodes[i]]
  BY <1>3
<1> QED BY <1>3, <1>4, <1>5, <1>6 DEF InPlace

LEMMA WithValid ==
  ASSUME Valid, NEW i \in DOMAIN nodes, NEW n, InPlace(n, nodes[i]), Command(Rebuild(With(i, n)))
  PROVE  Valid' /\ Steady
<1> DEFINE m == [nodes EXCEPT ![i] = n]
           e == With(i, n)
<1>1. HasNodes(e, doc, m)
  BY DEF HasNodes, With, Changed, nodes
<1>2. m = [j \in DOMAIN nodes |-> m[j]] /\ \A j \in DOMAIN nodes : InPlace(m[j], nodes[j])
  BY NodesAre
<1> HIDE DEF m, e
<1>3. Command(Rebuild(e))
  BY DEF e
<1> QED BY <1>1, <1>2, <1>3, NodesValid

LEMMA HeldInPlace ==
  ASSUME NEW x, InPlace(x, x), NEW v \in Content
  PROVE  InPlace([x EXCEPT !.content = v], x)
<1> DEFINE n == [x EXCEPT !.content = v]
<1>1. x \in Node /\ ValidNode(x)
  BY DEF InPlace
<1>2. /\ n \in Node /\ n.syncId = x.syncId /\ n.parent = x.parent /\ n.children = x.children
      /\ n.checked = x.checked /\ n.task = x.task /\ n.kind = x.kind /\ n.meeting = x.meeting
      /\ n.folded = x.folded
  BY <1>1 DEF Node
<1> HIDE DEF n
<1>3. InPlace(n, x)
  BY <1>1, <1>2 DEF InPlace, ValidNode
<1> QED BY <1>3 DEF n

LEMMA HoldingValid ==
  ASSUME Valid, NEW i \in DOMAIN nodes, NEW v \in Content, Command(Rebuild(Holding(i, v)))
  PROVE  Valid' /\ Steady
<1> DEFINE n == [nodes[i] EXCEPT !.content = v]
<1>1. InPlace(n, nodes[i])
  BY NodesAre, HeldInPlace
<1>2. Command(Rebuild(With(i, n)))
  BY DEF Holding
<1> HIDE DEF n
<1> QED BY <1>1, <1>2, WithValid

\* Notes are set without a rebuild: there is nothing that it would aggregate.
LEMMA NotesValid ==
  ASSUME Valid, SetNotes
  PROVE  Valid' /\ Steady
<1>1. PICK v \in Content : HasSelected /\ Command(Holding(Selected, v))
  BY DEF SetNotes
<1> DEFINE i == Selected
           x == nodes[i]
           n == [x EXCEPT !.content = v]
           m == [nodes EXCEPT ![i] = n]
           e == Holding(i, v)
<1>2. i \in DOMAIN nodes /\ Sound(doc, Identity) /\ OnDisplay(doc) /\ Settled(nodes)
  BY <1>1, DocIs DEF HasSelected
<1>3. HasNodes(e, doc, m)
  BY DEF HasNodes, Holding, With, Changed, nodes
<1>4. InPlace(n, x) /\ x \in Node
  BY <1>2, NodesAre, HeldInPlace
<1>5. n.task = x.task /\ n.checked = x.checked /\ n.kind = x.kind /\ n.meeting = x.meeting /\ n.folded = x.folded
      /\ n.children = x.children
  BY <1>4 DEF Node
<1> HIDE DEF n
<1>6. /\ m = [j \in DOMAIN nodes |-> m[j]] /\ DOMAIN m = DOMAIN nodes
      /\ \A j \in DOMAIN nodes : m[j] = (IF j = i THEN n ELSE nodes[j])
  BY <1>2, NodesAre
<1> HIDE DEF m, e
<1>7. \A j \in DOMAIN nodes : /\ InPlace(m[j], nodes[j]) /\ m[j].task = nodes[j].task
                              /\ m[j].checked = nodes[j].checked /\ m[j].kind = nodes[j].kind
                              /\ m[j].meeting = nodes[j].meeting /\ m[j].folded = nodes[j].folded
                              /\ m[j].children = nodes[j].children
  <2> TAKE j \in DOMAIN nodes
  <2>1. CASE j = i
    <3>1. m[j] = n /\ nodes[j] = x
      BY <1>2, <1>6, <2>1
    <3> HIDE DEF x
    <3> QED BY <1>4, <1>5, <3>1
  <2>2. CASE j # i
    <3>1. m[j] = nodes[j]
      BY <1>6, <2>2
    <3> QED BY <3>1, NodesAre
  <2> QED BY <2>1, <2>2
<1>8. m \in [DOMAIN doc.nodes -> Node] /\ Alike(m, doc.nodes) /\ ValidNodes(m)
  BY <1>6, <1>7, InPlaceAlike DEF nodes
<1>9. PICK dep : Tree(nodes, dep)
  BY DocIs DEF IsTree
<1>10. Settled(m)
  <2>1. \A j \in DOMAIN nodes : Kids(m, j) = Kids(nodes, j) /\ Kids(nodes, j) \subseteq DOMAIN nodes
    BY <1>7, <1>9, KidsDeeper DEF Kids
  <2>2. \A j \in DOMAIN nodes : TasksOf(m, j) = TasksOf(nodes, j) /\ TasksOf(nodes, j) \subseteq DOMAIN nodes
    BY <1>7, <2>1 DEF TasksOf
  <2> QED BY <1>2, <1>6, <1>7, <2>2 DEF Settled
<1>11. Sound(e, Identity) /\ OnDisplay(e)
  <2>1. /\ Settled(m) => Sound(e, Identity)
        /\ OnDisplay(doc) /\ (\A j \in DOMAIN m : m[j].folded = doc.nodes[j].folded) => OnDisplay(e)
    BY <1>2, <1>3, <1>8, AlteredRaw
  <2>2. \A j \in DOMAIN m : m[j].folded = doc.nodes[j].folded
    BY <1>6, <1>7 DEF nodes
  <2> QED BY <1>2, <1>10, <2>1, <2>2
<1>12. Command(e)
  BY <1>1 DEF e
<1>13. Fits(e)
  <2>1. e.nodes = m /\ Root \in DOMAIN nodes
    BY <1>2, <1>3, <1>8, AlteredRaw, NodesAre
  <2> QED BY <1>8, <2>1, FitsAlike DEF Alike, nodes
<1> QED BY <1>11, <1>12, <1>13, CommandValid

\* A change of kind takes the branch along when it makes or ends tasks.
LEMMA RetypedInPlace ==
  ASSUME NEW n, n \in [DOMAIN n -> Node], ValidNodes(n), NEW i \in DOMAIN n,
         NEW kind \in {"text", "task", "date"}, NEW m, m = RetypedIn(n, i, kind)
  PROVE  m = [j \in DOMAIN n |-> m[j]] /\ \A j \in DOMAIN n : InPlace(m[j], n[j])
<1> DEFINE task == kind = "task"
           below == IF task \/ (kind = "text" /\ n[i].task) THEN Branch(n, i) \ {i} ELSE {}
           top(x) == [x EXCEPT !.kind = StorageKind(kind), !.task = task,
                               !.checked = x.checked /\ task, !.meeting = x.meeting /\ kind = "text"]
           under(x) == [x EXCEPT !.kind = IF task THEN "text" ELSE x.kind,
                                 !.task = task, !.checked = x.checked /\ task]
<1>1. m = [j \in DOMAIN n |-> IF j = i THEN top(n[j])
                              ELSE IF j \in below THEN under(n[j]) ELSE n[j]]
  <2>1. \A j \in DOMAIN n : (j = i => ~(j \in below))
    OBVIOUS
  <2> HIDE DEF below, task, top, under
  <2> QED BY <2>1 DEF RetypedIn, below, task, top, under
<1>2. StorageKind(kind) = (IF kind = "task" THEN "text" ELSE kind)
  BY DEF StorageKind
<1>3. ASSUME NEW x, InPlace(x, x) PROVE InPlace(top(x), x) /\ InPlace(under(x), x)
  <2>1. x \in Node /\ ValidNode(x)
    BY <1>3 DEF InPlace
  <2>2. InPlace(top(x), x)
    <3> DEFINE y == top(x)
    <3>1. /\ y.kind = StorageKind(kind) /\ y.task = task /\ y.checked = (x.checked /\ task)
          /\ y.meeting = (x.meeting /\ kind = "text") /\ y.syncId = x.syncId /\ y.parent = x.parent
          /\ y.children = x.children
      BY <2>1 DEF Node
    <3>2. y \in Node
      <4>1. StorageKind(kind) \in Kind /\ task \in BOOLEAN /\ (x.checked /\ task) \in BOOLEAN
            /\ (x.meeting /\ kind = "text") \in BOOLEAN
        BY <1>2 DEF Kind
      <4> QED BY <2>1, <4>1 DEF Node
    <3> HIDE DEF y
    <3>3. ValidNode(y)
      BY <1>2, <2>1, <3>1 DEF ValidNode
    <3> QED BY <3>1, <3>2, <3>3 DEF InPlace, y
  <2>3. InPlace(under(x), x)
    <3> DEFINE y == under(x)
               k == IF task THEN "text" ELSE x.kind
    <3>1. /\ y.kind = k /\ y.task = task /\ y.checked = (x.checked /\ task)
          /\ y.meeting = x.meeting /\ y.syncId = x.syncId /\ y.parent = x.parent
          /\ y.children = x.children
      BY <2>1 DEF Node
    <3>2. y \in Node
      <4>1. k \in Kind /\ task \in BOOLEAN /\ (x.checked /\ task) \in BOOLEAN
        BY <2>1 DEF Kind, Node
      <4> HIDE DEF k
      <4>2. y = [x EXCEPT !.kind = k, !.task = task, !.checked = x.checked /\ task]
        BY DEF k
      <4> QED BY <2>1, <4>1, <4>2 DEF Node
    <3> HIDE DEF y
    <3>3. ValidNode(y)
      BY <2>1, <3>1 DEF ValidNode
    <3> QED BY <3>1, <3>2, <3>3 DEF InPlace, y
  <2> QED BY <2>2, <2>3
<1> HIDE DEF top, under, below
<1>4. m = [j \in DOMAIN n |-> m[j]]
  BY <1>1
<1>5. \A j \in DOMAIN n : m[j] \in {top(n[j]), under(n[j]), n[j]}
  BY <1>1
<1>6. \A j \in DOMAIN n : InPlace(n[j], n[j])
  BY DEF InPlace, ValidNodes
<1> QED BY <1>3, <1>4, <1>5, <1>6

LEMMA SetNodeKindValid ==
  ASSUME Valid, NEW i \in DOMAIN nodes, NEW kind \in {"text", "task", "date"}, SetNodeKind(i, kind)
  PROVE  Valid' /\ Steady
<1> DEFINE m == Retyped(i, kind)
           e == [doc EXCEPT !.nodes = m]
<1>1. Command(Rebuild(e)) /\ HasNodes(e, doc, m) /\ m = RetypedIn(nodes, i, kind)
  BY DEF SetNodeKind, HasNodes, Retyped
<1> HIDE DEF m, e
<1>2. nodes \in [DOMAIN nodes -> Node] /\ ValidNodes(nodes)
  BY NodesAre DEF ValidNodes
<1>3. m = [j \in DOMAIN nodes |-> m[j]] /\ \A j \in DOMAIN nodes : InPlace(m[j], nodes[j])
  BY <1>1, <1>2, RetypedInPlace
<1> QED BY <1>1, <1>3, NodesValid

LEMMA HoldingAllValid ==
  ASSUME Valid, NEW S, NEW v \in Content, Command(Rebuild(HoldingAll(S, v)))
  PROVE  Valid' /\ Steady
<1> DEFINE held(x) == [x EXCEPT !.content = v]
           m == [i \in DOMAIN nodes |-> IF i \in S THEN held(nodes[i]) ELSE nodes[i]]
           e == HoldingAll(S, v)
<1>1. HasNodes(e, doc, m)
  BY DEF HasNodes, HoldingAll
<1>2. \A i \in DOMAIN nodes : InPlace(held(nodes[i]), nodes[i]) /\ InPlace(nodes[i], nodes[i])
  BY NodesAre, HeldInPlace
<1> HIDE DEF held
<1>3. m = [i \in DOMAIN nodes |-> m[i]] /\ \A i \in DOMAIN nodes : InPlace(m[i], nodes[i])
  BY <1>2
<1> HIDE DEF m, e
<1>4. Command(Rebuild(e))
  BY DEF e
<1> QED BY <1>1, <1>3, <1>4, NodesValid

\* What is searched for shows, with nothing folded above it.
LEMMA RevealValid ==
  ASSUME Valid, RevealSearchNode
  PROVE  Valid' /\ Steady
<1>0. PICK i \in DOMAIN nodes : \E folded \in {{a \in Ancestors(nodes, i) : nodes[a].folded}} :
        \/ folded = {} /\ Choose(SelectOnly(doc, i))
        \/ folded # {} /\ Command(Revealed(folded, i))
  BY DEF RevealSearchNode
<1> DEFINE folded == {a \in Ancestors(nodes, i) : nodes[a].folded}
<1>1. \/ folded = {} /\ Choose(SelectOnly(doc, i))
      \/ folded # {} /\ Command(Revealed(folded, i))
  BY <1>0
<1>2. folded = {a \in Ancestors(nodes, i) : nodes[a].folded}
  OBVIOUS
<1> HIDE DEF folded
<1>3. Sound(doc, Identity)
  BY DocIs
<1>4. PICK dep : Tree(nodes, dep)
  BY DocIs DEF IsTree
<1>5. CASE folded = {} /\ Choose(SelectOnly(doc, i))
  <2>1. i \in Unfolded(nodes)
    BY <1>2, <1>5 DEF Unfolded
  <2> DEFINE S == {i}
  <2>2. Choose([doc EXCEPT !.selected = i, !.selection = S])
    BY <1>5 DEF SelectOnly
  <2>3. i \in S /\ S \subseteq Unfolded(nodes)
    BY <2>1
  <2> HIDE DEF S
  <2> QED BY <2>2, <2>3, ChooseValid
<1>6. CASE Command(Revealed(folded, i))
  <2> DEFINE open(j) == [nodes[j] EXCEPT !.folded = nodes[j].folded /\ j \notin folded]
             m == [j \in DOMAIN nodes |-> open(j)]
             e == [doc EXCEPT !.nodes = m]
  <2>1. HasNodes(e, doc, m) /\ Revealed(folded, i) = SelectOnly(Rebuild(e), i)
    BY DEF HasNodes, Revealed
  <2>2. ASSUME NEW j \in DOMAIN nodes
        PROVE  InPlace(open(j), nodes[j]) /\ open(j).folded = (nodes[j].folded /\ j \notin folded)
    <3> DEFINE x == nodes[j]
               y == open(j)
    <3>1. x \in Node /\ ValidNode(x)
      BY NodesAre
    <3>2. y = [x EXCEPT !.folded = x.folded /\ j \notin folded]
      OBVIOUS
    <3> HIDE DEF x, y
    <3>3. /\ y \in Node /\ y.syncId = x.syncId /\ y.parent = x.parent /\ y.children = x.children
          /\ y.checked = x.checked /\ y.task = x.task /\ y.kind = x.kind /\ y.meeting = x.meeting
          /\ y.folded = (x.folded /\ j \notin folded)
      BY <3>1, <3>2 DEF Node
    <3>4. InPlace(y, x)
      BY <3>1, <3>3 DEF InPlace, ValidNode
    <3> QED BY <3>3, <3>4 DEF x, y
  <2> HIDE DEF open
  <2>3. m = [j \in DOMAIN nodes |-> m[j]] /\ \A j \in DOMAIN nodes : InPlace(m[j], nodes[j]) /\ m[j] = open(j)
    BY <2>2
  <2> HIDE DEF m, e
  <2>4. m \in [DOMAIN doc.nodes -> Node] /\ Alike(m, doc.nodes) /\ ValidNodes(m)
    BY <2>3, InPlaceAlike DEF nodes
  <2>5. Raw(e, Identity) /\ e.nodes = m
    BY <1>3, <2>1, <2>4, AlteredRaw
  <2> DEFINE r == Rebuild(e)
  <2>6. Sound(r, Identity) /\ Raw(r, Identity) /\ Fits(r)
    <3>1. Root \in DOMAIN nodes
      BY NodesAre
    <3>2. m[Root].syncId = nodes[Root].syncId
      BY <2>4, <3>1 DEF Alike, nodes
    <3>3. r.nodes[Root].syncId = nodes[Root].syncId
      BY <2>5, <3>2, RebuiltRoot
    <3>4. IdentitiesOf(r.nodes) = IdentitiesOf(nodes)
      <4>1. IdentitiesOf(r.nodes) = IdentitiesOf(e.nodes)
        BY <2>5, RebuiltRoot
      <4>2. IdentitiesOf(m) = IdentitiesOf(nodes)
        BY <2>4 DEF Alike, IdentitiesOf, nodes
      <4> QED BY <2>5, <4>1, <4>2
    <3> QED BY <2>5, <3>3, <3>4, RebuildSound DEF Fits, Sound
  <2>7. i \in Unfolded(r.nodes)
    <3>1. Tree(m, dep) /\ \A j \in DOMAIN nodes : Ancestors(m, j) = Ancestors(nodes, j)
      BY <1>4, <2>4, AlikeTree DEF nodes
    <3>2. IsDocument(e)
      BY <2>5 DEF Raw
    <3>3. r.nodes = Aggregated(m)
      BY <2>5, <3>2, RebuildIs
    <3>4. /\ Alike(Aggregated(m), m) /\ Aggregated(m) \in [DOMAIN m -> Node]
          /\ \A j \in DOMAIN m : Aggregated(m)[j].folded = m[j].folded
      BY <3>1, AggregatedIs
    <3>5. Unfolded(r.nodes) = Unfolded(m)
      BY <3>1, <3>3, <3>4, SameUnfolded
    <3>6. DOMAIN m = DOMAIN nodes /\ Ancestors(nodes, i) \subseteq DOMAIN nodes
      BY <1>4, <2>3, AncestorsOf
    <3>7. \A a \in Ancestors(m, i) : ~m[a].folded
      BY <1>2, <2>2, <2>3, <3>1, <3>6
    <3> QED BY <3>5, <3>6, <3>7 DEF Unfolded
  <2> HIDE DEF r
  <2> DEFINE S == {i}
             next == [r EXCEPT !.selected = i, !.selection = S]
  <2>8. i \in S /\ S \subseteq Unfolded(r.nodes)
    BY <2>7
  <2>9. Command(next)
    BY <1>6, <2>1 DEF SelectOnly, r
  <2> HIDE DEF S
  <2>10. Sound(next, Identity) /\ OnDisplay(next)
    BY <2>6, <2>8, SelectSound
  <2>11. Fits(next)
    BY <2>6, SelectFits
  <2> HIDE DEF next
  <2> QED BY <2>9, <2>10, <2>11, CommandValid
<1> QED BY <1>1, <1>5, <1>6

LEMMA ConnectValid ==
  ASSUME Valid, ConnectSelection
  PROVE  Valid' /\ Steady
<1>1. PICK a \in doc.selection, b \in doc.selection :
        a < b /\ Command([doc EXCEPT !.connections = Append(@, <<a, b>>)])
  BY DEF ConnectSelection
<1> DEFINE p == Append(doc.connections, <<a, b>>)
           e == [doc EXCEPT !.connections = p]
<1>2. Sound(doc, Identity) /\ Raw(doc, Identity) /\ IsDocument(doc) /\ OnDisplay(doc)
      /\ a \in DOMAIN doc.nodes /\ b \in DOMAIN doc.nodes /\ DOMAIN doc.nodes \subseteq Nat
  BY DocIs DEF nodes
<1>3. doc.connections \in Seq(Int \X Int) /\ <<a, b>> \in Int \X Int
  BY <1>2 DEF IsDocument
<1>4. /\ p \in Seq(Int \X Int) /\ DOMAIN p = 1 .. Len(doc.connections) + 1
      /\ \A k \in 1 .. Len(doc.connections) : p[k] = doc.connections[k]
      /\ p[Len(doc.connections) + 1] = <<a, b>>
      /\ DOMAIN doc.connections = 1 .. Len(doc.connections) /\ Len(doc.connections) \in Nat
  BY <1>3, AppendProperties, LenProperties
<1> HIDE DEF p
<1>5. /\ e.nodes = doc.nodes /\ e.connections = p /\ e.layout = doc.layout /\ e.manual = doc.manual
      /\ e.look = doc.look /\ e.selected = doc.selected /\ e.selection = doc.selection
      /\ e.nextId = doc.nextId /\ IsDocument(e)
  BY <1>2, <1>4 DEF IsDocument
<1>6. Command(e)
  BY <1>1 DEF p
<1> HIDE DEF e
<1>7. Joins(e)
  <2> SUFFICES ASSUME NEW k \in DOMAIN p
               PROVE  p[k][1] # p[k][2] /\ p[k][1] \in DOMAIN doc.nodes /\ p[k][2] \in DOMAIN doc.nodes
    BY <1>5 DEF Joins
  <2>1. CASE k = Len(doc.connections) + 1
    <3>1. p[k] = <<a, b>>
      BY <1>4, <2>1
    <3>2. a # b
      BY <1>1, <1>2
    <3> QED BY <1>2, <3>1, <3>2
  <2>2. CASE k \in 1 .. Len(doc.connections)
    BY <1>2, <1>4, <2>2 DEF Raw, Joins
  <2> QED BY <1>4, <2>1, <2>2, SMTT(30)
<1>8. Sound(e, Identity) /\ OnDisplay(e)
  BY <1>2, <1>5, <1>7 DEF Sound, Raw, OnDisplay
<1>9. Fits(e)
  BY <1>5 DEF Fits, nodes
<1> QED BY <1>6, <1>8, <1>9, CommandValid

LEMMA ToggleFoldValid ==
  ASSUME Valid, ToggleFold
  PROVE  Valid' /\ Steady
<1> DEFINE x == nodes[Selected]
           n == [x EXCEPT !.folded = ~x.folded]
<1>1. Selected \in DOMAIN nodes /\ Command(Rebuild(With(Selected, n)))
  BY DEF ToggleFold, HasSelected
<1>2. x \in Node /\ ValidNode(x)
  BY <1>1, NodesAre
<1> HIDE DEF x
<1>3. /\ n \in Node /\ n.syncId = x.syncId /\ n.parent = x.parent /\ n.children = x.children
      /\ n.checked = x.checked /\ n.task = x.task /\ n.kind = x.kind /\ n.meeting = x.meeting
  BY <1>2 DEF Node
<1> HIDE DEF n
<1>4. InPlace(n, nodes[Selected])
  <2>1. InPlace(n, x)
    BY <1>2, <1>3 DEF InPlace, ValidNode
  <2> QED BY <2>1 DEF x
<1> QED BY <1>1, <1>4, WithValid

LEMMA ToggleCheckedValid ==
  ASSUME Valid, ToggleChecked
  PROVE  Valid' /\ Steady
<1> DEFINE x == nodes[Selected]
           n == [x EXCEPT !.task = TRUE, !.checked = ~x.checked]
<1>1. Selected \in DOMAIN nodes /\ x.kind = "text" /\ Command(Rebuild(With(Selected, n)))
  BY DEF ToggleChecked, HasSelected
<1>2. x \in Node /\ ValidNode(x)
  BY <1>1, NodesAre
<1>3. x.kind = "text"
  BY <1>1
<1> HIDE DEF x
<1>4. /\ n \in Node /\ n.syncId = x.syncId /\ n.parent = x.parent /\ n.children = x.children
      /\ n.checked = ~x.checked /\ n.task = TRUE /\ n.kind = x.kind /\ n.meeting = x.meeting
  BY <1>2 DEF Node
<1> HIDE DEF n
<1>5. InPlace(n, nodes[Selected])
  <2>1. InPlace(n, x)
    BY <1>2, <1>3, <1>4 DEF InPlace, ValidNode
  <2> QED BY <2>1 DEF x
<1> QED BY <1>1, <1>5, WithValid

LEMMA ContentsValid ==
  ASSUME Valid, Contents
  PROVE  Valid' /\ Steady
<1>1. CASE ChangeKind
  BY <1>1, SetNodeKindValid DEF ChangeKind
<1>2. CASE ToggleTask
  <2> DEFINE kind == IF nodes[Selected].task THEN "text" ELSE "task"
  <2>1. Selected \in DOMAIN nodes /\ SetNodeKind(Selected, kind) /\ kind \in {"text", "task", "date"}
    BY <1>2 DEF ToggleTask, HasSelected
  <2> HIDE DEF kind
  <2> QED BY <2>1, SetNodeKindValid
<1>3. CASE SetText \/ SetDateEntry \/ SetResource \/ SetImage \/ MoveManual \/ UpdateMeeting
  <2>1. \E i \in DOMAIN nodes, v \in Content : Command(Rebuild(Holding(i, v)))
    <3>1. CASE SetText \/ SetDateEntry \/ SetResource \/ SetImage \/ MoveManual
      BY <3>1 DEF SetText, SetDateEntry, SetResource, SetImage, MoveManual
    <3>2. CASE UpdateMeeting
      BY <3>2 DEF UpdateMeeting, HasSelected
    <3> QED BY <1>3, <3>1, <3>2
  <2> QED BY <2>1, HoldingValid
<1>4. CASE ApplyNodeStyle \/ ResetNodeStyle
  <2>1. \E v \in Content : Command(Rebuild(HoldingAll(doc.selection, v)))
    BY <1>4, MapAssumption DEF ApplyNodeStyle, ResetNodeStyle
  <2> QED BY <2>1, HoldingAllValid
<1> QED BY <1>1, <1>2, <1>3, <1>4, ToggleFoldValid, ToggleCheckedValid, NotesValid, RevealValid,
           ConnectValid DEF Contents

-----------------------------------------------------------------------------
(***************************************************************************)
(* Nodes come and go.                                                      *)
(***************************************************************************)
LEMMA GrownHere ==
  ASSUME Valid, NEW parent \in DOMAIN nodes, NEW sibling, NEW new, NEW lev, NEW tops,
         Sprout(new, lev, parent, tops), ValidNodes(new), Distinct(new), IdentitiesOf(new) \subseteq Fresh,
         DOMAIN new \subseteq doc.nextId .. doc.nextId + Cardinality(DOMAIN new) - 1,
         Room(Cardinality(DOMAIN new)),
         \A i \in DOMAIN new : Depth(nodes, parent) + lev[i] <= MaxDepth
  PROVE  Raw(Grown(new, parent, sibling, tops), Identity) /\ Fits(Grown(new, parent, sibling, tops))
<1>1. Sound(doc, Identity) /\ IdentitiesOf(doc.nodes) \subseteq used
  BY DocIs DEF Sound, Raw
<1>2. IdentitiesOf(new) \cap IdentitiesOf(doc.nodes) = {} /\ IdentitiesOf(new) \subseteq Identity
  BY <1>1 DEF Fresh
<1>3. /\ parent \in DOMAIN doc.nodes /\ Cardinality(DOMAIN doc.nodes) + Cardinality(DOMAIN new) <= MaxNodes
      /\ \A i \in DOMAIN new : Depth(doc.nodes, parent) + lev[i] <= MaxDepth
  BY DEF nodes, Room
<1> DEFINE g == [doc EXCEPT !.nodes = Over([doc.nodes EXCEPT
                         ![parent].children = After(doc.nodes[parent].children, sibling, tops),
                         ![parent].folded = FALSE], new),
                       !.nextId = @ + Cardinality(DOMAIN new)]
<1>4. Raw(g, Identity)
  BY <1>1, <1>2, <1>3, GrownRaw
<1>5. g = Grown(new, parent, sibling, tops)
  BY DEF Grown, GrownIn, nodes
<1> DEFINE f == [doc.nodes EXCEPT ![parent].children = After(doc.nodes[parent].children, sibling, tops),
                                  ![parent].folded = FALSE]
<1>6. IsDocument(doc) /\ Root \in DOMAIN doc.nodes /\ doc.nodes \in [DOMAIN doc.nodes -> Node]
  BY DocIs DEF IsTree, Tree, Typed, Linked, nodes
<1>6a. DOMAIN f = DOMAIN doc.nodes
  OBVIOUS
<1>6b. \A i \in DOMAIN doc.nodes : f[i].syncId = doc.nodes[i].syncId
  <2> TAKE i \in DOMAIN doc.nodes
  <2> DEFINE x == doc.nodes[i]
             ch == After(doc.nodes[parent].children, sibling, tops)
  <2>1. x \in Node
    BY <1>6
  <2> HIDE DEF ch
  <2>2. f[i] = x \/ f[i] = [x EXCEPT !.children = ch, !.folded = FALSE]
    BY <1>3, <1>6 DEF ch
  <2> HIDE DEF x, f
  <2>3. f[i].syncId = x.syncId
    BY <2>1, <2>2 DEF Node
  <2> QED BY <2>3 DEF x
<1>7. Root \in DOMAIN f /\ f[Root].syncId = doc.nodes[Root].syncId
  BY <1>6, <1>6a, <1>6b
<1>8. g.nodes = Over(f, new)
  BY <1>6 DEF IsDocument
<1> HIDE DEF f, g
<1>9. Over(f, new)[Root] = f[Root]
  BY <1>7, OverIs
<1>10. Fits(g)
  <2> DEFINE o == Over(f, new)
  <2>o. /\ DOMAIN o = DOMAIN f \cup DOMAIN new /\ \A x \in DOMAIN f : o[x] = f[x]
        /\ \A x \in DOMAIN new \ DOMAIN f : o[x] = new[x]
    BY OverIs
  <2> HIDE DEF o
  <2>1. IdentitiesOf(o) \subseteq IdentitiesOf(doc.nodes) \cup IdentitiesOf(new)
    <3>1. ASSUME NEW i \in DOMAIN f PROVE o[i].syncId = doc.nodes[i].syncId /\ i \in DOMAIN doc.nodes
      BY <1>6a, <1>6b, <2>o
    <3>2. ASSUME NEW i \in DOMAIN o \ DOMAIN f PROVE i \in DOMAIN new /\ o[i] = new[i]
      BY <2>o
    <3>3. ASSUME NEW u \in IdentitiesOf(o) PROVE u \in IdentitiesOf(doc.nodes) \cup IdentitiesOf(new)
      <4>1. PICK i \in DOMAIN o : u = o[i].syncId
        BY DEF IdentitiesOf
      <4> QED BY <3>1, <3>2, <4>1 DEF IdentitiesOf
    <3> QED BY <3>3
  <2>2. IdentitiesOf(new) \cap used = {}
    BY DEF Fresh
  <2> QED BY <1>7, <1>8, <1>9, <2>1, <2>2 DEF Fits, nodes, o
<1> QED BY <1>4, <1>5, <1>10

\* Numbers that are not taken.
LEMMA NextIs ==
  ASSUME Valid
  PROVE  doc.nextId \in Nat /\ doc.nextId >= 2 /\ doc.nextId # None /\ DOMAIN nodes \subseteq 1 .. doc.nextId - 1
         /\ \A i \in DOMAIN nodes : Depth(nodes, i) \in 0 .. MaxDepth
<1>1. doc.nextId \in Nat /\ DOMAIN nodes \subseteq 1 .. doc.nextId - 1
  BY DocIs DEF Raw, IsDocument, nodes
<1>2. PICK dep : Tree(nodes, dep)
  BY DocIs DEF IsTree
<1>3. Root \in DOMAIN nodes /\ \A i \in DOMAIN nodes : Depth(nodes, i) = dep[i] /\ dep[i] \in 0 .. MaxDepth
  BY <1>2, AncestorsOf, KidsDeeper DEF Tree, Linked
<1> QED BY <1>1, <1>3 DEF Root, None

LEMMA NewNodeIs ==
  ASSUME NEW u \in Int, NEW parent \in Int
  PROVE  /\ NewNode(u, parent) \in Node /\ ValidNode(NewNode(u, parent))
         /\ NewNode(u, parent).syncId = u /\ NewNode(u, parent).parent = parent
         /\ NewNode(u, parent).children = <<>> /\ NewNode(u, parent).kind = "text"
         /\ ~NewNode(u, parent).meeting /\ ~NewNode(u, parent).task /\ ~NewNode(u, parent).checked
         /\ ~NewNode(u, parent).folded /\ NewNode(u, parent).content = Plain
<1>1. Plain \in Content /\ <<>> \in Seq(Int) /\ FALSE \in BOOLEAN /\ "text" \in Kind
  BY MaxDepthNat DEF Kind
<1> QED BY <1>1 DEF NewNode, Node, ValidNode

\* A new node by itself, under a free number.
LEMMA EntryIs ==
  ASSUME NEW n, NEW u \in Int, NEW parent \in Int, NEW kind \in Kind,
         NEW x, x = Entry(n, u, parent, kind), n[parent].task \in BOOLEAN
  PROVE  /\ x \in Node /\ ValidNode(x) /\ x.syncId = u /\ x.parent = parent /\ x.children = <<>>
<1> DEFINE task == kind = "text" /\ n[parent].task
           y == NewNode(u, parent)
<1>1. x = [y EXCEPT !.kind = kind, !.task = task]
  BY DEF Entry
<1>2. task \in BOOLEAN /\ (kind = "date" => ~task)
  OBVIOUS
<1>3. /\ y \in Node /\ y.syncId = u /\ y.parent = parent /\ y.children = <<>> /\ ~y.checked
      /\ ~y.meeting
  BY NewNodeIs
<1> HIDE DEF task, y
<1>4. /\ x \in Node /\ x.syncId = u /\ x.parent = parent /\ x.children = <<>> /\ x.kind = kind
      /\ x.task = task /\ ~x.checked /\ ~x.meeting
  BY <1>1, <1>2, <1>3 DEF Node
<1> QED BY <1>2, <1>4 DEF ValidNode

LEMMA SingleSprout ==
  ASSUME NEW x \in Node, ValidNode(x), x.children = <<>>, NEW id \in Nat \ {0}, NEW new, new = Single(id, x)
  PROVE  /\ Sprout(new, [i \in {id} |-> 1], x.parent, <<id>>)
         /\ ValidNodes(new) /\ Distinct(new) /\ IdentitiesOf(new) = {x.syncId}
         /\ DOMAIN new = {id} /\ Cardinality(DOMAIN new) = 1
<1> DEFINE lev == [i \in {id} |-> 1]
           tops == <<id>>
<1>1. DOMAIN new = {id} /\ new[id] = x /\ new = [i \in {id} |-> x]
  BY DEF Single
<1>2. Cardinality(DOMAIN new) = 1 /\ IsFiniteSet(DOMAIN new)
  BY <1>1, FS_Singleton
<1>3. Typed(new)
  BY <1>1, <1>2 DEF Typed
<1>4. tops \in Seq(DOMAIN new) /\ IsInjective(tops) /\ ToSet(tops) = {id}
  BY <1>1 DEF ToSet, IsInjective
<1>5. lev \in [DOMAIN new -> Nat \ {0}] /\ lev[id] = 1
  BY <1>1
<1>6. Kids(new, id) = {}
  BY <1>1 DEF Kids, ToSet
<1> HIDE DEF lev, tops
<1>7. Sprout(new, lev, x.parent, tops)
  BY <1>1, <1>3, <1>4, <1>5, <1>6 DEF Sprout
<1>8. ValidNodes(new) /\ Distinct(new) /\ IdentitiesOf(new) = {x.syncId}
  BY <1>1 DEF ValidNodes, Distinct, IdentitiesOf
<1> QED BY <1>1, <1>2, <1>7, <1>8 DEF lev, tops

\* A text or a date node is added.
LEMMA AddValid ==
  ASSUME Valid, NEW parent \in DOMAIN nodes, NEW sibling, NEW kind \in Kind, Room(1),
         Depth(nodes, parent) + 1 <= MaxDepth,
         NEW u \in Fresh, Command(Rebuild(Added(u, parent, sibling, kind)))
  PROVE  Valid' /\ Steady
<1> DEFINE id == doc.nextId
           n == Entry(nodes, u, parent, kind)
           new == Single(id, n)
           lev == [i \in {id} |-> 1]
           tops == <<id>>
           g == Grown(new, parent, sibling, tops)
           S == {id}
           e == [g EXCEPT !.selected = id, !.selection = S]
<1>1. e = Added(u, parent, sibling, kind)
  BY DEF Added, SelectOnly
<1>2. id \in Nat \ {0} /\ id # None /\ id \in Int
  BY NextIs
<1>3. u \in Int /\ u \in Fresh /\ parent \in Int
  BY MaxDepthNat, DocIs DEF Fresh, Identity
<1>4. n \in Node /\ ValidNode(n) /\ n.syncId = u /\ n.parent = parent /\ n.children = <<>>
  <2>1. nodes[parent].task \in BOOLEAN
    BY NodesAre DEF Node
  <2> QED BY <1>3, <2>1, EntryIs
<1> HIDE DEF n, new, lev, tops, g, e, id
<1>5. /\ Sprout(new, lev, parent, tops) /\ ValidNodes(new) /\ Distinct(new) /\ IdentitiesOf(new) = {u}
      /\ DOMAIN new = {id} /\ Cardinality(DOMAIN new) = 1 /\ lev = [i \in {id} |-> 1]
  <2>1. new = Single(id, n)
    BY DEF new
  <2> QED BY <1>2, <1>4, <2>1, SingleSprout DEF lev, tops
<1>6. /\ IdentitiesOf(new) \subseteq Fresh
      /\ DOMAIN new \subseteq doc.nextId .. doc.nextId + Cardinality(DOMAIN new) - 1
      /\ Room(Cardinality(DOMAIN new))
      /\ \A i \in DOMAIN new : Depth(nodes, parent) + lev[i] <= MaxDepth
  BY <1>2, <1>3, <1>5 DEF id
<1>7. Raw(g, Identity) /\ Fits(g)
  BY <1>5, <1>6, GrownHere DEF g
<1>8. S \in SUBSET Int
  BY <1>2
<1> HIDE DEF S
<1>9. Raw(e, Identity)
  BY <1>2, <1>7, <1>8, SelectRaw DEF e
<1>10. Command(Rebuild(e))
  BY <1>1
<1>11. Fits(e)
  BY <1>7, SelectFits DEF e
<1> QED BY <1>9, <1>10, <1>11, RebuildCommand

LEMMA FreshRowIs ==
  ASSUME Valid, NEW n, NEW uids \in FreshRow(n)
  PROVE  /\ uids \in Seq(Fresh) /\ IsInjective(uids) /\ Len(uids) = n /\ DOMAIN uids = 1 .. n
         /\ \A j, k \in 1 .. n : uids[j] = uids[k] => j = k
<1>1. PICK S \in SUBSET Fresh : Cardinality(S) = n /\ uids = InOrder(S)
  BY DEF FreshRow
<1>2. S \in SUBSET Identity
  BY DEF Fresh
<1>3. uids \in Seq(Identity) /\ ToSet(uids) = S /\ IsInjective(uids) /\ Len(uids) = n
  BY <1>1, <1>2, InOrderOf
<1>4. uids \in Seq(ToSet(uids))
  BY <1>3, MembersOf
<1>5. uids \in Seq(Fresh)
  BY <1>3, <1>4, SeqMonotonic
<1>6. DOMAIN uids = 1 .. n
  BY <1>3, LenProperties
<1> QED BY <1>3, <1>5, <1>6 DEF IsInjective

LEMMA AdditionsValid ==
  ASSUME Valid, AddChild \/ AddChildFromPointer \/ AddSibling \/ AddDateNode
  PROVE  Valid' /\ Steady
<1>1. ASSUME NEW parent, NEW sibling, NEW kind \in Kind, Add(parent, sibling, kind) PROVE Valid' /\ Steady
  <2>1. PICK u \in Fresh : Command(Rebuild(Added(u, parent, sibling, kind)))
    BY <1>1 DEF Add
  <2>2. parent \in DOMAIN nodes /\ Room(1) /\ Depth(nodes, parent) + 1 <= MaxDepth
    BY <1>1 DEF Add
  <2> QED BY <2>1, <2>2, AddValid
<1>2. "text" \in Kind /\ "date" \in Kind
  BY DEF Kind
<1>3. CASE AddChild
  BY <1>1, <1>2, <1>3 DEF AddChild
<1>4. CASE AddChildFromPointer
  BY <1>1, <1>2, <1>4 DEF AddChildFromPointer
<1>5. CASE AddSibling
  BY <1>1, <1>2, <1>5 DEF AddSibling
<1>6. CASE AddDateNode
  BY <1>1, <1>2, <1>6 DEF AddDateNode
<1> QED BY <1>3, <1>4, <1>5, <1>6

-----------------------------------------------------------------------------
(***************************************************************************)
(* Templates: a top, sections under it, and an entry under each section.   *)
(***************************************************************************)
\* A node of a template, made from a new one.
TemplateNode(y, x, parent, children, meeting, task) ==
  /\ y \in Node /\ y.syncId = x.syncId /\ y.parent = parent /\ y.children = children
  /\ y.kind = "text" /\ y.meeting = meeting /\ y.task = task /\ ~y.checked

LEMMA TemplateNodeIs ==
  ASSUME NEW u \in Int, NEW p \in Int, NEW c \in Seq(Int), NEW m \in BOOLEAN, NEW t \in BOOLEAN
  PROVE  /\ TemplateNode([NewNode(u, None) EXCEPT !.parent = p, !.meeting = m, !.task = t, !.children = c],
                   NewNode(u, None), p, c, m, t)
         /\ TemplateNode([NewNode(u, None) EXCEPT !.parent = p, !.children = c, !.task = t],
                   NewNode(u, None), p, c, FALSE, t)
         /\ TemplateNode([NewNode(u, None) EXCEPT !.parent = p, !.task = t],
                   NewNode(u, None), p, <<>>, FALSE, t)
<1> DEFINE x == NewNode(u, None)
<1>1. None \in Int
  BY DEF None
<1>2. /\ x \in Node /\ x.children = <<>> /\ x.kind = "text" /\ ~x.meeting /\ ~x.checked
  BY <1>1, NewNodeIs
<1> HIDE DEF x
<1> DEFINE y1 == [x EXCEPT !.parent = p, !.meeting = m, !.task = t, !.children = c]
           y2 == [x EXCEPT !.parent = p, !.children = c, !.task = t]
           y3 == [x EXCEPT !.parent = p, !.task = t]
<1>3. TemplateNode(y1, x, p, c, m, t)
  <2>1. /\ y1 \in Node /\ y1.syncId = x.syncId /\ y1.parent = p /\ y1.children = c
        /\ y1.kind = x.kind /\ y1.meeting = m /\ y1.task = t /\ y1.checked = x.checked
    BY <1>2 DEF Node
  <2> HIDE DEF y1
  <2> QED BY <1>2, <2>1 DEF TemplateNode
<1>4. TemplateNode(y2, x, p, c, FALSE, t)
  <2>1. /\ y2 \in Node /\ y2.syncId = x.syncId /\ y2.parent = p /\ y2.children = c
        /\ y2.kind = x.kind /\ y2.meeting = x.meeting /\ y2.task = t /\ y2.checked = x.checked
        /\ x.meeting \in BOOLEAN
    BY <1>2 DEF Node
  <2> HIDE DEF y2
  <2> QED BY <1>2, <2>1 DEF TemplateNode
<1>5. TemplateNode(y3, x, p, <<>>, FALSE, t)
  <2>1. /\ y3 \in Node /\ y3.syncId = x.syncId /\ y3.parent = p /\ y3.children = x.children
        /\ y3.kind = x.kind /\ y3.meeting = x.meeting /\ y3.task = t /\ y3.checked = x.checked
        /\ x.meeting \in BOOLEAN
    BY <1>2 DEF Node
  <2> HIDE DEF y3
  <2> QED BY <1>2, <2>1 DEF TemplateNode
<1> QED BY <1>3, <1>4, <1>5 DEF x

\* A number of a template is its top, or the section or the entry with number k.
LEMMA TemplateNumbers ==
  ASSUME NEW first \in Nat, NEW L \in Nat, NEW i \in first .. first + 2 * L
  PROVE  /\ (i - first + 1) \div 2 \in 0 .. L
         /\ (i = first) <=> (i - first + 1) \div 2 = 0
         /\ \/ i = first + 2 * ((i - first + 1) \div 2) - 1
            \/ i = first + 2 * ((i - first + 1) \div 2)
         /\ i - first + 1 \in 1 .. 1 + 2 * L
<1> DEFINE o == i - first
<1>1. o \in 0 .. 2 * L /\ i = first + o
  OBVIOUS
<1> HIDE DEF o
<1> DEFINE k == (o + 1) \div 2
<1>2. k \in Nat /\ (2 * k = o + 1 \/ 2 * k = o)
  BY <1>1
<1> HIDE DEF k
<1>3. k \in 0 .. L /\ (i = first <=> k = 0) /\ (i = first + 2 * k - 1 \/ i = first + 2 * k)
  BY <1>1, <1>2
<1> QED BY <1>1, <1>3 DEF o, k

LEMMA TemplateRaw ==
  ASSUME Valid, HasSelected, NEW tasks \in Seq(BOOLEAN), NEW meeting \in BOOLEAN,
         Room(1 + 2 * Len(tasks)), Depth(nodes, Selected) + 3 <= MaxDepth,
         NEW uids \in FreshRow(1 + 2 * Len(tasks))
  PROVE  Raw(Template(uids, meeting, tasks), Identity) /\ Fits(Template(uids, meeting, tasks))
<1> DEFINE L == Len(tasks)
           first == doc.nextId
           N == first .. first + 2 * L
           section(k) == first + 2 * k - 1
           node(i) == NewNode(uids[i - first + 1], None)
           row == [n \in DOMAIN tasks |-> section(n)]
           top(i) == [node(i) EXCEPT !.parent = Selected, !.meeting = meeting, !.task = ~meeting,
                                     !.children = row]
           middle(i, k) == [node(i) EXCEPT !.parent = first, !.children = <<i + 1>>, !.task = tasks[k]]
           bottom(i, k) == [node(i) EXCEPT !.parent = i - 1, !.task = tasks[k]]
           new == [i \in N |->
             LET k == (i - first + 1) \div 2
             IN CASE i = first -> top(i)
                  [] i # first /\ i = section(k) -> middle(i, k)
                  [] OTHER -> bottom(i, k)]
           lev == [i \in N |-> IF i = first THEN 1
                               ELSE IF i = section((i - first + 1) \div 2) THEN 2 ELSE 3]
           tops == <<first>>
<1>0. Template(uids, meeting, tasks) = Grown(new, Selected, None, tops)
  BY DEF Template
<1> HIDE DEF top, middle, bottom
<1>1. first \in Nat /\ first >= 2 /\ Selected \in DOMAIN nodes /\ Selected \in Int
      /\ Depth(nodes, Selected) \in Nat
  BY NextIs, DocIs DEF HasSelected
<1>2. L \in Nat /\ DOMAIN tasks = 1 .. L /\ \A k \in 1 .. L : tasks[k] \in BOOLEAN
  BY LenProperties
<1>3. /\ \A j \in 1 .. 1 + 2 * L : uids[j] \in Fresh /\ uids[j] \in Int
      /\ \A j, k \in 1 .. 1 + 2 * L : uids[j] = uids[k] => j = k
  <2>1. uids \in Seq(Fresh) /\ DOMAIN uids = 1 .. 1 + 2 * L /\ Fresh \subseteq Int
    BY FreshRowIs, MaxDepthNat DEF Fresh, Identity
  <2>2. \A j \in 1 .. 1 + 2 * L : uids[j] \in Fresh
    BY <2>1
  <2> QED BY <2>1, <2>2, FreshRowIs
<1> HIDE DEF L
<1>4. row \in Seq(Int) /\ DOMAIN row = 1 .. L /\ \A k \in 1 .. L : row[k] = section(k)
  <2>1. row = [n \in 1 .. L |-> section(n)]
    BY <1>2
  <2> HIDE DEF row
  <2>2. DOMAIN row = 1 .. L /\ \A k \in 1 .. L : row[k] = section(k)
    BY <2>1
  <2>3. \A k \in 1 .. L : section(k) \in Int
    BY <1>1, <1>2
  <2> HIDE DEF section
  <2>4. row \in [1 .. L -> Int]
    BY <2>1, <2>2, <2>3
  <2> QED BY <1>2, <2>2, <2>4
<1>5. \A i \in N : /\ (i - first + 1) \div 2 \in 0 .. L
                   /\ (i = first) <=> (i - first + 1) \div 2 = 0
                   /\ \/ i = section((i - first + 1) \div 2)
                      \/ i = section((i - first + 1) \div 2) + 1
                   /\ i - first + 1 \in 1 .. 1 + 2 * L
  <2> TAKE i \in N
  <2> DEFINE k == (i - first + 1) \div 2
  <2>1. /\ k \in 0 .. L /\ (i = first <=> k = 0)
        /\ (i = first + 2 * k - 1 \/ i = first + 2 * k) /\ i - first + 1 \in 1 .. 1 + 2 * L
    <3>1. i \in first .. first + 2 * L /\ first \in Nat
      BY <1>1
    <3> HIDE DEF first, N
    <3> QED BY <1>2, <3>1, TemplateNumbers
  <2> HIDE DEF k
  <2>2. i = section(k) \/ i = section(k) + 1
    BY <1>1, <1>2, <2>1
  <2> QED BY <2>1, <2>2 DEF k
<1>6. first \in N /\ N \subseteq Nat /\ \A k \in 1 .. L : section(k) \in N /\ section(k) + 1 \in N
  BY <1>1, <1>2
<1> HIDE DEF row
<1>7. ASSUME NEW i \in N, i = first
      PROVE  TemplateNode(new[i], node(i), Selected, row, meeting, ~meeting) /\ lev[i] = 1
  <2>1. new[i] = top(i)
    BY <1>7
  <2>2. uids[i - first + 1] \in Int /\ (~meeting) \in BOOLEAN
    <3>1. uids[i - first + 1] \in Int
      BY <1>3, <1>5
    <3> QED BY <3>1
  <2>3. TemplateNode(top(i), node(i), Selected, row, meeting, ~meeting)
    BY <1>1, <1>4, <2>2, TemplateNodeIs, ZenonT(40) DEF top
  <2> QED BY <1>7, <2>1, <2>3
<1>8. ASSUME NEW i \in N, NEW k \in 1 .. L, i = section(k)
      PROVE  TemplateNode(new[i], node(i), first, <<i + 1>>, FALSE, tasks[k]) /\ lev[i] = 2
  <2>1. i # first /\ (i - first + 1) \div 2 = k
    BY <1>1, <1>2, <1>8
  <2>2. new[i] = middle(i, k)
    BY <1>8, <2>1
  <2>3. uids[i - first + 1] \in Int /\ first \in Int /\ <<i + 1>> \in Seq(Int)
    BY <1>1, <1>3, <1>5
  <2>4. TemplateNode(middle(i, k), node(i), first, <<i + 1>>, FALSE, tasks[k])
    BY <1>2, <2>3, TemplateNodeIs, ZenonT(40) DEF middle
  <2> QED BY <1>8, <2>1, <2>2, <2>4
<1>9. ASSUME NEW i \in N, NEW k \in 1 .. L, i = section(k) + 1
      PROVE  TemplateNode(new[i], node(i), section(k), <<>>, FALSE, tasks[k]) /\ lev[i] = 3
  <2>0. i = first + 2 * k /\ k \in Nat /\ k >= 1
    BY <1>1, <1>2, <1>9
  <2>1. i # first /\ (i - first + 1) \div 2 = k /\ i # section(k)
    <3>1. i - first + 1 = 2 * k + 1 /\ i # first /\ i # section(k)
      BY <1>1, <2>0, SMTT(30)
    <3>2. \A n \in Nat : (2 * n + 1) \div 2 = n
      OBVIOUS
    <3> QED BY <2>0, <3>1, <3>2
  <2>2. new[i] = bottom(i, k)
    BY <1>9, <2>1
  <2>3. uids[i - first + 1] \in Int /\ i - 1 \in Int /\ i - 1 = section(k)
    <3>1. uids[i - first + 1] \in Int
      BY <1>3, <1>5
    <3>2. i - 1 \in Int /\ i - 1 = section(k)
      BY <1>1, <2>0
    <3> QED BY <3>1, <3>2
  <2>4. TemplateNode(bottom(i, k), node(i), i - 1, <<>>, FALSE, tasks[k])
    <3>1. <<>> \in Seq(Int)
      OBVIOUS
    <3> QED BY <1>2, <2>3, <3>1, TemplateNodeIs DEF bottom
  <2> QED BY <1>9, <2>1, <2>2, <2>3, <2>4
<1>10. \A i \in N : i = first \/ \E k \in 1 .. L : i = section(k) \/ i = section(k) + 1
  <2> TAKE i \in N
  <2>1. CASE i # first
    <3>1. (i - first + 1) \div 2 \in 1 .. L
      BY <1>2, <1>5, <2>1
    <3> QED BY <1>5, <3>1
  <2> QED BY <2>1
<1>11. \A i \in N : node(i) \in Node /\ node(i).syncId = uids[i - first + 1]
  <2> TAKE i \in N
  <2>1. uids[i - first + 1] \in Int /\ None \in Int
    BY <1>3, <1>5 DEF None
  <2> QED BY <2>1, NewNodeIs
<1>12. DOMAIN new = N /\ DOMAIN lev = N /\ new = [i \in N |-> new[i]]
  OBVIOUS
<1>13. IsFiniteSet(N) /\ Cardinality(N) = 1 + 2 * L
  <2> DEFINE last == first + 2 * L
  <2>1. first \in Int /\ last \in Int /\ first <= last /\ last - first + 1 = 1 + 2 * L
    BY <1>1, <1>2
  <2> HIDE DEF last, first
  <2>2. IsFiniteSet(first .. last)
    BY <2>1, FS_Interval
  <2>3. Cardinality(first .. last) = 1 + 2 * L
    BY <2>1, FS_Interval
  <2> QED BY <2>2, <2>3 DEF last
<1> HIDE DEF new, lev, node
<1>14. \A i \in N : /\ new[i] \in Node /\ new[i].syncId = uids[i - first + 1]
                    /\ new[i].kind = "text" /\ ~new[i].checked /\ lev[i] \in 1 .. 3
  <2> TAKE i \in N
  <2>1. CASE i = first
    BY <1>7, <1>11, <2>1 DEF TemplateNode
  <2>2. ASSUME NEW k \in 1 .. L, i = section(k) PROVE lev[i] = 2 /\ TemplateNode(new[i], node(i), first, <<i + 1>>, FALSE, tasks[k])
    BY <1>8, <2>2
  <2>3. ASSUME NEW k \in 1 .. L, i = section(k) + 1 PROVE lev[i] = 3 /\ TemplateNode(new[i], node(i), section(k), <<>>, FALSE, tasks[k])
    BY <1>9, <2>3
  <2>4. CASE i # first
    <3>1. PICK k \in 1 .. L : i = section(k) \/ i = section(k) + 1
      BY <1>10, <2>4
    <3>2. CASE i = section(k)
      <4>1. lev[i] = 2 /\ TemplateNode(new[i], node(i), first, <<i + 1>>, FALSE, tasks[k])
        BY <2>2, <3>2
      <4> HIDE DEF section
      <4> QED BY <1>11, <4>1 DEF TemplateNode
    <3>3. CASE i = section(k) + 1
      <4>1. lev[i] = 3 /\ TemplateNode(new[i], node(i), section(k), <<>>, FALSE, tasks[k])
        BY <2>3, <3>3
      <4> HIDE DEF section
      <4> QED BY <1>11, <4>1 DEF TemplateNode
    <3> QED BY <3>1, <3>2, <3>3
  <2> QED BY <2>1, <2>4
<1>15. /\ new[first].parent = Selected /\ new[first].children = row /\ lev[first] = 1
       /\ Kids(new, first) = {section(k) : k \in 1 .. L}
  <2>1. new[first].parent = Selected /\ new[first].children = row /\ lev[first] = 1
    BY <1>6, <1>7 DEF TemplateNode
  <2> QED BY <1>4, <2>1 DEF Kids, ToSet
<1>16. \A k \in 1 .. L : LET i == section(k) IN
         /\ new[i].parent = first /\ Kids(new, i) = {i + 1} /\ lev[i] = 2 /\ new[i].children = <<i + 1>>
         /\ new[i + 1].parent = i /\ Kids(new, i + 1) = {} /\ lev[i + 1] = 3 /\ new[i + 1].children = <<>>
  <2> TAKE k \in 1 .. L
  <2> DEFINE i == section(k)
  <2>1. new[i].parent = first /\ lev[i] = 2 /\ new[i].children = <<i + 1>>
    BY <1>6, <1>8 DEF TemplateNode
  <2>2. new[i + 1].parent = i /\ lev[i + 1] = 3 /\ new[i + 1].children = <<>>
    BY <1>6, <1>9 DEF TemplateNode
  <2>3. Kids(new, i) = {i + 1} /\ Kids(new, i + 1) = {}
    BY <2>1, <2>2 DEF Kids, ToSet
  <2> QED BY <2>1, <2>2, <2>3
<1> HIDE DEF N
<1>17. Typed(new)
  <2>1. N \subseteq Nat \ {0}
    BY <1>1 DEF N
  <2>2. new \in [N -> Node]
    BY <1>12, <1>14
  <2> QED BY <1>12, <1>13, <2>1, <2>2 DEF Typed
<1>18. tops \in Seq(DOMAIN new) /\ IsInjective(tops) /\ ToSet(tops) = {first}
  BY <1>6, <1>12 DEF ToSet, IsInjective
<1>19. lev \in [DOMAIN new -> Nat \ {0}]
  <2>1. lev = [i \in N |-> lev[i]]
    BY DEF lev
  <2> QED BY <1>12, <1>14, <2>1
<1> HIDE DEF section, tops
<1>20. Sprout(new, lev, Selected, tops)
  <2>1. ASSUME NEW i \in N
        PROVE  \/ i \in ToSet(tops) /\ lev[i] = 1
               \/ /\ new[i].parent \in N /\ i \in Kids(new, new[i].parent)
                  /\ lev[i] = lev[new[i].parent] + 1
    <3>1. CASE i = first
      BY <1>15, <1>18, <3>1
    <3>2. CASE i # first
      <4>1. PICK k \in 1 .. L : i = section(k) \/ i = section(k) + 1
        BY <1>10, <3>2
      <4>2. CASE i = section(k)
        BY <1>6, <1>15, <1>16, <4>2
      <4>3. CASE i = section(k) + 1
        BY <1>6, <1>15, <1>16, <4>3
      <4> QED BY <4>1, <4>2, <4>3
    <3> QED BY <3>1, <3>2
  <2>2. ASSUME NEW i \in N PROVE \A c \in Kids(new, i) : c \in N /\ new[c].parent = i
    <3>1. CASE i = first
      BY <1>6, <1>15, <1>16, <3>1
    <3>2. CASE i # first
      <4>1. PICK k \in 1 .. L : i = section(k) \/ i = section(k) + 1
        BY <1>10, <3>2
      <4> QED BY <1>6, <1>16, <4>1
    <3> QED BY <3>1, <3>2
  <2>3. \A i \in ToSet(tops) : new[i].parent = Selected
    BY <1>15, <1>18
  <2> QED BY <1>12, <1>17, <1>18, <1>19, <2>1, <2>2, <2>3 DEF Sprout
<1>21. ValidNodes(new)
  <2> SUFFICES ASSUME NEW i \in N PROVE ValidNode(new[i])
    BY <1>12 DEF ValidNodes
  <2>1. \A j, k \in DOMAIN new[i].children : new[i].children[j] = new[i].children[k] => j = k
    <3>1. CASE i = first
      <4>1. \A j, k \in 1 .. L : row[j] = row[k] => j = k
        BY <1>1, <1>2, <1>4, SMTT(30) DEF section
      <4> QED BY <1>4, <1>15, <3>1, <4>1
    <3>2. CASE i # first
      <4>1. PICK k \in 1 .. L : i = section(k) \/ i = section(k) + 1
        BY <1>10, <3>2
      <4> QED BY <1>16, <4>1
    <3> QED BY <3>1, <3>2
  <2> QED BY <1>14, <2>1 DEF ValidNode
<1>22. Distinct(new) /\ IdentitiesOf(new) \subseteq Fresh
  <2>1. \A i, j \in N : new[i].syncId = new[j].syncId => i = j
    <3> TAKE i, j \in N
    <3>1. i \in Nat /\ j \in Nat /\ i - first + 1 \in 1 .. 1 + 2 * L /\ j - first + 1 \in 1 .. 1 + 2 * L
      BY <1>5, <1>6
    <3>2. new[i].syncId = new[j].syncId => i - first + 1 = j - first + 1
      BY <1>3, <1>14, <3>1
    <3> QED BY <1>1, <3>1, <3>2
  <2>2. \A i \in N : new[i].syncId \in Fresh
    BY <1>3, <1>5, <1>14
  <2> QED BY <1>12, <2>1, <2>2 DEF Distinct, IdentitiesOf
<1>23. /\ DOMAIN new \subseteq doc.nextId .. doc.nextId + Cardinality(DOMAIN new) - 1
       /\ Room(Cardinality(DOMAIN new))
       /\ \A i \in DOMAIN new : Depth(nodes, Selected) + lev[i] <= MaxDepth
  <2>1. N \subseteq doc.nextId .. doc.nextId + (1 + 2 * L) - 1
    BY <1>1, <1>2 DEF N
  <2>2. Room(1 + 2 * L)
    BY DEF L
  <2>3. \A i \in N : Depth(nodes, Selected) + lev[i] <= MaxDepth
    BY <1>1, <1>14, MaxDepthNat
  <2> QED BY <1>12, <1>13, <2>1, <2>2, <2>3
<1> HIDE DEF first
<1>24. Raw(Grown(new, Selected, None, tops), Identity) /\ Fits(Grown(new, Selected, None, tops))
  BY <1>1, <1>20, <1>21, <1>22, <1>23, GrownHere
<1> QED BY <1>0, <1>24

LEMMA TemplatesValid ==
  ASSUME Valid, AddMeetingTemplate \/ AddWeeklyTasks
  PROVE  Valid' /\ Steady
<1>0. doc.nextId \in Nat /\ doc.nextId >= 2
  BY NextIs
<1>1. ASSUME HasSelected, Depth(nodes, Selected) + 3 <= MaxDepth, NEW tasks \in Seq(BOOLEAN),
             NEW meeting \in BOOLEAN, Room(1 + 2 * Len(tasks)), NEW uids \in FreshRow(1 + 2 * Len(tasks)),
             NEW p \in Nat,
             Command(Rebuild(SelectOnly(Template(uids, meeting, tasks), doc.nextId + p)))
      PROVE  Valid' /\ Steady
  <2> DEFINE t == Template(uids, meeting, tasks)
             s == doc.nextId + p
             S == {s}
             e == [t EXCEPT !.selected = s, !.selection = S]
  <2>1. Raw(t, Identity) /\ Fits(t)
    BY <1>1, TemplateRaw
  <2>2. s \in Int /\ s # None /\ S \in SUBSET Int
    BY <1>0 DEF None
  <2>3. Command(Rebuild(e))
    BY <1>1 DEF SelectOnly
  <2> HIDE DEF t, s, S
  <2>4. Raw(e, Identity)
    BY <2>1, <2>2, SelectRaw
  <2>5. Fits(e)
    BY <2>1, SelectFits
  <2> HIDE DEF e
  <2> QED BY <2>3, <2>4, <2>5, RebuildCommand
<1>2. CASE AddMeetingTemplate
  <2> DEFINE s == MeetingSections
             tasks == [k \in DOMAIN s |-> s[k] = "actions"]
             p == 2 * Position(s, "notes")
  <2>1. s \in Seq({"agenda", "notes", "decisions", "actions"}) /\ "notes" \in ToSet(s)
    BY EditorAssumption
  <2>2. tasks \in Seq(BOOLEAN) /\ Len(tasks) = Len(s)
    <3>1. DOMAIN s = 1 .. Len(s) /\ Len(s) \in Nat
      BY <2>1, LenProperties
    <3>2. tasks \in [1 .. Len(s) -> BOOLEAN]
      BY <3>1
    <3> QED BY <3>1, <3>2
  <2>3. p \in Nat
    <3>1. Position(s, "notes") \in 1 .. Len(s) /\ Len(s) \in Nat
      BY <2>1, PositionOf, LenProperties
    <3> QED BY <3>1
  <2>4. PICK uids \in FreshRow(1 + 2 * Len(s)) :
          Command(Rebuild(SelectOnly(Template(uids, TRUE, tasks), doc.nextId + p)))
    BY <1>2 DEF AddMeetingTemplate
  <2>5. HasSelected /\ Room(1 + 2 * Len(s)) /\ Depth(nodes, Selected) + 3 <= MaxDepth
    BY <1>2 DEF AddMeetingTemplate
  <2> HIDE DEF tasks, p, s
  <2> QED BY <1>1, <2>2, <2>3, <2>4, <2>5
<1>3. CASE AddWeeklyTasks
  <2> DEFINE tasks == [k \in 1 .. WeekDays |-> TRUE]
  <2>2. tasks \in Seq(BOOLEAN) /\ Len(tasks) = WeekDays
    BY EditorAssumption
  <2>4. PICK uids \in FreshRow(1 + 2 * WeekDays) :
          Command(Rebuild(SelectOnly(Template(uids, FALSE, tasks), doc.nextId + 2)))
    BY <1>3 DEF AddWeeklyTasks
  <2>5. HasSelected /\ Room(1 + 2 * WeekDays) /\ Depth(nodes, Selected) + 3 <= MaxDepth
    BY <1>3 DEF AddWeeklyTasks
  <2> HIDE DEF tasks
  <2> QED BY <1>1, <2>2, <2>4, <2>5
<1> QED BY <1>2, <1>3

-----------------------------------------------------------------------------
(***************************************************************************)
(* Branches go, and go elsewhere.                                          *)
(***************************************************************************)
LEMMA RemoveValid ==
  ASSUME Valid, RemoveSelected
  PROVE  Valid' /\ Steady
<1> DEFINE picked == doc.selection \ {Root}
           gone == UNION {Branch(nodes, i) : i \in picked}
           rest == IF HasSelected THEN Ancestors(nodes, Selected) \ gone ELSE {}
           s == IF rest = {} THEN Root ELSE Deepest(nodes, rest)
           S == {s}
           w == WithoutNodes(doc, gone)
           e == [w EXCEPT !.selected = s, !.selection = S]
<1>1. Command(Rebuild(e))
  BY DEF RemoveSelected, Unselected, SelectOnly
<1>2. PICK dep : Tree(nodes, dep)
  BY DocIs DEF IsTree
<1>3. picked \subseteq DOMAIN nodes \ {Root} /\ Sound(doc, Identity) /\ DOMAIN nodes \subseteq Nat \ {0}
      /\ Root \in DOMAIN nodes
  BY DocIs, NodesAre
<1> HIDE DEF picked
<1>4. gone \subseteq DOMAIN doc.nodes \ {Root} /\ \A i \in gone : Kids(doc.nodes, i) \subseteq gone
  <2>1. ASSUME NEW i \in picked
        PROVE  /\ Branch(nodes, i) \subseteq DOMAIN nodes \ {Root}
               /\ \A j \in Branch(nodes, i) : Kids(nodes, j) \subseteq Branch(nodes, i)
    BY <1>2, <1>3, BranchOf
  <2> QED BY <2>1 DEF nodes
<1> HIDE DEF gone
<1>5. Raw(w, Identity) /\ Fits(w)
  <2>1. /\ Raw(w, Identity) /\ DOMAIN w.nodes \subseteq DOMAIN nodes
        /\ \A i \in DOMAIN w.nodes : w.nodes[i].syncId = nodes[i].syncId
        /\ w.nodes[Root].syncId = nodes[Root].syncId
    <3>1. /\ Sound(doc, Identity) /\ gone \subseteq DOMAIN doc.nodes \ {Root}
          /\ \A i \in gone : Kids(doc.nodes, i) \subseteq gone
      BY <1>3, <1>4
    <3>2. /\ Raw(w, Identity) /\ DOMAIN w.nodes = DOMAIN doc.nodes \ gone
          /\ w.nodes[Root].syncId = doc.nodes[Root].syncId
          /\ \A i \in DOMAIN doc.nodes \ gone : w.nodes[i].syncId = doc.nodes[i].syncId
      BY <3>1, WithoutRaw
    <3> HIDE DEF w
    <3> QED BY <3>2 DEF nodes
  <2> HIDE DEF w
  <2> QED BY <2>1 DEF Fits, IdentitiesOf
<1>6. s \in DOMAIN nodes
  <2>1. rest \in SUBSET DOMAIN nodes
    <3>1. HasSelected => Ancestors(nodes, Selected) \subseteq DOMAIN nodes
      BY <1>2, AncestorsOf DEF HasSelected
    <3> QED BY <3>1
  <2> HIDE DEF rest
  <2>2. rest # {} => Deepest(nodes, rest) \in rest
    BY <1>2, <2>1, DeepestOf
  <2> QED BY <1>3, <2>1, <2>2
<1> HIDE DEF s
<1>7. s \in Int /\ s # None /\ S \in SUBSET Int
  BY <1>3, <1>6 DEF None
<1> HIDE DEF S, w
<1>8. Raw(e, Identity)
  BY <1>5, <1>7, SelectRaw
<1>9. Fits(e)
  BY <1>5, SelectFits
<1> HIDE DEF e
<1> QED BY <1>1, <1>8, <1>9, RebuildCommand

LEMMA MovesValid ==
  ASSUME Valid, MoveNode \/ MoveBranches
  PROVE  Valid' /\ Steady
<1>0. Sound(doc, Identity) /\ IsTree(nodes) /\ ValidNodes(nodes)
  BY DocIs
<1>1. ASSUME NEW parent \in DOMAIN nodes, NEW sibling, NEW ids \in Seq(DOMAIN nodes \ {Root}),
             IsInjective(ids), \A a, b \in ToSet(ids) : a \in Branch(nodes, b) => a = b,
             \A a \in ToSet(ids) : MayMove(a, parent), Command(MovedBefore(ids, parent, sibling))
      PROVE  Valid' /\ Steady
  <2> DEFINE m == Moved(doc, ids, parent, sibling)
  <2>1. parent \in DOMAIN doc.nodes /\ ids \in Seq(DOMAIN doc.nodes \ {Root})
        /\ \A a, b \in ToSet(ids) : a \in Branch(doc.nodes, b) => a = b
    BY <1>1 DEF nodes
  <2>2. \A a \in ToSet(ids) : /\ parent \notin Branch(doc.nodes, a)
                              /\ Depth(doc.nodes, parent) + 1 + Height(doc.nodes, a) <= MaxDepth
    BY <1>1 DEF MayMove, MayMoveIn, nodes
  <2>3. Raw(m, Identity)
    BY <1>0, <1>1, <2>1, <2>2, MovedRaw
  <2>4. Command(Rebuild(m))
    BY <1>1 DEF MovedBefore
  <2>5. Root \in DOMAIN doc.nodes
    BY NodesAre DEF nodes
  <2>6. DOMAIN m.nodes = DOMAIN nodes /\ \A i \in DOMAIN nodes : m.nodes[i].syncId = nodes[i].syncId
    BY <1>0, <1>1, <2>1, <2>2, MovedRaw, ZenonT(40) DEF nodes
  <2>7. Fits(m)
    <3> HIDE DEF m
    <3> QED BY <2>5, <2>6, FitsAlike DEF nodes
  <2> HIDE DEF m
  <2> QED BY <2>3, <2>4, <2>7, RebuildCommand
<1>2. CASE MoveNode
  <2>1. PICK i \in DOMAIN nodes \ {Root}, parent \in DOMAIN nodes :
          /\ MayMove(i, parent)
          /\ \E sibling \in ({None} \cup Kids(nodes, parent)) \ {i} :
               Command(MovedBefore(<<i>>, parent, sibling))
    BY <1>2 DEF MoveNode
  <2>2. PICK sibling : Command(MovedBefore(<<i>>, parent, sibling))
    BY <2>1
  <2> DEFINE ids == <<i>>
  <2>3. ids \in Seq(DOMAIN nodes \ {Root}) /\ IsInjective(ids) /\ ToSet(ids) = {i}
    BY DEF IsInjective, ToSet
  <2>4. Command(MovedBefore(ids, parent, sibling))
    BY <2>2
  <2> HIDE DEF ids
  <2> QED BY <1>1, <2>1, <2>3, <2>4
<1>3. CASE MoveBranches
  <2> DEFINE ids == BranchRoots(nodes, doc.selection)
  <2>1. PICK parent \in DOMAIN nodes :
          /\ Root \notin ToSet(ids)
          /\ \A i \in ToSet(ids) : MayMove(i, parent)
          /\ \E sibling \in {None} \cup Kids(nodes, parent) :
               \E next \in {MovedBefore(ids, parent, Staying(ids, parent, sibling))} : Command(next)
    BY <1>3 DEF MoveBranches
  <2>2. PICK sibling : Command(MovedBefore(ids, parent, sibling))
    BY <2>1
  <2>3. PICK dep : Tree(nodes, dep)
    BY <1>0 DEF IsTree
  <2>4. /\ ids \in Seq(DOMAIN nodes) /\ IsInjective(ids)
        /\ \A a, b \in ToSet(ids) : a \in Branch(nodes, b) => a = b
    BY <1>0, <2>3, BranchRootsOf
  <2> HIDE DEF ids
  <2>5. ids \in Seq(DOMAIN nodes \ {Root})
    <3>1. ids \in Seq(ToSet(ids)) /\ ToSet(ids) \subseteq DOMAIN nodes \ {Root}
      BY <2>1, <2>4, MembersOf
    <3> QED BY <3>1, SeqMonotonic
  <2> QED BY <1>1, <2>1, <2>2, <2>4, <2>5
<1> QED BY <1>2, <1>3

\* The generated tree: four children to a node, numbered level by level.
HasKids(y, x, c) == y = [x EXCEPT !.children = c]

LEMMA FixtureNode ==
  ASSUME NEW u \in Int, NEW p \in Int, NEW c \in Seq(Int), IsInjective(c), NEW y,
         HasKids(y, NewNode(u, p), c)
  PROVE  /\ y \in Node /\ y.syncId = u /\ y.parent = p /\ y.children = c /\ ValidNode(y)
<1> DEFINE x == NewNode(u, p)
<1>1. x \in Node /\ x.syncId = u /\ x.parent = p /\ x.kind = "text" /\ ~x.meeting /\ ~x.checked /\ ~x.task
  BY NewNodeIs
<1>2. y = [x EXCEPT !.children = c]
  BY DEF HasKids
<1> HIDE DEF x
<1>3. /\ y \in Node /\ y.syncId = u /\ y.parent = p /\ y.children = c /\ y.kind = "text"
      /\ ~y.meeting /\ ~y.checked /\ ~y.task
  BY <1>1, <1>2 DEF Node
<1>4. \A j, k \in DOMAIN c : c[j] = c[k] => j = k
  BY DEF IsInjective
<1> QED BY <1>3, <1>4 DEF ValidNode

LEMMA FixtureValid ==
  ASSUME Valid, LoadFixture
  PROVE  Valid' /\ Steady
<1>1. PICK count \in 1 .. MaxNodes : \E uids \in FreshRow(count) :
        Command(Rebuild(
          [doc EXCEPT !.nodes = [i \in 1 .. count |->
                        [NewNode(uids[i], IF i = Root THEN None ELSE (i - 2) \div 4 + 1)
                           EXCEPT !.children = Only([k \in 1 .. count |-> k],
                                                    {k \in 2 .. count : (k - 2) \div 4 + 1 = i})]],
                      !.connections = <<>>, !.nextId = count + 1,
                      !.selected = Root, !.selection = {Root}]))
  BY DEF LoadFixture
<1>2. PICK uids \in FreshRow(count) :
        Command(Rebuild(
          [doc EXCEPT !.nodes = [i \in 1 .. count |->
                        [NewNode(uids[i], IF i = Root THEN None ELSE (i - 2) \div 4 + 1)
                           EXCEPT !.children = Only([k \in 1 .. count |-> k],
                                                    {k \in 2 .. count : (k - 2) \div 4 + 1 = i})]],
                      !.connections = <<>>, !.nextId = count + 1,
                      !.selected = Root, !.selection = {Root}]))
  BY <1>1
<1> DEFINE above(i) == (i - 2) \div 4 + 1
           parent(i) == IF i = Root THEN None ELSE above(i)
           row == [k \in 1 .. count |-> k]
           under(i) == {k \in 2 .. count : above(k) = i}
           kids(i) == Only(row, under(i))
           node(i) == [NewNode(uids[i], parent(i)) EXCEPT !.children = kids(i)]
           m == [i \in 1 .. count |-> node(i)]
           S == {Root}
           none == <<>>
           e == [doc EXCEPT !.nodes = m, !.connections = none, !.nextId = count + 1,
                            !.selected = Root, !.selection = S]
<1>3. Command(Rebuild(e))
  BY <1>2
<1>4. count \in Nat \ {0} /\ count <= MaxNodes
  BY MaxDepthNat
<1>5. \A i \in 2 .. count : above(i) \in 1 .. count /\ above(i) # i
  <2>1. \A i \in Nat : i >= 2 => (i - 2) \div 4 + 1 \in Nat /\ (i - 2) \div 4 + 1 >= 1 /\ (i - 2) \div 4 + 1 < i
    OBVIOUS
  <2> QED BY <1>4, <2>1
<1> HIDE DEF above
<1>6. row \in Seq(1 .. count) /\ IsInjective(row) /\ ToSet(row) = 1 .. count
  BY <1>4 DEF IsInjective, ToSet
<1> HIDE DEF row
<1>7. \A i \in 1 .. count : /\ kids(i) \in Seq(1 .. count) /\ IsInjective(kids(i))
                            /\ ToSet(kids(i)) = under(i) /\ kids(i) \in Seq(Int)
  <2> TAKE i \in 1 .. count
  <2>1. /\ kids(i) \in Seq(1 .. count) /\ IsInjective(kids(i)) /\ ToSet(kids(i)) = ToSet(row) \cap under(i)
    BY <1>6, OnlyMembers
  <2>2. (1 .. count) \cap under(i) = under(i)
    BY <1>4
  <2>3. 1 .. count \subseteq Int
    OBVIOUS
  <2> HIDE DEF kids, under
  <2> QED BY <1>6, <2>1, <2>2, <2>3, SeqMonotonic
<1> HIDE DEF kids
<1>8. \A i \in 1 .. count : uids[i] \in Fresh /\ uids[i] \in Int /\ parent(i) \in Int
  <2>1. uids \in Seq(Fresh) /\ DOMAIN uids = 1 .. count /\ Fresh \subseteq Int
    BY FreshRowIs, MaxDepthNat DEF Fresh, Identity
  <2>2. \A i \in 1 .. count : uids[i] \in Fresh
    BY <2>1
  <2>3. \A i \in 1 .. count : parent(i) \in Int
    BY <1>5 DEF None, Root
  <2> QED BY <2>1, <2>2, <2>3
<1> HIDE DEF parent
<1>9. \A i \in 1 .. count : /\ node(i) \in Node /\ node(i).syncId = uids[i] /\ node(i).parent = parent(i)
                            /\ node(i).children = kids(i) /\ ValidNode(node(i))
  <2> TAKE i \in 1 .. count
  <2>1. HasKids(node(i), NewNode(uids[i], parent(i)), kids(i))
    BY DEF HasKids
  <2>2. uids[i] \in Int /\ parent(i) \in Int /\ kids(i) \in Seq(Int) /\ IsInjective(kids(i))
    BY <1>7, <1>8
  <2> HIDE DEF node
  <2> QED BY <2>1, <2>2, FixtureNode
<1> HIDE DEF node
<1>10. /\ DOMAIN m = 1 .. count /\ m \in [1 .. count -> Node] /\ m = [i \in 1 .. count |-> m[i]]
       /\ \A i \in 1 .. count : /\ m[i].syncId = uids[i] /\ m[i].parent = parent(i)
                                /\ Kids(m, i) = under(i) /\ ValidNode(m[i])
  BY <1>7, <1>9 DEF Kids
<1> HIDE DEF m
<1>11. IsFiniteSet(1 .. count)
  BY <1>4, FS_Interval
<1>12. Cardinality(1 .. count) = count
  BY <1>4, FS_Interval
<1>13. PICK level \in [1 .. MaxNodes -> 0 .. MaxDepth] :
         level[1] = 0 /\ \A i \in 2 .. MaxNodes : level[i] = level[(i - 2) \div 4 + 1] + 1
  BY FixtureAssumption
<1> DEFINE dep == [i \in 1 .. count |-> level[i]]
<1>14. Typed(m)
  BY <1>4, <1>10, <1>11 DEF Typed
<1>15. Linked(m)
  <2>1. Root \in 1 .. count /\ m[Root].parent = None
    BY <1>4, <1>10 DEF Root, parent
  <2>2. \A i \in (1 .. count) \ {Root} : i \in 2 .. count /\ m[i].parent = above(i) /\ above(i) \in 1 .. count
    BY <1>4, <1>5, <1>10 DEF Root, parent
  <2>3. \A i \in (1 .. count) \ {Root} : i \in Kids(m, m[i].parent)
    BY <1>10, <2>2
  <2>4. \A i \in 1 .. count : \A c \in Kids(m, i) : c \in (1 .. count) \ {Root} /\ m[c].parent = i
    <3> TAKE i \in 1 .. count
    <3> TAKE c \in Kids(m, i)
    <3>1. c \in 2 .. count /\ above(c) = i
      BY <1>10
    <3>2. c \in (1 .. count) \ {Root}
      BY <1>4, <3>1 DEF Root
    <3> QED BY <2>2, <3>1, <3>2
  <2> QED BY <1>10, <2>1, <2>2, <2>3, <2>4 DEF Linked
<1>16. Levels(m, dep)
  <2>1. dep \in [1 .. count -> 0 .. MaxDepth] /\ dep[Root] = 0
    BY <1>4, <1>13, MaxDepthNat DEF Root
  <2>2. \A i \in (1 .. count) \ {Root} : dep[i] = dep[m[i].parent] + 1
    <3> TAKE i \in (1 .. count) \ {Root}
    <3>1. i \in 2 .. count /\ i \in 2 .. MaxNodes /\ i \in 1 .. count
      BY <1>4, MaxDepthNat DEF Root
    <3>2. m[i].parent = above(i) /\ above(i) \in 1 .. count
      BY <1>5, <1>10, <3>1 DEF Root, parent
    <3>3. level[i] = level[above(i)] + 1
      BY <1>13, <3>1 DEF above
    <3> QED BY <3>1, <3>2, <3>3
  <2> QED BY <1>10, <2>1, <2>2 DEF Levels
<1>17. IsTree(m)
  BY <1>14, <1>15, <1>16 DEF IsTree, Tree
<1>18. ValidNodes(m) /\ Distinct(m) /\ IdentitiesOf(m) \subseteq Identity
  <2>1. \A i, j \in 1 .. count : uids[i] = uids[j] => i = j
    BY FreshRowIs
  <2>2. Fresh \subseteq Identity
    BY DEF Fresh
  <2> QED BY <1>8, <1>10, <2>1, <2>2 DEF ValidNodes, Distinct, IdentitiesOf
<1>19. IsDocument(doc) /\ ~(doc.layout = "Compact" /\ doc.manual)
  BY DocIs DEF Raw
<1>20. none \in Seq(Int \X Int) /\ DOMAIN none = {} /\ S \in SUBSET Int /\ Root \in Int /\ Root # None
       /\ count + 1 \in Nat
  BY <1>4 DEF Root, None
<1> HIDE DEF none, S
<1>21. /\ e.nodes = m /\ e.connections = none /\ e.layout = doc.layout /\ e.manual = doc.manual
       /\ e.look = doc.look /\ e.selected = Root /\ e.selection = S /\ e.nextId = count + 1
       /\ IsDocument(e)
  BY <1>19, <1>20 DEF IsDocument
<1> HIDE DEF e
<1>22. Joins(e)
  BY <1>20, <1>21 DEF Joins
<1>23. Raw(e, Identity)
  <2>1. 1 .. count \subseteq 1 .. (count + 1) - 1
    BY <1>4
  <2> QED BY <1>4, <1>10, <1>12, <1>17, <1>18, <1>19, <1>20, <1>21, <1>22, <2>1 DEF Raw
<1>24. Fits(e)
  <2>1. IdentitiesOf(m) \subseteq Fresh
    <3>1. \A i \in DOMAIN m : m[i].syncId \in Fresh
      BY <1>8, <1>10
    <3> QED BY <3>1 DEF IdentitiesOf
  <2>2. nodes[Root].syncId \in used
    <3>1. Root \in DOMAIN nodes /\ IdentitiesOf(doc.nodes) \subseteq used
      BY NodesAre, DocIs DEF Sound, Raw
    <3> QED BY <3>1 DEF IdentitiesOf, nodes
  <2>3. IdentitiesOf(m) \cap used = {}
    BY <2>1 DEF Fresh
  <2> QED BY <1>21, <2>1, <2>2, <2>3 DEF Fits, Fresh
<1> QED BY <1>3, <1>23, <1>24, RebuildCommand

-----------------------------------------------------------------------------
(***************************************************************************)
(* The clipboard.                                                          *)
(***************************************************************************)
LEMMA OwnMembers ==
  ASSUME NEW n \in Nat, NEW f, f = [k \in 1 .. n |-> f[k]]
  PROVE  f \in Seq(ToSet(f)) /\ Len(f) = n /\ DOMAIN f = 1 .. n
<1>1. DOMAIN f = 1 .. n
  OBVIOUS
<1>2. f \in [1 .. n -> ToSet(f)]
  BY <1>1 DEF ToSet
<1> QED BY <1>1, <1>2

\* A record with other links.
Linking(y, x, p, c) == y = [x EXCEPT !.parent = p, !.children = c]

LEMMA LinkedRecord ==
  ASSUME NEW x, Record(x), NEW p, NEW c, c \in Seq(ToSet(c)), NEW y, Linking(y, x, p, c)
  PROVE  Record(y) /\ y.syncId = x.syncId /\ y.parent = p /\ y.children = c
<1>1. x \in [syncId : Int, parent : {x.parent}, children : Seq(ToSet(x.children)), kind : Kind,
             meeting : BOOLEAN, task : BOOLEAN, checked : BOOLEAN, folded : BOOLEAN,
             content : Content]
  BY DEF Record
<1>2. y \in [syncId : Int, parent : {p}, children : Seq(ToSet(c)), kind : Kind,
             meeting : BOOLEAN, task : BOOLEAN, checked : BOOLEAN, folded : BOOLEAN,
             content : Content]
      /\ y.syncId = x.syncId /\ y.parent = p /\ y.children = c
  BY <1>1 DEF Linking
<1> QED BY <1>2 DEF Record

LEMMA NumberedRecords ==
  ASSUME NEW d, NEW order \in Seq(DOMAIN d), \A i \in DOMAIN d : Record(d[i]),
         NEW first \in Nat, NEW parent
  PROVE  /\ DOMAIN Numbered(d, order, first, parent) = first .. first + Len(order) - 1
         /\ Numbered(d, order, first, parent)
              = [n \in first .. first + Len(order) - 1 |-> Numbered(d, order, first, parent)[n]]
         /\ \A n \in first .. first + Len(order) - 1 : Record(Numbered(d, order, first, parent)[n])
<1> DEFINE number(i) == IF i \in ToSet(order) THEN first + Position(order, i) - 1 ELSE parent
           at(n) == d[order[n - first + 1]]
           kids(n) == [k \in DOMAIN at(n).children |-> number(at(n).children[k])]
           node(n) == [at(n) EXCEPT !.parent = number(at(n).parent), !.children = kids(n)]
           m == [n \in first .. first + Len(order) - 1 |-> node(n)]
<1>1. m = [n \in first .. first + Len(order) - 1 |->
            [d[order[n - first + 1]] EXCEPT !.parent = number(@),
                                            !.children = [k \in DOMAIN @ |-> number(@[k])]]]
  OBVIOUS
<1>2. Numbered(d, order, first, parent) = m
  <2> DEFINE g == [n \in first .. first + Len(order) - 1 |->
                    [d[order[n - first + 1]] EXCEPT !.parent = number(@),
                                                    !.children = [k \in DOMAIN @ |-> number(@[k])]]]
  <2>1. Numbered(d, order, first, parent) = Table(g)
    BY DEF Numbered
  <2>2. g = m
    BY <1>1
  <2> HIDE DEF g, m
  <2> QED BY <2>1, <2>2, TableIs
<1> HIDE DEF number
<1>3. ASSUME NEW n \in first .. first + Len(order) - 1 PROVE Record(node(n))
  <2>1. Len(order) \in Nat /\ n - first + 1 \in 1 .. Len(order)
    BY LenProperties
  <2>2. order[n - first + 1] \in DOMAIN d
    BY <2>1, ElementOfSeq
  <2> DEFINE x == at(n)
             c == kids(n)
             p == number(x.parent)
             y == node(n)
  <2>3. Record(x)
    BY <2>2
  <2>4. c = [k \in DOMAIN x.children |-> number(x.children[k])] /\ Linking(y, x, p, c)
    BY DEF Linking
  <2> HIDE DEF x, p, y, c
  <2>5. x.children \in Seq(ToSet(x.children))
    BY <2>3 DEF Record
  <2>6. DOMAIN x.children = 1 .. Len(x.children) /\ Len(x.children) \in Nat
    BY <2>5, LenProperties
  <2>7. c = [k \in 1 .. Len(x.children) |-> c[k]]
    BY <2>4, <2>6
  <2>8. c \in Seq(ToSet(c))
    BY <2>6, <2>7, OwnMembers
  <2>9. Record(y)
    BY <2>3, <2>4, <2>8, LinkedRecord
  <2> QED BY <2>9 DEF y
<1> HIDE DEF node
<1>4. DOMAIN m = first .. first + Len(order) - 1 /\ m = [n \in first .. first + Len(order) - 1 |-> m[n]]
      /\ \A n \in first .. first + Len(order) - 1 : Record(m[n])
  BY <1>3
<1> HIDE DEF m
<1> QED BY <1>2, <1>4

\* Edges are pairs.
Paired(edges) ==
  edges \in Seq(ToSet(edges)) /\ \A k \in DOMAIN edges : edges[k] = <<edges[k][1], edges[k][2]>>

LEMMA NumberedPairs ==
  ASSUME NEW edges, edges \in Seq(ToSet(edges)), NEW order, NEW first
  PROVE  Paired(NumberedEdges(edges, order, first))
<1> DEFINE number(i) == first + Position(order, i) - 1
           m == [k \in DOMAIN edges |-> <<number(edges[k][1]), number(edges[k][2])>>]
<1>1. NumberedEdges(edges, order, first) = m
  BY DEF NumberedEdges
<1>2. DOMAIN edges = 1 .. Len(edges) /\ Len(edges) \in Nat
  BY LenProperties
<1> HIDE DEF number
<1>3. m = [k \in 1 .. Len(edges) |-> m[k]] /\ \A k \in 1 .. Len(edges) : m[k] = <<m[k][1], m[k][2]>>
  BY <1>2
<1> HIDE DEF m
<1>4. m \in Seq(ToSet(m)) /\ DOMAIN m = 1 .. Len(edges)
  BY <1>2, <1>3, OwnMembers
<1> QED BY <1>1, <1>3, <1>4 DEF Paired

LEMMA PairsJoined ==
  ASSUME NEW s, Paired(s), NEW t, Paired(t)
  PROVE  Paired(s \o t)
<1> DEFINE T == ToSet(s) \cup ToSet(t)
           u == s \o t
<1>1. s \in Seq(T) /\ t \in Seq(T)
  BY SeqMonotonic DEF Paired
<1> HIDE DEF T
<1>2. u \in Seq(T) /\ DOMAIN u = 1 .. Len(u) /\ Len(u) \in Nat
  BY <1>1, ConcatMembers, LenProperties
<1>3. u \in Seq(ToSet(u)) /\ ToSet(u) = ToSet(s) \cup ToSet(t)
  BY <1>1, <1>2, ConcatMembers, MembersOf
<1>4. \A e \in ToSet(s) \cup ToSet(t) : e = <<e[1], e[2]>>
  BY DEF Paired, ToSet
<1> HIDE DEF u
<1>5. \A k \in DOMAIN u : u[k] \in ToSet(u)
  BY DEF ToSet
<1>6. Paired(u)
  BY <1>3, <1>4, <1>5 DEF Paired
<1> QED BY <1>6 DEF u

\* A file from its parts.
LEMMA FileFrom ==
  ASSUME NEW b, b = [nodes |-> b.nodes, connections |-> b.connections, layout |-> b.layout,
                     manual |-> b.manual, look |-> b.look],
         b.layout \in Layout, b.manual \in BOOLEAN, b.look \in Content,
         Records(b.nodes), Paired(b.connections)
  PROVE  IsFile(b)
<1>1. b \in [nodes : {b.nodes}, connections : Seq(ToSet(b.connections)), layout : Layout,
             manual : BOOLEAN, look : Content]
  BY DEF Paired
<1> QED BY <1>1 DEF IsFile, Paired

LEMMA OutlineOf ==
  ASSUME NEW n, NEW dep, Tree(n, dep), NEW tops \in Seq(DOMAIN n)
  PROVE  Outline(n, tops) \in Seq(DOMAIN n)
<1> DEFINE f == CHOOSE g : Lists(n, g)
           ss == [k \in DOMAIN tops |-> f[tops[k]]]
<1>1. Outline(n, tops) = FlattenSeq(ss)
  BY DEF Outline, Lists
<1>2. \A i \in DOMAIN n : f[i] \in Seq(DOMAIN n)
  BY ListsOf
<1> HIDE DEF f
<1>3. DOMAIN tops = 1 .. Len(tops) /\ Len(tops) \in Nat /\ \A k \in 1 .. Len(tops) : tops[k] \in DOMAIN n
  BY LenProperties, ElementOfSeq
<1>4. ss \in [1 .. Len(tops) -> Seq(DOMAIN n)]
  BY <1>2, <1>3
<1>5. ss \in Seq(Seq(DOMAIN n))
  BY <1>3, <1>4
<1> QED BY <1>1, <1>5, FlatMembers

LEMMA TypedRecord ==
  ASSUME NEW x \in Node
  PROVE  Record(x)
<1>1. x.children \in Seq(Int)
  BY DEF Node
<1>2. x.children \in Seq(ToSet(x.children))
  BY <1>1, MembersOf
<1> QED BY <1>2 DEF Node, Record

\* A root over nodes with the numbers from 2.
FromTwo(m, n) ==
  m = [i \in 2 .. 2 + n - 1 |-> m[i]] /\ \A i \in 2 .. 2 + n - 1 : Record(m[i])

LEMMA RootOver ==
  ASSUME NEW top, Record(top), NEW n \in Nat, NEW m, FromTwo(m, n)
  PROVE  /\ Records(Over(Single(Root, top), m)) /\ DOMAIN Over(Single(Root, top), m) = 1 .. n + 1
         /\ Cardinality(1 .. n + 1) = n + 1
<1> DEFINE one == Single(Root, top)
           o == Over(one, m)
<1>1. DOMAIN one = {Root} /\ one[Root] = top
  BY SingleIs
<1>2. DOMAIN m = 2 .. n + 1 /\ \A i \in 2 .. 2 + n - 1 : Record(m[i])
  BY DEF FromTwo
<1> HIDE DEF one
<1>3. /\ DOMAIN o = DOMAIN one \cup DOMAIN m /\ o[Root] = top
      /\ \A i \in DOMAIN m \ {Root} : o[i] = m[i]
  <2>1. /\ DOMAIN o = DOMAIN one \cup DOMAIN m /\ \A x \in DOMAIN one : o[x] = one[x]
        /\ \A x \in DOMAIN m \ DOMAIN one : o[x] = m[x]
    BY OverIs
  <2> HIDE DEF o
  <2> QED BY <1>1, <2>1
<1>4. o = [i \in DOMAIN o |-> o[i]]
  BY OverMaps
<1> HIDE DEF o
<1>5. DOMAIN o = 1 .. n + 1
  BY <1>1, <1>2, <1>3 DEF Root
<1>6. IsFiniteSet(1 .. n + 1) /\ Cardinality(1 .. n + 1) = n + 1
  <2> DEFINE k == n + 1
  <2>1. k \in Nat \ {0}
    OBVIOUS
  <2> HIDE DEF k
  <2>2. IsFiniteSet(1 .. k)
    BY <2>1, FS_Interval
  <2>3. Cardinality(1 .. k) = k
    <3>1. 1 \in Int /\ k \in Int /\ ~(1 > k) /\ k - 1 + 1 = k
      BY <2>1
    <3> QED BY <3>1, FS_Interval
  <2> QED BY <2>2, <2>3 DEF k
<1>8. \A i \in DOMAIN o : Record(o[i])
  <2> TAKE i \in DOMAIN o
  <2>1. CASE i = Root
    BY <1>3, <2>1
  <2>2. CASE i # Root
    <3>1. i \in 2 .. 2 + n - 1 /\ i \in DOMAIN m
      BY <1>2, <1>5, <2>2 DEF Root
    <3> QED BY <1>2, <1>3, <2>2, <3>1
  <2> QED BY <2>1, <2>2
<1>9. DOMAIN o \subseteq Nat \ {0}
  BY <1>5
<1>10. Records(o)
  BY <1>4, <1>5, <1>6, <1>8, <1>9 DEF Records
<1> QED BY <1>5, <1>6, <1>10 DEF o, one

LEMMA CopyValid ==
  ASSUME Valid, CopyBranches
  PROVE  Valid' /\ Steady
<1> DEFINE tops == BranchRoots(nodes, doc.selection)
           order == Outline(nodes, tops)
           kids == [k \in DOMAIN tops |-> Position(order, tops[k]) + 1]
           top == [NewNode(NoParent, None) EXCEPT !.children = kids]
           m == Numbered(nodes, order, 2, Root)
           kept == Only(doc.connections, {e \in ToSet(doc.connections) : {e[1], e[2]} \subseteq ToSet(order)})
           edges == NumberedEdges(kept, order, 2)
           over == Over(Single(Root, top), m)
           b == [Bytes(doc) EXCEPT !.nodes = over, !.connections = edges]
<1>1. /\ clipboard' = b /\ doc' = doc /\ undo' = undo /\ redo' = redo /\ file' = file /\ path' = path
      /\ saved' = saved /\ edited' = edited /\ session' = session /\ used' = used /\ others' = others
      /\ effort' = effort + 1 /\ effort + 1 <= MaxEffort
  <2>1. b = Copied(tops, order)
    <3>1. Bytes(doc).connections = doc.connections
      BY DEF Bytes
    <3> QED BY <3>1 DEF Copied
  <2> HIDE DEF b
  <2> QED BY <2>1 DEF CopyBranches, Spend
<1>2. PICK dep : Tree(nodes, dep)
  BY DocIs DEF IsTree
<1>3. ValidNodes(nodes) /\ IsDocument(doc) /\ \A i \in DOMAIN nodes : nodes[i] \in Node
  BY DocIs, NodesAre
<1>4. tops \in Seq(DOMAIN nodes)
  BY <1>2, <1>3, BranchRootsOf
<1> HIDE DEF tops
<1>5. order \in Seq(DOMAIN nodes)
  BY <1>2, <1>4, OutlineOf
<1> HIDE DEF order
<1>6. kids \in Seq(ToSet(kids))
  <2>1. DOMAIN tops = 1 .. Len(tops) /\ Len(tops) \in Nat
    BY <1>4, LenProperties
  <2>2. kids = [k \in 1 .. Len(tops) |-> kids[k]]
    BY <2>1
  <2> HIDE DEF kids
  <2> QED BY <2>1, <2>2, OwnMembers
<1> HIDE DEF kids
<1>7. Record(top)
  <2> DEFINE x == NewNode(NoParent, None)
  <2>1. x \in Node
    BY NewNodeIs DEF NoParent, None
  <2>2. top = [x EXCEPT !.children = kids]
    OBVIOUS
  <2> HIDE DEF x, top
  <2>3. Record(x)
    BY <2>1, TypedRecord
  <2>4. x.parent = x.parent /\ top = [x EXCEPT !.parent = x.parent, !.children = kids]
    BY <2>1, <2>2 DEF Node
  <2>5. Linking(top, x, x.parent, kids)
    BY <2>4 DEF Linking
  <2> QED BY <1>6, <2>3, <2>5, LinkedRecord
<1> HIDE DEF top
<1>8. Len(order) \in Nat /\ \A i \in DOMAIN nodes : Record(nodes[i])
  BY <1>3, <1>5, TypedRecord, LenProperties
<1>9. FromTwo(m, Len(order))
  BY <1>5, <1>8, NumberedRecords DEF FromTwo
<1> HIDE DEF m
<1>10. Records(over) /\ DOMAIN over = 1 .. Len(order) + 1 /\ Cardinality(DOMAIN over) = Len(order) + 1
  BY <1>7, <1>8, <1>9, RootOver
<1> HIDE DEF over
<1>11. Paired(edges)
  <2>1. doc.connections \in Seq(Int \X Int)
    BY <1>3 DEF IsDocument
  <2>2. kept \in Seq(Int \X Int)
    BY <2>1, OnlyMembers
  <2> HIDE DEF kept
  <2>3. kept \in Seq(ToSet(kept))
    BY <2>2, MembersOf
  <2> QED BY <2>3, NumberedPairs
<1> HIDE DEF edges
<1>12. /\ b.nodes = over /\ b.connections = edges /\ b.layout \in Layout /\ b.manual \in BOOLEAN
       /\ b.look \in Content
       /\ b = [nodes |-> b.nodes, connections |-> b.connections, layout |-> b.layout,
               manual |-> b.manual, look |-> b.look]
  <2>1. doc.layout \in Layout /\ doc.manual \in BOOLEAN /\ doc.look \in Content
    BY <1>3 DEF IsDocument
  <2>2. b = [nodes |-> over, connections |-> edges, layout |-> doc.layout, manual |-> doc.manual,
             look |-> doc.look]
    <3> DEFINE base == Bytes(doc)
    <3>1. base = [nodes |-> doc.nodes, connections |-> doc.connections, layout |-> doc.layout,
                  manual |-> doc.manual, look |-> doc.look]
      BY DEF Bytes
    <3>2. b = [base EXCEPT !.nodes = over, !.connections = edges]
      OBVIOUS
    <3> HIDE DEF base, b
    <3> QED BY <3>1, <3>2
  <2> HIDE DEF b
  <2> QED BY <2>1, <2>2
<1> HIDE DEF b
<1>13. IsFile(b) /\ DOMAIN b.nodes = 1 .. Cardinality(DOMAIN b.nodes)
  <2>1. IsFile(b)
    BY <1>10, <1>11, <1>12, FileFrom
  <2> QED BY <1>10, <1>12, <2>1
<1>14. ClipboardTyped'
  BY <1>1, <1>13 DEF ClipboardTyped
<1>15. StatesSound' /\ effort' \in 0 .. MaxEffort
  <2>1. StatesSound'
    BY <1>1 DEF Valid, StatesSound, States
  <2>2. effort' \in 0 .. MaxEffort
    BY <1>1, EditorAssumption DEF Valid
  <2> QED BY <2>1, <2>2
<1>16. Valid'
  BY <1>1, <1>14, <1>15 DEF Valid, HistoryTyped, FileTyped
<1>17. Steady
  <2>1. States' \subseteq States \cup {doc'}
    BY <1>1 DEF States
  <2>2. doc' = doc /\ session' = session /\ used' = used /\ others' = others
    BY <1>1
  <2>3. WordsStay
    <3>1. doc \in States /\ Words(doc'.nodes) = Words(doc.nodes)
      BY <2>2 DEF States
    <3> QED BY <2>2, <3>1 DEF WordsStay
  <2> QED BY <2>1, <2>2, <2>3 DEF Steady, RootStays, nodes
<1> QED BY <1>16, <1>17

LEMMA RecordsOver ==
  ASSUME NEW m, Records(m), NEW new, Records(new)
  PROVE  /\ Records(Over(m, new))
         /\ IdentitiesOf(Over(m, new)) \subseteq IdentitiesOf(m) \cup IdentitiesOf(new)
<1> DEFINE o == Over(m, new)
<1>1. /\ DOMAIN o = DOMAIN m \cup DOMAIN new /\ \A x \in DOMAIN m : o[x] = m[x]
      /\ \A x \in DOMAIN new \ DOMAIN m : o[x] = new[x]
  BY OverIs
<1>2. o = [x \in DOMAIN o |-> o[x]]
  BY OverMaps
<1> HIDE DEF o
<1>3. /\ IsFiniteSet(DOMAIN m) /\ DOMAIN m \subseteq Nat \ {0} /\ \A i \in DOMAIN m : Record(m[i])
      /\ IsFiniteSet(DOMAIN new) /\ DOMAIN new \subseteq Nat \ {0} /\ \A i \in DOMAIN new : Record(new[i])
  BY DEF Records
<1>4. IsFiniteSet(DOMAIN o)
  <2>1. IsFiniteSet(DOMAIN m \cup DOMAIN new)
    BY <1>3, FS_Union, Zenon
  <2> QED BY <1>1, <2>1, Zenon
<1>5. \A i \in DOMAIN o : (i \in DOMAIN m /\ o[i] = m[i]) \/ (i \in DOMAIN new /\ o[i] = new[i])
  BY <1>1
<1>6. \A i \in DOMAIN o : Record(o[i])
  BY <1>3, <1>5
<1>7. Records(o)
  <2>1. DOMAIN o \subseteq Nat \ {0}
    BY <1>1, <1>3
  <2> QED BY <1>2, <1>4, <1>6, <2>1 DEF Records
<1>8. IdentitiesOf(o) \subseteq IdentitiesOf(m) \cup IdentitiesOf(new)
  BY <1>5 DEF IdentitiesOf
<1> QED BY <1>7, <1>8 DEF o

\* A node that takes in children, and unfolds.
Hosting(f, n, i, ch) == f = [n EXCEPT ![i].children = ch, ![i].folded = FALSE]

LEMMA HostOf ==
  ASSUME NEW n, Typed(n), NEW i \in DOMAIN n, NEW ch \in Seq(Int), NEW f, Hosting(f, n, i, ch)
  PROVE  /\ Records(f) /\ IdentitiesOf(f) = IdentitiesOf(n)
         /\ DOMAIN f = DOMAIN n /\ \A j \in DOMAIN n : f[j].syncId = n[j].syncId
<1>1. n \in [DOMAIN n -> Node] /\ n[i] \in Node /\ IsFiniteSet(DOMAIN n) /\ DOMAIN n \subseteq Nat \ {0}
  BY DEF Typed
<1>2. /\ DOMAIN f = DOMAIN n /\ f[i] = [n[i] EXCEPT !.children = ch, !.folded = FALSE]
      /\ \A j \in DOMAIN n : j # i => f[j] = n[j]
  BY <1>1 DEF Node, Hosting
<1>3. f = [j \in DOMAIN f |-> f[j]]
  BY <1>1 DEF Hosting
<1>4. f[i] \in Node /\ f[i].syncId = n[i].syncId
  <2> DEFINE x == n[i]
             y == f[i]
  <2>1. y = [x EXCEPT !.children = ch, !.folded = FALSE] /\ x \in Node
    BY <1>1, <1>2
  <2> HIDE DEF x, y
  <2>2. y \in Node /\ y.syncId = x.syncId
    BY <2>1 DEF Node
  <2> QED BY <2>2 DEF x, y
<1>5. \A j \in DOMAIN n : f[j] \in Node /\ f[j].syncId = n[j].syncId
  <2> TAKE j \in DOMAIN n
  <2>1. CASE j = i
    BY <1>4, <2>1
  <2>2. CASE j # i
    <3>1. f[j] = n[j] /\ n[j] \in Node
      BY <1>1, <1>2, <2>2
    <3> QED BY <3>1
  <2> QED BY <2>1, <2>2
<1>6. \A j \in DOMAIN f : Record(f[j])
  BY <1>2, <1>5, TypedRecord
<1>7. Records(f)
  BY <1>1, <1>2, <1>3, <1>6 DEF Records
<1> QED BY <1>2, <1>5, <1>7 DEF IdentitiesOf

LEMMA LoadedCommand ==
  ASSUME Valid, NEW b, IsFile(b), Loadable(b), IdentitiesOf(b.nodes) \subseteq Identity,
         b.nodes[Root].syncId = nodes[Root].syncId, NEW s \in Int, s # None, NEW S \in SUBSET Int,
         IdentitiesOf(b.nodes) \cap used \subseteq IdentitiesOf(nodes),
         Command(Rebuild([Loaded(b) EXCEPT !.selection = S, !.selected = s]))
  PROVE  Valid' /\ Steady
<1> DEFINE l == Loaded(b)
           e == [l EXCEPT !.selected = s, !.selection = S]
           g == [l EXCEPT !.selection = S, !.selected = s]
<1>1. Sound(l, Identity) /\ Alike(l.nodes, b.nodes)
  BY LoadedSound
<1>2. Command(Rebuild(g))
  OBVIOUS
<1> HIDE DEF l
<1>3. Raw(l, Identity) /\ Fits(l)
  <2>1. Root \in DOMAIN l.nodes
    BY <1>1 DEF Sound, Raw, IsTree, Tree, Linked
  <2>2. IdentitiesOf(l.nodes) = IdentitiesOf(b.nodes)
    BY <1>1 DEF Alike, IdentitiesOf
  <2> QED BY <1>1, <2>1, <2>2 DEF Sound, Fits, Alike
<1>4. g = e
  <2>1. IsDocument(l)
    BY <1>3 DEF Raw
  <2>2. l = [nodes |-> l.nodes, connections |-> l.connections, layout |-> l.layout, manual |-> l.manual,
             look |-> l.look, selected |-> l.selected, selection |-> l.selection, nextId |-> l.nextId]
    BY <2>1 DEF IsDocument
  <2> QED BY <2>2
<1>5. Raw(e, Identity)
  BY <1>3, SelectRaw
<1>6. Fits(e)
  BY <1>3, SelectFits
<1> HIDE DEF e, g
<1> QED BY <1>2, <1>4, <1>5, <1>6, RebuildCommand

\* What is pasted, and the document with it, is a file for the loader to judge.
LEMMA PastedFile ==
  ASSUME Valid, HasSelected, NEW b, IsFile(b), Loadable(b), b.nodes[Root].children # <<>>,
         DOMAIN b.nodes = 1 .. Cardinality(DOMAIN b.nodes),
         NEW uids \in FreshRow(Cardinality(DOMAIN b.nodes) - 1)
  PROVE  /\ IsFile(Bytes(Pasted(b, uids))) /\ IdentitiesOf(Bytes(Pasted(b, uids)).nodes) \subseteq Identity
         /\ Pasted(b, uids).selected \in Int /\ Pasted(b, uids).selected # None
         /\ Pasted(b, uids).selection \in SUBSET Int
         /\ Bytes(Pasted(b, uids)).nodes[Root].syncId = nodes[Root].syncId
         /\ IdentitiesOf(Bytes(Pasted(b, uids)).nodes) \cap used \subseteq IdentitiesOf(nodes)
<1> DEFINE count == Cardinality(DOMAIN b.nodes)
           imported == Loaded(b)
           order == [k \in 1 .. count - 1 |-> k + 1]
           first == doc.nextId
           branches == Numbered(b.nodes, order, first, Selected)
           kids == imported.nodes[Root].children
           tops == [k \in DOMAIN kids |-> first + Position(order, kids[k]) - 1]
           name(n) == uids[n - first + 1]
           named == [n \in DOMAIN branches |-> [branches[n] EXCEPT !.syncId = name(n)]]
           ch == After(nodes[Selected].children, None, tops)
           f == [nodes EXCEPT ![Selected].children = ch, ![Selected].folded = FALSE]
           over == Over(f, named)
           edges == NumberedEdges(imported.connections, order, first)
           joined == doc.connections \o edges
           next == doc.nextId + Cardinality(DOMAIN named)
           top == tops[1]
           S == ToSet(tops)
           e == [doc EXCEPT !.nodes = over, !.nextId = next, !.connections = joined,
                            !.selected = top, !.selection = S]
<1>1. Pasted(b, uids) = [[doc EXCEPT !.nodes = over, !.nextId = next]
                           EXCEPT !.connections = @ \o edges, !.selected = top, !.selection = S]
  BY DEF Pasted, Grown, GrownIn, nodes
<1>2. /\ first \in Nat /\ first >= 2 /\ Selected \in DOMAIN nodes /\ IsDocument(doc)
      /\ IdentitiesOf(nodes) \subseteq Identity /\ Typed(nodes) /\ nodes[Selected] \in Node
  <2>1. Selected \in DOMAIN nodes /\ IsDocument(doc) /\ IsTree(nodes) /\ Raw(doc, Identity)
    BY DocIs DEF HasSelected
  <2>2. Typed(nodes) /\ IdentitiesOf(nodes) \subseteq Identity
    BY <2>1 DEF IsTree, Tree, Raw, nodes
  <2> QED BY <2>1, <2>2, NextIs, NodesAre
<1>3. /\ Sound(imported, IdentitiesOf(b.nodes)) /\ Alike(imported.nodes, b.nodes) /\ IsTree(b.nodes)
      /\ Records(b.nodes)
  BY LoadedSound DEF IsFile
<1>4. PICK dep : Tree(b.nodes, dep)
  BY <1>3 DEF IsTree
<1>5. /\ Root \in DOMAIN b.nodes /\ kids = b.nodes[Root].children /\ b.nodes[Root] \in Node
      /\ ToSet(kids) \subseteq DOMAIN b.nodes \ {Root} /\ kids \in Seq(Int) /\ kids # <<>>
      /\ IsFiniteSet(DOMAIN b.nodes)
  <2>1. Root \in DOMAIN b.nodes /\ b.nodes[Root] \in Node /\ IsFiniteSet(DOMAIN b.nodes)
    BY <1>4 DEF Tree, Linked, Typed
  <2>2. kids = b.nodes[Root].children
    BY <1>3, <2>1 DEF Alike
  <2>3. Kids(b.nodes, Root) \subseteq DOMAIN b.nodes \ {Root}
    BY <1>4, <2>1, KidsDeeper
  <2> QED BY <2>1, <2>2, <2>3 DEF Kids, Node
<1>6. count \in Nat /\ count >= 1
  <2>1. count \in Nat
    BY <1>5, FS_CardinalityType
  <2> QED BY <1>5, <2>1 DEF Root
<1>7. \A n \in 1 .. count - 1 : uids[n] \in Fresh /\ uids[n] \in Identity /\ uids[n] \in Int
  <2>1. uids \in Seq(Fresh) /\ Len(uids) = count - 1 /\ Fresh \subseteq Identity /\ Identity \subseteq Int
    BY FreshRowIs, MaxDepthNat DEF Fresh, Identity
  <2>2. \A n \in 1 .. count - 1 : uids[n] \in Fresh
    BY <2>1, ElementOfSeq
  <2> QED BY <2>1, <2>2
<1>8. DOMAIN b.nodes = 1 .. count
  OBVIOUS
<1> HIDE DEF count
<1>9. /\ order \in Seq(1 .. count) /\ ToSet(order) = 2 .. count /\ Len(order) = count - 1
  <2>1. order \in [1 .. count - 1 -> 1 .. count] /\ count - 1 \in Nat
    BY <1>6
  <2>2. ToSet(order) = 2 .. count
    BY <1>6 DEF ToSet
  <2> DEFINE n == count - 1
  <2>3. order = [k \in 1 .. n |-> order[k]] /\ n \in Nat
    BY <2>1
  <2> HIDE DEF order, n
  <2>4. order \in Seq(ToSet(order)) /\ Len(order) = n
    BY <2>3, OwnMembers
  <2>5. ToSet(order) \subseteq 1 .. count
    BY <1>6, <2>2
  <2>6. order \in Seq(1 .. count)
    BY <2>4, <2>5, SeqMonotonic
  <2> QED BY <2>2, <2>4, <2>6 DEF n
<1> HIDE DEF order
<1>10. kids \in Seq(2 .. count)
  <2>1. ToSet(kids) \subseteq 2 .. count
    BY <1>5, <1>6, <1>8 DEF Root
  <2> HIDE DEF kids
  <2>2. kids \in Seq(ToSet(kids))
    BY <1>5, MembersOf
  <2> QED BY <2>1, <2>2, SeqMonotonic
<1> HIDE DEF kids
<1>11. tops \in Seq(Int) /\ DOMAIN tops = 1 .. Len(kids) /\ Len(kids) \in Nat \ {0}
       /\ \A k \in 1 .. Len(kids) : tops[k] >= first
  <2>1. DOMAIN kids = 1 .. Len(kids) /\ Len(kids) \in Nat /\ \A k \in 1 .. Len(kids) : kids[k] \in 2 .. count
    BY <1>10, LenProperties
  <2>2. Len(kids) # 0
    BY <1>5, EmptySeq
  <2>3. \A k \in 1 .. Len(kids) : Position(order, kids[k]) \in 1 .. count - 1
    BY <1>9, <2>1, PositionOf
  <2>4. \A k \in 1 .. Len(kids) : first + Position(order, kids[k]) - 1 \in Int
                                  /\ first + Position(order, kids[k]) - 1 >= first
    BY <1>2, <1>6, <2>3
  <2>5. tops = [k \in 1 .. Len(kids) |-> first + Position(order, kids[k]) - 1]
    BY <2>1
  <2> HIDE DEF tops, first
  <2>6. tops \in [1 .. Len(kids) -> Int]
    BY <2>4, <2>5
  <2> QED BY <2>1, <2>2, <2>4, <2>5, <2>6
<1> HIDE DEF tops
<1>12. top \in Int /\ top # None /\ S \in SUBSET Int
  <2>1. 1 \in 1 .. Len(kids)
    BY <1>11
  <2>2. top \in Int /\ top >= first
    BY <1>11, <2>1
  <2>3. top # None
    BY <1>2, <2>2 DEF None
  <2>4. S \subseteq Int
    BY <1>11, MembersOf
  <2> QED BY <2>2, <2>3, <2>4
<1> HIDE DEF top, S
<1>13. /\ DOMAIN branches = first .. first + (count - 1) - 1
       /\ \A n \in first .. first + (count - 1) - 1 : Record(branches[n])
  <2>1. order \in Seq(DOMAIN b.nodes) /\ \A i \in DOMAIN b.nodes : Record(b.nodes[i])
    BY <1>3, <1>8, <1>9 DEF Records
  <2> QED BY <1>2, <1>9, <2>1, NumberedRecords
<1> HIDE DEF branches
<1>14. Records(named) /\ IdentitiesOf(named) \subseteq Fresh
  <2>1. ASSUME NEW n \in first .. first + (count - 1) - 1
        PROVE  Record([branches[n] EXCEPT !.syncId = name(n)])
               /\ [branches[n] EXCEPT !.syncId = name(n)].syncId = name(n) /\ name(n) \in Fresh
    <3> DEFINE x == branches[n]
               u == name(n)
               y == [x EXCEPT !.syncId = u]
    <3>1. n - first + 1 \in 1 .. count - 1
      BY <1>2, <1>6
    <3>2. u \in Int /\ u \in Fresh /\ Record(x)
      BY <1>7, <1>13, <3>1
    <3> HIDE DEF x, u
    <3>3. x \in [syncId : Int, parent : {x.parent}, children : Seq(ToSet(x.children)), kind : Kind,
                 meeting : BOOLEAN, task : BOOLEAN, checked : BOOLEAN, folded : BOOLEAN,
                 content : Content]
      BY <3>2 DEF Record
    <3>4. y \in [syncId : Int, parent : {x.parent}, children : Seq(ToSet(x.children)), kind : Kind,
                 meeting : BOOLEAN, task : BOOLEAN, checked : BOOLEAN, folded : BOOLEAN,
                 content : Content]
          /\ y.syncId = u /\ y.parent = x.parent /\ y.children = x.children
      BY <3>2, <3>3
    <3> HIDE DEF y
    <3>5. Record(y) /\ y.syncId = u /\ u \in Fresh
      BY <3>2, <3>4 DEF Record
    <3> QED BY <3>5 DEF x, u, y
  <2> DEFINE node(n) == [branches[n] EXCEPT !.syncId = name(n)]
  <2>2. named = [n \in first .. first + (count - 1) - 1 |-> node(n)]
    BY <1>13
  <2>3. \A n \in first .. first + (count - 1) - 1 : Record(node(n)) /\ node(n).syncId \in Fresh
    BY <2>1
  <2> HIDE DEF node, named, first
  <2>4. /\ DOMAIN named = first .. first + (count - 1) - 1 /\ named = [n \in DOMAIN named |-> named[n]]
        /\ \A n \in DOMAIN named : Record(named[n]) /\ named[n].syncId \in Fresh
    BY <2>2, <2>3
  <2>5. IsFiniteSet(DOMAIN named)
    <3> DEFINE last == first + (count - 1) - 1
    <3>1. first \in Int /\ last \in Int
      BY <1>2, <1>6 DEF first
    <3> HIDE DEF last
    <3>2. IsFiniteSet(first .. last)
      BY <3>1, FS_Interval
    <3> QED BY <2>4, <3>2 DEF last
  <2>6. DOMAIN named \subseteq Nat \ {0}
    BY <1>2, <1>6, <2>4 DEF first
  <2> QED BY <2>4, <2>5, <2>6 DEF Records, IdentitiesOf
<1>14a. Fresh \subseteq Identity /\ Fresh \cap used = {}
  BY DEF Fresh
<1> HIDE DEF named, first
<1>15. ch \in Seq(Int)
  <2>1. nodes[Selected].children \in Seq(Int)
    BY <1>2 DEF Node
  <2> QED BY <1>11, <2>1, Inserted
<1> HIDE DEF ch
<1>16. /\ Records(f) /\ IdentitiesOf(f) = IdentitiesOf(nodes)
       /\ Root \in DOMAIN f /\ f[Root].syncId = nodes[Root].syncId
  <2>1. Hosting(f, nodes, Selected, ch)
    BY DEF Hosting
  <2> HIDE DEF f
  <2>2. Root \in DOMAIN nodes
    BY NodesAre
  <2> QED BY <1>2, <1>15, <2>1, <2>2, HostOf
<1> HIDE DEF f
<1>17. /\ Records(over) /\ IdentitiesOf(over) \subseteq Identity
       /\ IdentitiesOf(over) \cap used \subseteq IdentitiesOf(nodes)
       /\ over[Root].syncId = nodes[Root].syncId
  <2>1. over[Root] = f[Root]
    BY <1>16, OverIs
  <2> HIDE DEF over
  <2>2. Records(over) /\ IdentitiesOf(over) \subseteq IdentitiesOf(f) \cup IdentitiesOf(named)
    BY <1>14, <1>16, RecordsOver DEF over
  <2> QED BY <1>2, <1>14, <1>14a, <1>16, <2>1, <2>2
<1> HIDE DEF over
<1>18. Paired(joined)
  <2>1. doc.connections \in Seq(Int \X Int) /\ imported.connections \in Seq(Int \X Int)
    BY <1>2, <1>3 DEF IsDocument, Sound, Raw
  <2>2. Paired(doc.connections)
    <3>1. doc.connections \in Seq(ToSet(doc.connections)) /\ ToSet(doc.connections) \subseteq Int \X Int
      BY <2>1, MembersOf
    <3>2. \A k \in DOMAIN doc.connections : doc.connections[k] \in Int \X Int
      BY <3>1 DEF ToSet
    <3> QED BY <3>1, <3>2 DEF Paired
  <2> HIDE DEF imported
  <2>3. imported.connections \in Seq(ToSet(imported.connections))
    BY <2>1, MembersOf
  <2>4. Paired(edges)
    BY <2>3, NumberedPairs
  <2> HIDE DEF edges
  <2> QED BY <2>2, <2>4, PairsJoined
<1>19. Pasted(b, uids) = e
  <2> HIDE DEF next, edges
  <2>1. [doc EXCEPT !.nodes = over, !.nextId = next].connections = doc.connections
    BY <1>2 DEF IsDocument
  <2>2. [[doc EXCEPT !.nodes = over, !.nextId = next]
           EXCEPT !.connections = doc.connections \o edges, !.selected = top, !.selection = S] = e
    OBVIOUS
  <2> HIDE DEF e
  <2> QED BY <1>1, <2>1, <2>2
<1> HIDE DEF joined, next
<1>20. /\ e.nodes = over /\ e.connections = joined /\ e.layout \in Layout /\ e.manual \in BOOLEAN
       /\ e.look \in Content /\ e.selected = top /\ e.selection = S
  BY <1>2 DEF IsDocument
<1> HIDE DEF e
<1> DEFINE c == Bytes(e)
<1>21. /\ c.nodes = over /\ c.connections = joined /\ c.layout \in Layout /\ c.manual \in BOOLEAN
       /\ c.look \in Content
       /\ c = [nodes |-> c.nodes, connections |-> c.connections, layout |-> c.layout,
               manual |-> c.manual, look |-> c.look]
  BY <1>20 DEF Bytes
<1> HIDE DEF c
<1>22. IsFile(c)
  BY <1>17, <1>18, <1>21, FileFrom
<1> QED BY <1>12, <1>17, <1>19, <1>20, <1>21, <1>22 DEF c

LEMMA PasteDataValid ==
  ASSUME Valid, NEW b, IsFile(b), DOMAIN b.nodes = 1 .. Cardinality(DOMAIN b.nodes), PasteBranchData(b)
  PROVE  Valid' /\ Steady
<1>1. Loadable(b) /\ b.nodes[Root].children # <<>> /\ HasSelected
  BY DEF PasteBranchData
<1>2. PICK uids \in FreshRow(Cardinality(DOMAIN b.nodes) - 1) :
        \E merged \in {Pasted(b, uids)} :
          /\ Loadable(Bytes(merged))
          /\ Command(Rebuild([Loaded(Bytes(merged)) EXCEPT
                                !.selection = merged.selection, !.selected = merged.selected]))
  BY DEF PasteBranchData
<1> DEFINE merged == Pasted(b, uids)
           c == Bytes(merged)
           S == merged.selection
           s == merged.selected
<1>3. Loadable(c) /\ Command(Rebuild([Loaded(c) EXCEPT !.selection = S, !.selected = s]))
  BY <1>2
<1>4. /\ IsFile(c) /\ IdentitiesOf(c.nodes) \subseteq Identity /\ s \in Int /\ s # None /\ S \in SUBSET Int
      /\ c.nodes[Root].syncId = nodes[Root].syncId
      /\ IdentitiesOf(c.nodes) \cap used \subseteq IdentitiesOf(nodes)
  BY <1>1, PastedFile
<1> HIDE DEF c, s, S
<1> QED BY <1>3, <1>4, LoadedCommand

LEMMA LinesFile ==
  ASSUME NEW parents \in Seq(Int)
  PROVE  /\ IsFile(FromLines(parents))
         /\ DOMAIN FromLines(parents).nodes = 1 .. Cardinality(DOMAIN FromLines(parents).nodes)
<1> DEFINE n == Len(parents) + 1
           row == [k \in DOMAIN parents |-> k + 1]
           under(i) == {k \in 2 .. n : parents[k - 1] = i}
           kids(i) == Only(row, under(i))
           above(i) == IF i = Root THEN None ELSE parents[i - 1]
           node(i) == [NewNode(1 - i, above(i)) EXCEPT !.children = kids(i)]
           m == [i \in 1 .. n |-> node(i)]
           base == Bytes(Blank(NoParent))
           none == <<>>
           b == [base EXCEPT !.nodes = m]
<1>1. b = FromLines(parents)
  <2> HIDE DEF m
  <2>1. FromLines(parents) = [base EXCEPT !.nodes = Table(m)]
    BY DEF FromLines, m
  <2>2. Table(m) = m
    BY TableIs
  <2> QED BY <2>1, <2>2
<1>2. Len(parents) \in Nat /\ DOMAIN parents = 1 .. Len(parents)
  BY LenProperties
<1>3. row \in Seq(Int)
  <2>1. row = [k \in 1 .. Len(parents) |-> row[k]] /\ ToSet(row) \subseteq Int
    BY <1>2 DEF ToSet
  <2> HIDE DEF row
  <2>2. row \in Seq(ToSet(row))
    BY <1>2, <2>1, OwnMembers
  <2> QED BY <2>1, <2>2, SeqMonotonic
<1> HIDE DEF row
<1>4. ASSUME NEW i \in 1 .. n PROVE Record(node(i))
  <2>1. kids(i) \in Seq(Int)
    BY <1>3, OnlyMembers
  <2>2. 1 - i \in Int /\ above(i) \in Int
    <3>1. CASE i = Root
      BY <3>1 DEF None
    <3>2. CASE i # Root
      <4>1. i - 1 \in 1 .. Len(parents)
        BY <1>2, <3>2 DEF Root
      <4>2. parents[i - 1] \in Int
        BY <4>1, ElementOfSeq
      <4> QED BY <3>2, <4>2
    <3> QED BY <3>1, <3>2
  <2> DEFINE x == NewNode(1 - i, above(i))
             y == node(i)
  <2>3. x \in Node
    BY <2>2, NewNodeIs
  <2>4. y = [x EXCEPT !.children = kids(i)]
    OBVIOUS
  <2> HIDE DEF x, y, kids
  <2>5. y \in Node
    BY <2>1, <2>3, <2>4 DEF Node
  <2> QED BY <2>5, TypedRecord DEF y
<1> HIDE DEF node
<1>5. /\ DOMAIN m = 1 .. n /\ m = [i \in DOMAIN m |-> m[i]] /\ \A i \in DOMAIN m : Record(m[i])
  BY <1>4
<1> HIDE DEF m
<1>6. IsFiniteSet(1 .. n) /\ Cardinality(1 .. n) = n
  <2>1. n \in Nat \ {0}
    BY <1>2
  <2> HIDE DEF n
  <2>2. IsFiniteSet(1 .. n)
    BY <2>1, FS_Interval
  <2>3. Cardinality(1 .. n) = n
    <3>1. 1 \in Int /\ n \in Int /\ ~(1 > n) /\ n - 1 + 1 = n
      BY <2>1
    <3> QED BY <3>1, FS_Interval
  <2> QED BY <2>2, <2>3
<1>7. Records(m)
  <2>1. DOMAIN m \subseteq Nat \ {0}
    BY <1>2, <1>5
  <2> HIDE DEF n
  <2> QED BY <1>5, <1>6, <2>1 DEF Records
<1>8. b = [nodes |-> m, connections |-> none, layout |-> "Horizontal", manual |-> FALSE, look |-> Plain]
  <2> DEFINE blank == Blank(NoParent)
  <2>1. /\ blank.connections = none /\ blank.layout = "Horizontal" /\ blank.manual = FALSE /\ blank.look = Plain
    BY DEF Blank
  <2> HIDE DEF blank
  <2>2. base = [nodes |-> blank.nodes, connections |-> none, layout |-> "Horizontal", manual |-> FALSE,
                look |-> Plain]
    BY <2>1 DEF Bytes, blank
  <2> HIDE DEF base
  <2>3. b = [base EXCEPT !.nodes = m]
    OBVIOUS
  <2> HIDE DEF b, none
  <2> QED BY <2>2, <2>3
<1>9. Paired(none)
  BY DEF Paired, ToSet
<1> HIDE DEF b, none, n
<1>10. /\ b.nodes = m /\ b.connections = none /\ b.layout \in Layout /\ b.manual \in BOOLEAN /\ b.look \in Content
       /\ b = [nodes |-> b.nodes, connections |-> b.connections, layout |-> b.layout,
               manual |-> b.manual, look |-> b.look]
  BY <1>8, MaxDepthNat DEF Layout
<1>11. IsFile(b)
  BY <1>7, <1>9, <1>10, FileFrom
<1> QED BY <1>1, <1>5, <1>6, <1>10, <1>11

LEMMA PastesValid ==
  ASSUME Valid, PasteBranches \/ PasteOutline
  PROVE  Valid' /\ Steady
<1>1. CASE PasteBranches
  <2>1. clipboard # <<>> /\ PasteBranchData(clipboard)
    BY <1>1 DEF PasteBranches
  <2>2. IsFile(clipboard) /\ DOMAIN clipboard.nodes = 1 .. Cardinality(DOMAIN clipboard.nodes)
    BY <2>1 DEF Valid, ClipboardTyped
  <2> QED BY <2>1, <2>2, PasteDataValid
<1>2. CASE PasteOutline
  <2>1. PICK parents \in {<<Root>>, <<Root, Root>>, <<Root, 2>>} : PasteBranchData(FromLines(parents))
    BY <1>2 DEF PasteOutline
  <2>2. parents \in Seq(Int)
    <3>1. <<1>> \in Seq(Int)
      OBVIOUS
    <3>2. <<1, 1>> \in Seq(Int)
      OBVIOUS
    <3>3. <<1, 2>> \in Seq(Int)
      OBVIOUS
    <3>4. parents = <<1>> \/ parents = <<1, 1>> \/ parents = <<1, 2>>
      BY DEF Root
    <3>5. CASE parents = <<1>>
      BY <3>1, <3>5
    <3>6. CASE parents = <<1, 1>>
      BY <3>2, <3>6
    <3>7. CASE parents = <<1, 2>>
      BY <3>3, <3>7
    <3> QED BY <3>4, <3>5, <3>6, <3>7
  <2> DEFINE b == FromLines(parents)
  <2>3. IsFile(b) /\ DOMAIN b.nodes = 1 .. Cardinality(DOMAIN b.nodes)
    BY <2>2, LinesFile
  <2>4. PasteBranchData(b)
    BY <2>1
  <2> HIDE DEF b
  <2> QED BY <2>3, <2>4, PasteDataValid
<1> QED BY <1>1, <1>2

LEMMA NodeActionsValid ==
  ASSUME Valid, Nodes
  PROVE  Valid' /\ Steady
BY AdditionsValid, TemplatesValid, RemoveValid, MovesValid, FixtureValid, CopyValid, PastesValid DEF Nodes

-----------------------------------------------------------------------------
(***************************************************************************)
(* The history.                                                            *)
(***************************************************************************)
\* A step through the history.
LEMMA RestoreValid ==
  ASSUME Valid, NEW state \in States, Restore(state), HistoryTyped', States' \subseteq States \cup {Rebuild(state)}
  PROVE  Valid'
<1> DEFINE next == Rebuild(state)
<1>1. /\ StatesSound /\ used \in SUBSET Identity /\ FileTyped /\ ClipboardTyped
      /\ SessionTyped(session, used)
      /\ others \in [wrote : {others.wrote}, added : {others.added}, gone : SUBSET Identity]
      /\ effort \in 0 .. MaxEffort
  BY DEF Valid
<1>2. Raw(state, used)
  BY <1>1 DEF StatesSound, Sound
<1>3. Sound(next, used) /\ OnDisplay(next)
  BY <1>2, RebuildSound
<1>4. /\ doc' = next /\ saved' = saved /\ edited' = (Bytes(doc') # saved') /\ session' = Captured(doc, doc')
      /\ file' = file /\ path' = path /\ clipboard' = clipboard /\ used' = used /\ others' = others
      /\ effort' = effort + 1 /\ effort + 1 <= MaxEffort
  BY DEF Restore, Show, Spend
<1> HIDE DEF next
<1>5. StatesSound'
  <2>1. \A s \in States' : Sound(s, used)
    BY <1>1, <1>3 DEF StatesSound, next
  <2> QED BY <1>4, <2>1 DEF StatesSound
<1>6. SessionTyped(session', used')
  <2>1. Sound(doc, used)
    BY DocIs
  <2> QED BY <1>1, <1>3, <1>4, <2>1, CapturedTyped
<1>7. FileTyped' /\ ClipboardTyped'
  BY <1>1, <1>4 DEF FileTyped, ClipboardTyped
<1>8. effort' \in 0 .. MaxEffort
  BY <1>1, <1>4, EditorAssumption
<1> QED BY <1>1, <1>3, <1>4, <1>5, <1>6, <1>7, <1>8 DEF Valid

\* The last state moves from one stack to the document, which moves to the other.
LEMMA StackStep ==
  ASSUME NEW from, from \in Seq(ToSet(from)), NEW to, to \in Seq(ToSet(to)), from # <<>>, NEW d
  PROVE  /\ Front(from) \in Seq(ToSet(Front(from))) /\ Append(to, d) \in Seq(ToSet(Append(to, d)))
         /\ Len(Front(from)) + Len(Append(to, d)) = Len(from) + Len(to)
         /\ ToSet(Front(from)) \subseteq ToSet(from) /\ ToSet(Append(to, d)) = ToSet(to) \cup {d}
         /\ Last(from) \in ToSet(from)
<1>1. Len(from) \in Nat \ {0} /\ Len(to) \in Nat
  BY EmptySeq, LenProperties
<1>2. Front(from) = SubSeq(from, 1, Len(from) - 1)
  BY DEF Front
<1>3. /\ SubSeq(from, 1, Len(from) - 1) \in Seq(ToSet(from))
      /\ Len(SubSeq(from, 1, Len(from) - 1)) = Len(from) - 1
  <2> DEFINE S == ToSet(from)
             n == Len(from)
             m == n - 1
  <2>1. from \in Seq(S) /\ n = Len(from) /\ n \in Nat \ {0} /\ m = n - 1 /\ m \in 0 .. n
    BY <1>1
  <2> HIDE DEF S, n, m
  <2>2. 1 \in 1 .. n + 1 /\ m \in 1 - 1 .. n /\ m \in Nat /\ 1 \in 1 .. Len(from) + 1 /\ m \in 1 - 1 .. Len(from)
    BY <2>1
  <2>3. SubSeq(from, 1, m) \in Seq(S)
    BY <2>1, <2>2, SubSeqMembers
  <2>4. Len(SubSeq(from, 1, m)) = IF 1 <= m THEN m - 1 + 1 ELSE 0
    <3>1. 1 \in Int /\ m \in Int /\ \A i \in 1 .. m : from[i] \in S
      BY <2>1, <2>2, ElementOfSeq
    <3> QED BY <3>1, SubSeqProperties
  <2>5. Len(SubSeq(from, 1, m)) = m
    BY <2>1, <2>2, <2>4
  <2> QED BY <2>1, <2>3, <2>5 DEF S, n, m
<1>4. Front(from) \in Seq(ToSet(from)) /\ Len(Front(from)) = Len(from) - 1
  BY <1>2, <1>3
<1>5. Front(from) \in Seq(ToSet(Front(from))) /\ ToSet(Front(from)) \subseteq ToSet(from)
  BY <1>4, MembersOf
<1> DEFINE T == ToSet(to) \cup {d}
<1>6. to \in Seq(T) /\ d \in T
  BY SeqMonotonic
<1> HIDE DEF T
<1>7. Append(to, d) \in Seq(T) /\ Len(Append(to, d)) = Len(to) + 1 /\ ToSet(Append(to, d)) = ToSet(to) \cup {d}
  BY <1>6, AppendProperties, AppendMembers
<1>8. Append(to, d) \in Seq(ToSet(Append(to, d)))
  BY <1>7, MembersOf
<1>9. Last(from) \in ToSet(from)
  BY MembersOf
<1> QED BY <1>1, <1>4, <1>5, <1>7, <1>8, <1>9

LEMMA HistoryValid ==
  ASSUME Valid, Undo \/ Redo
  PROVE  Valid'
<1>1. /\ undo \in Seq(ToSet(undo)) /\ redo \in Seq(ToSet(redo)) /\ Len(undo) + Len(redo) <= UndoLimit
  BY DEF Valid, HistoryTyped
<1>2. CASE Undo
  <2>1. undo # <<>> /\ undo' = Front(undo) /\ redo' = Append(redo, doc) /\ Restore(Last(undo))
    BY <1>2 DEF Undo
  <2>2. /\ undo' \in Seq(ToSet(undo')) /\ redo' \in Seq(ToSet(redo')) /\ Len(undo') + Len(redo') = Len(undo) + Len(redo)
        /\ ToSet(undo') \subseteq ToSet(undo) /\ ToSet(redo') = ToSet(redo) \cup {doc} /\ Last(undo) \in ToSet(undo)
    <3> DEFINE front == Front(undo)
               longer == Append(redo, doc)
    <3>1. /\ front \in Seq(ToSet(front)) /\ longer \in Seq(ToSet(longer))
          /\ Len(front) + Len(longer) = Len(undo) + Len(redo)
          /\ ToSet(front) \subseteq ToSet(undo) /\ ToSet(longer) = ToSet(redo) \cup {doc}
          /\ Last(undo) \in ToSet(undo)
      BY <1>1, <2>1, StackStep
    <3>2. undo' = front /\ redo' = longer
      BY <2>1
    <3> HIDE DEF front, longer
    <3> QED BY <3>1, <3>2
  <2>3. HistoryTyped' /\ Last(undo) \in States
    BY <1>1, <2>2 DEF HistoryTyped, States
  <2>4. doc' = Rebuild(Last(undo))
    BY <2>1 DEF Restore, Show
  <2>5. States' \subseteq States \cup {Rebuild(Last(undo))}
    BY <2>2, <2>4 DEF States
  <2> QED BY <2>1, <2>3, <2>5, RestoreValid
<1>3. CASE Redo
  <2>1. redo # <<>> /\ redo' = Front(redo) /\ undo' = Append(undo, doc) /\ Restore(Last(redo))
    BY <1>3 DEF Redo
  <2>2. /\ undo' \in Seq(ToSet(undo')) /\ redo' \in Seq(ToSet(redo')) /\ Len(redo') + Len(undo') = Len(redo) + Len(undo)
        /\ ToSet(redo') \subseteq ToSet(redo) /\ ToSet(undo') = ToSet(undo) \cup {doc} /\ Last(redo) \in ToSet(redo)
    BY <1>1, <2>1, StackStep, SMTT(30)
  <2>3. HistoryTyped' /\ Last(redo) \in States
    <3>1. Len(undo) \in Nat /\ Len(redo) \in Nat /\ Len(undo') \in Nat /\ Len(redo') \in Nat
      BY <1>1, <2>2, LenProperties
    <3> QED BY <1>1, <2>2, <3>1 DEF HistoryTyped, States
  <2>4. doc' = Rebuild(Last(redo))
    BY <2>1 DEF Restore, Show
  <2>5. States' \subseteq States \cup {Rebuild(Last(redo))}
    BY <2>2, <2>4 DEF States
  <2> QED BY <2>1, <2>3, <2>5, RestoreValid
<1> QED BY <1>2, <1>3

-----------------------------------------------------------------------------
(***************************************************************************)
(* The file.                                                               *)
(***************************************************************************)
LEMMA SessionsTyped ==
  ASSUME NEW uids \in SUBSET Identity
  PROVE  /\ SessionTyped(NoSession, uids)
         /\ \A d : Sound(d, uids) => SessionTyped(LiveWith(d), uids)
<1> DEFINE none == <<>>
<1>1. none \in Seq(ToSet(none)) /\ Len(none) = 0
  BY DEF ToSet
<1> HIDE DEF none
<1>2. \A k \in 1 .. Len(none) : BatchTyped(none[k], uids)
  BY <1>1
<1>3. SessionTyped(NoSession, uids)
  <2>1. NoSession = [live |-> FALSE, room |-> none, pending |-> none]
    BY DEF NoSession, none
  <2> QED BY <1>1, <2>1 DEF SessionTyped
<1>4. ASSUME NEW d, Sound(d, uids) PROVE SessionTyped(LiveWith(d), uids)
  <2> DEFINE c == Normalize(d)
  <2>1. RoomTyped(c, uids)
    BY <1>4, SoundRoom
  <2>2. LiveWith(d) = [live |-> TRUE, room |-> c, pending |-> none]
    BY DEF LiveWith, none
  <2> HIDE DEF c
  <2> QED BY <1>1, <1>2, <2>1, <2>2 DEF SessionTyped
<1> QED BY <1>3, <1>4

LEMMA BlankSound ==
  ASSUME NEW uids \in SUBSET Identity, NEW u \in uids
  PROVE  Sound(Blank(u), uids) /\ OnDisplay(Blank(u))
<1> DEFINE n == NewNode(u, None)
           m == Single(Root, n)
           d == Blank(u)
<1>1. /\ n \in Node /\ n.syncId = u /\ n.parent = None /\ n.children = <<>> /\ ValidNode(n)
      /\ n.kind = "text" /\ ~n.task
  <2>1. u \in Int /\ None \in Int
    BY DEF Identity, None
  <2> QED BY <2>1, NewNodeIs
<1>2. DOMAIN m = {Root} /\ m[Root] = n /\ m = [i \in {Root} |-> n]
  BY SingleIs DEF Single
<1> HIDE DEF n, m
<1>3. Typed(m)
  <2>1. IsFiniteSet({Root})
    BY FS_Singleton
  <2> QED BY <1>1, <1>2, <2>1 DEF Typed, Root
<1>4. Kids(m, Root) = {}
  BY <1>1, <1>2 DEF Kids, ToSet
<1>5. Tree(m, [i \in {Root} |-> 0])
  <2>1. Linked(m)
    BY <1>1, <1>2, <1>4 DEF Linked
  <2>2. Levels(m, [i \in {Root} |-> 0])
    BY <1>2, MaxDepthNat DEF Levels
  <2> QED BY <1>3, <2>1, <2>2 DEF Tree
<1>6. IsTree(m)
  BY <1>5 DEF IsTree
<1>7. /\ d.nodes = m /\ d.connections = <<>> /\ d.layout = "Horizontal" /\ d.manual = FALSE /\ d.look = Plain
      /\ d.selected = Root /\ d.selection = {Root} /\ d.nextId = 2 /\ IsDocument(d)
  BY MaxDepthNat DEF Blank, m, n, IsDocument, Layout, Root
<1> HIDE DEF d
<1>8. Cardinality(DOMAIN m) = 1
  BY <1>2, FS_Singleton
<1>9. Raw(d, uids)
  <2>1. Joins(d)
    BY <1>7 DEF Joins
  <2>2. ValidNodes(m) /\ Distinct(m) /\ IdentitiesOf(m) \subseteq uids
    BY <1>1, <1>2 DEF ValidNodes, Distinct, IdentitiesOf
  <2>3. Cardinality(DOMAIN d.nodes) <= MaxNodes
    BY <1>7, <1>8, MaxDepthNat
  <2>4. DOMAIN d.nodes \subseteq 1 .. d.nextId - 1 /\ d.selected # None
    BY <1>2, <1>7 DEF Root, None
  <2> QED BY <1>6, <1>7, <2>1, <2>2, <2>3, <2>4 DEF Raw
<1>10. Settled(m)
  BY <1>2, <1>4 DEF Settled, TasksOf
<1>11. Unfolded(m) = {Root}
  BY <1>2, <1>5, UnfoldedOf
<1>12. Sound(d, uids)
  BY <1>2, <1>7, <1>9, <1>10 DEF Sound
<1>13. OnDisplay(d)
  BY <1>7, <1>11 DEF OnDisplay, Root, None
<1> QED BY <1>12, <1>13 DEF d

LEMMA SaveValid ==
  ASSUME Valid, Save
  PROVE  Valid'
<1>1. /\ StatesSound /\ OnDisplay(doc) /\ used \in SUBSET Identity /\ HistoryTyped /\ ClipboardTyped
      /\ SessionTyped(session, used)
      /\ others \in [wrote : {others.wrote}, added : {others.added}, gone : SUBSET Identity]
      /\ effort \in 0 .. MaxEffort
  BY DEF Valid
<1>2. /\ doc' = doc /\ file' = Bytes(doc) /\ saved' = Bytes(doc) /\ path' = TRUE /\ edited' = (Bytes(doc') # saved')
      /\ session' = Captured(doc, doc) /\ undo' = undo /\ redo' = redo /\ clipboard' = clipboard
      /\ used' = used /\ others' = others /\ effort' = effort + 1 /\ effort + 1 <= MaxEffort
  BY DEF Save, Show, Spend
<1>3. Sound(doc, used) /\ IsTree(nodes) /\ Settled(nodes) /\ IdentitiesOf(nodes) \subseteq used
  BY DocIs DEF Sound, Raw, nodes
<1>4. Bytes(doc).nodes = nodes /\ Aggregated(nodes) = nodes
  BY <1>3, SettledStays DEF IsTree, Bytes, nodes
<1>5. IsFile(Bytes(doc))
  BY <1>3, SoundLoads
<1>6. FileTyped'
  <2>1. SameFile(Bytes(doc), Bytes(doc))
    BY DEF SameFile
  <2> HIDE DEF nodes
  <2> QED BY <1>2, <1>3, <1>4, <1>5, <2>1 DEF FileTyped
<1>7. StatesSound'
  <2>1. \A s \in {doc'} \cup ToSet(undo') \cup ToSet(redo') : Sound(s, used')
    BY <1>1, <1>2 DEF StatesSound, States
  <2> QED BY <2>1 DEF StatesSound, States
<1>8. SessionTyped(session', used')
  BY <1>1, <1>2, <1>3, CapturedTyped
<1>9. HistoryTyped' /\ ClipboardTyped'
  BY <1>1, <1>2 DEF HistoryTyped, ClipboardTyped
<1>10. effort' \in 0 .. MaxEffort
  BY <1>1, <1>2, EditorAssumption
<1> QED BY <1>1, <1>2, <1>6, <1>7, <1>8, <1>9, <1>10 DEF Valid

LEMMA NobodyTyped ==
  Nobody \in [wrote : {Nobody.wrote}, added : {Nobody.added}, gone : SUBSET Identity]
BY DEF Nobody

LEMMA OpenValid ==
  ASSUME Valid, Open
  PROVE  Valid'
<1>1. /\ StatesSound /\ used \in SUBSET Identity /\ HistoryTyped /\ FileTyped /\ ClipboardTyped
      /\ effort \in 0 .. MaxEffort
  BY DEF Valid
<1> DEFINE next == Loaded(file)
<1>2. /\ Loadable(file) /\ doc' = next /\ saved' = Bytes(doc') /\ edited' = FALSE /\ path' = TRUE
      /\ session' = (IF SharedFile THEN LiveWith(doc') ELSE NoSession) /\ Checkpoint
      /\ file' = file /\ clipboard' = clipboard /\ used' = used /\ others' = Nobody
      /\ effort' = effort + 1 /\ effort + 1 <= MaxEffort
  BY DEF Open, Spend
<1>3. IsFile(file) /\ IdentitiesOf(file.nodes) \subseteq used /\ Aggregated(file.nodes) = file.nodes
  BY <1>1, <1>2 DEF FileTyped
<1>4. /\ Sound(next, used) /\ OnDisplay(next) /\ next.nodes = file.nodes
      /\ next.layout = file.layout /\ next.manual = file.manual /\ next.look = file.look
      /\ next.connections = [k \in DOMAIN file.connections |-> Oriented(file.connections[k])]
  BY <1>2, <1>3, LoadedSound
<1> HIDE DEF next
<1>5. SameFile(Bytes(next), file)
  BY <1>4 DEF SameFile, Bytes
<1>6. FileTyped'
  BY <1>1, <1>2, <1>5 DEF FileTyped
<1>7. HistoryTyped' /\ ToSet(redo') = {} /\ ToSet(undo') \subseteq ToSet(undo) \cup {doc}
  BY <1>1, <1>2, CheckpointTyped
<1>8. StatesSound'
  <2>1. \A s \in {doc'} \cup ToSet(undo') \cup ToSet(redo') : Sound(s, used')
    BY <1>1, <1>2, <1>4, <1>7 DEF StatesSound, States
  <2> QED BY <2>1 DEF StatesSound, States
<1>9. SessionTyped(session', used')
  BY <1>1, <1>2, <1>4, SessionsTyped
<1>10. ClipboardTyped'
  BY <1>1, <1>2 DEF ClipboardTyped
<1>11. effort' \in 0 .. MaxEffort
  BY <1>1, <1>2, EditorAssumption
<1>12. others' \in [wrote : {others'.wrote}, added : {others'.added}, gone : SUBSET Identity]
  BY <1>2, NobodyTyped
<1> QED BY <1>1, <1>2, <1>4, <1>6, <1>7, <1>8, <1>9, <1>10, <1>11, <1>12 DEF Valid

LEMMA RecoverValid ==
  ASSUME Valid, Recover
  PROVE  Valid'
<1>1. /\ StatesSound /\ used \in SUBSET Identity /\ FileTyped /\ ClipboardTyped /\ effort \in 0 .. MaxEffort
  BY DEF Valid
<1> DEFINE b == Bytes(doc)
           next == Loaded(b)
<1>2. PICK u \in Fresh : undo' = <<Blank(u)>> /\ redo' = <<>> /\ used' = used \cup {u}
  BY DEF Recover
<1>3. /\ Loadable(doc) /\ doc' = next /\ saved' = saved /\ edited' = (Bytes(doc') # saved')
      /\ session' = NoSession /\ others' = Nobody /\ file' = file /\ path' = path /\ clipboard' = clipboard
      /\ effort' = effort + 1 /\ effort + 1 <= MaxEffort
  BY DEF Recover, Spend
<1>4. used' \in SUBSET Identity /\ u \in used' /\ used \subseteq used'
  BY <1>1, <1>2 DEF Fresh
<1>5. Loadable(b)
  BY <1>3 DEF Loadable, Bytes
<1>6. IsFile(b) /\ IdentitiesOf(b.nodes) \subseteq used'
  <2>1. Sound(doc, used) /\ b.nodes = doc.nodes
    BY DocIs DEF Bytes
  <2> QED BY <1>4, <2>1, SoundLoads DEF Sound, Raw
<1> HIDE DEF b
<1>7. Sound(next, used') /\ OnDisplay(next)
  BY <1>5, <1>6, LoadedSound
<1> HIDE DEF next
<1> DEFINE blank == Blank(u)
           none == <<>>
<1>8. Sound(blank, used')
  BY <1>4, BlankSound
<1> HIDE DEF blank
<1>9. HistoryTyped' /\ ToSet(undo') = {blank} /\ ToSet(redo') = {}
  <2>1. none \in Seq(ToSet(none)) /\ Len(none) = 0 /\ ToSet(none) = {}
    BY DEF ToSet
  <2>2. <<blank>> \in Seq(ToSet(<<blank>>)) /\ Len(<<blank>>) = 1 /\ ToSet(<<blank>>) = {blank}
    BY DEF ToSet
  <2>3. undo' = <<blank>> /\ redo' = none
    BY <1>2 DEF blank
  <2> HIDE DEF none
  <2> QED BY <2>1, <2>2, <2>3, EditorAssumption DEF HistoryTyped
<1>10. StatesSound'
  <2>1. \A s \in {doc'} \cup ToSet(undo') \cup ToSet(redo') : Sound(s, used')
    BY <1>3, <1>7, <1>8, <1>9
  <2> QED BY <2>1 DEF StatesSound, States
<1>11. FileTyped'
  BY <1>1, <1>3, <1>4 DEF FileTyped
<1>12. SessionTyped(session', used')
  BY <1>3, <1>4, SessionsTyped
<1>13. ClipboardTyped'
  BY <1>1, <1>3 DEF ClipboardTyped
<1>14. effort' \in 0 .. MaxEffort
  BY <1>1, <1>3, EditorAssumption
<1>15. others' \in [wrote : {others'.wrote}, added : {others'.added}, gone : SUBSET Identity]
  BY <1>3, NobodyTyped
<1> QED BY <1>3, <1>4, <1>7, <1>9, <1>10, <1>11, <1>12, <1>13, <1>14, <1>15 DEF Valid

LEMMA FilesValid ==
  ASSUME Valid, Files
  PROVE  Valid'
BY SaveValid, OpenValid, RecoverValid DEF Files

-----------------------------------------------------------------------------
(***************************************************************************)
(* What others make of the map of a room.                                  *)
(***************************************************************************)
Batching(c, batches, f) ==
  f = [k \in 0 .. Len(batches) |->
        IF k = 0 THEN {c} ELSE UNION {Results(x, batches[k]) : x \in f[k - 1]}]

LEMMA BatchingExists ==
  ASSUME NEW c, NEW batches, Len(batches) \in Nat
  PROVE  \E f : Batching(c, batches, f)
<1> DEFINE Value(f, k) == IF k = 0 THEN {c} ELSE UNION {Results(x, batches[k]) : x \in f[k - 1]}
           Solved == {m \in Nat : \E f : f = [k \in 0 .. m |-> Value(f, k)]}
<1>1. 0 \in Solved
  <2> DEFINE first == [k \in 0 .. 0 |-> Value(k, 0)]
  <2>1. first = [k \in 0 .. 0 |-> Value(first, k)]
    OBVIOUS
  <2> QED BY <2>1
<1>2. ASSUME NEW m \in Solved PROVE m + 1 \in Solved
  <2>1. PICK f : f = [k \in 0 .. m |-> Value(f, k)]
    OBVIOUS
  <2> DEFINE g == [k \in 0 .. m + 1 |-> IF k = m + 1 THEN Value(f, k) ELSE f[k]]
  <2>2. ASSUME NEW k \in 0 .. m + 1 PROVE g[k] = Value(g, k)
    <3>1. k # 0 => k - 1 \in 0 .. m + 1 /\ k - 1 # m + 1
      OBVIOUS
    <3>2. k # 0 => g[k - 1] = f[k - 1]
      BY <3>1
    <3>3. Value(g, k) = Value(f, k)
      BY <3>2
    <3>4. CASE k = m + 1
      <4>1. g[k] = Value(f, k)
        BY <3>4
      <4> QED BY <3>3, <4>1
    <3>5. CASE k # m + 1
      <4>1. k \in 0 .. m
        BY <3>5
      <4>2. f[k] = Value(f, k)
        BY <2>1, <4>1
      <4>3. g[k] = f[k]
        BY <3>5
      <4> QED BY <3>3, <4>2, <4>3
    <3> QED BY <3>4, <3>5
  <2>3. g = [k \in 0 .. m + 1 |-> g[k]]
    OBVIOUS
  <2> HIDE DEF g, Value
  <2>4. g = [k \in 0 .. m + 1 |-> Value(g, k)]
    BY <2>2, <2>3
  <2> QED BY <2>4
<1>3. Len(batches) \in Solved
  <2> HIDE DEF Solved
  <2>1. Solved \in SUBSET Nat
    BY DEF Solved
  <2>2. Solved = Nat
    BY <1>1, <1>2, <2>1, InductiveSet
  <2> QED BY <2>2
<1> QED BY <1>3 DEF Batching

\* A map with one root keeps it.
LEMMA OneRoot ==
  ASSUME NEW c, NEW uids \in SUBSET Identity, LiveDoc(c, uids), Cardinality(ChildrenOf(c, NoParent)) = 1
  PROVE  RoomTyped(c, uids) /\ Held(c, RootOf(c)) /\ \A r : Held(c, r) => r = RootOf(c)
<1>1. ChildrenOf(c, NoParent) \subseteq Identity
  BY DEF ChildrenOf, LiveDoc
<1>2. IsFiniteSet(Identity)
  <2>1. 1 \in Int /\ MaxIdentity \in Int
    BY MaxDepthNat
  <2> QED BY <2>1, FS_Interval DEF Identity
<1>3. IsFiniteSet(ChildrenOf(c, NoParent))
  BY <1>1, <1>2, FS_Subset
<1>4. PICK x : ChildrenOf(c, NoParent) = {x}
  BY <1>3, FS_Singleton
<1>5. x \in DOMAIN c.nodes /\ c.nodes[x].parent = NoParent
      /\ \A u \in DOMAIN c.nodes : c.nodes[u].parent = NoParent => u = x
  BY <1>4 DEF ChildrenOf
<1>6. RootOf(c) = x
  BY <1>5 DEF RootOf
<1> QED BY <1>4, <1>5, <1>6 DEF RoomTyped, Held

\* ... and is the root of whatever keeps one root.
LEMMA RoomRoot ==
  ASSUME NEW c, NEW uids, RoomTyped(c, uids)
  PROVE  /\ LiveDoc(c, uids) /\ Cardinality(ChildrenOf(c, NoParent)) = 1 /\ ChildrenOf(c, NoParent) # {}
         /\ Held(c, RootOf(c)) /\ \A r : Held(c, r) => r = RootOf(c)
<1>1. LiveDoc(c, uids) /\ ChildrenOf(c, NoParent) = {RootOf(c)}
  BY DEF RoomTyped
<1>2. RootOf(c) \in ChildrenOf(c, NoParent) /\ Cardinality({RootOf(c)}) = 1
  BY <1>1, FS_Singleton
<1> QED BY <1>1, <1>2 DEF ChildrenOf, Held

\* Batches that leave a root alone, and batches of which one takes it away.
Keep(batches, r) == \A k \in 1 .. Len(batches) : Keeps(batches[k], r)
Lose(batches, r) ==
  \E m \in 1 .. Len(batches) :
    Removes(batches[m], r) /\ \A k \in 1 .. m : Keeps(batches[k], r)

LEMMA AfterBatchesOf ==
  ASSUME NEW uids \in SUBSET Identity, NEW c, RoomTyped(c, uids), NEW batches, Len(batches) \in Nat,
         \A k \in 1 .. Len(batches) : BatchTyped(batches[k], uids)
  PROVE  /\ \A x \in AfterBatches(c, batches) : RoomTyped(x, uids)
         /\ \A r : Held(c, r) /\ Keep(batches, r) => \A x \in AfterBatches(c, batches) : Held(x, r)
         /\ \A r : Held(c, r) /\ Lose(batches, r) => AfterBatches(c, batches) = {}
<1> DEFINE f == CHOOSE g : Batching(c, batches, g)
           n == Len(batches)
           Good == {k \in Nat : k <= n => \A x \in f[k] : RoomTyped(x, uids)}
<1>1. Batching(c, batches, f)
  BY BatchingExists
<1>2. AfterBatches(c, batches) = f[n]
  BY DEF AfterBatches, Batching
<1> HIDE DEF f
<1>3. f[0] = {c}
  BY <1>1 DEF Batching
<1>4. ASSUME NEW k \in Nat, k + 1 <= n
      PROVE  /\ f[k + 1] = UNION {Results(x, batches[k + 1]) : x \in f[k]}
             /\ BatchTyped(batches[k + 1], uids) /\ k <= n /\ k + 1 \in 1 .. n
  <2>1. k + 1 \in 0 .. n /\ k + 1 # 0 /\ (k + 1) - 1 = k /\ k + 1 \in 1 .. n /\ k <= n
    BY <1>4
  <2>2. f[k + 1] = UNION {Results(x, batches[k + 1]) : x \in f[k]}
    BY <1>1, <2>1 DEF Batching
  <2> QED BY <2>1, <2>2
<1>5. ASSUME NEW x, RoomTyped(x, uids), NEW ops, BatchTyped(ops, uids)
      PROVE  /\ \A y \in Results(x, ops) : RoomTyped(y, uids)
             /\ \A r : Held(x, r) /\ Keeps(ops, r) => \A y \in Results(x, ops) : Held(y, r)
             /\ \A r : Held(x, r) /\ Keeps(ops, r) /\ Removes(ops, r) => Results(x, ops) = {}
  <2>1. LiveDoc(x, uids)
    BY <1>5, RoomRoot
  <2>2. \A y \in Results(x, ops) : LiveDoc(y, uids) /\ Cardinality(ChildrenOf(y, NoParent)) = 1
    BY <1>5, <2>1, ResultsOf
  <2>3. \A y \in Results(x, ops) : RoomTyped(y, uids)
    BY <2>2, OneRoot
  <2>4. \A r : Held(x, r) /\ Keeps(ops, r) =>
          /\ \A y \in Results(x, ops) : Held(y, r)
          /\ Removes(ops, r) => Results(x, ops) = {}
    BY <1>5, <2>1, ResultsOf
  <2> QED BY <2>3, <2>4
<1> HIDE DEF n
<1>6. n \in Nat
  BY DEF n
<1>7. Good = Nat
  <2>1. 0 \in Good
    BY <1>3
  <2>2. ASSUME NEW k \in Good PROVE k + 1 \in Good
    <3> SUFFICES ASSUME k + 1 <= n PROVE \A x \in f[k + 1] : RoomTyped(x, uids)
      OBVIOUS
    <3>1. \A x \in f[k] : RoomTyped(x, uids)
      BY <1>4
    <3> QED BY <1>4, <1>5, <3>1
  <2> HIDE DEF Good
  <2>3. Good \in SUBSET Nat
    BY DEF Good
  <2> QED BY <2>1, <2>2, <2>3, InductiveSet
<1>8. \A k \in Nat : k <= n => \A x \in f[k] : RoomTyped(x, uids)
  BY <1>7
<1> HIDE DEF Good
<1>9. ASSUME NEW r, Held(c, r), NEW m \in Nat, m <= n, \A k \in 1 .. m : Keeps(batches[k], r)
      PROVE  \A k \in Nat : k <= m => \A x \in f[k] : Held(x, r)
  <2> DEFINE Fine == {k \in Nat : k <= m => \A x \in f[k] : Held(x, r)}
  <2>1. 0 \in Fine
    BY <1>3, <1>9
  <2>2. ASSUME NEW k \in Fine PROVE k + 1 \in Fine
    <3> SUFFICES ASSUME k + 1 <= m PROVE \A x \in f[k + 1] : Held(x, r)
      OBVIOUS
    <3>1. k <= m /\ k <= n /\ k + 1 <= n /\ k + 1 \in 1 .. m
      BY <1>6, <1>9
    <3>2. (\A x \in f[k] : Held(x, r) /\ RoomTyped(x, uids)) /\ Keeps(batches[k + 1], r)
      BY <1>8, <1>9, <3>1
    <3>3. f[k + 1] = UNION {Results(x, batches[k + 1]) : x \in f[k]} /\ BatchTyped(batches[k + 1], uids)
      BY <1>4, <3>1
    <3>4. \A x \in f[k] : \A y \in Results(x, batches[k + 1]) : Held(y, r)
      BY <1>5, <3>2, <3>3
    <3> QED BY <3>3, <3>4
  <2> HIDE DEF Fine
  <2>3. Fine \in SUBSET Nat
    BY DEF Fine
  <2>4. Fine = Nat
    BY <2>1, <2>2, <2>3, InductiveSet
  <2> QED BY <2>4 DEF Fine
<1>10. ASSUME NEW r, Held(c, r), Keep(batches, r) PROVE \A x \in f[n] : Held(x, r)
  <2>1. \A k \in 1 .. n : Keeps(batches[k], r)
    BY <1>10 DEF Keep, n
  <2> QED BY <1>6, <1>9, <1>10, <2>1
<1>11. ASSUME NEW r, Held(c, r), Lose(batches, r) PROVE f[n] = {}
  <2>1. PICK m \in 1 .. n : Removes(batches[m], r) /\ \A k \in 1 .. m : Keeps(batches[k], r)
    BY <1>11 DEF Lose, n
  <2>2. m - 1 \in Nat /\ (m - 1) + 1 = m /\ m <= n /\ m - 1 <= n /\ m \in Nat /\ m - 1 <= m /\ m \in 1 .. m
    BY <1>6
  <2>3. \A x \in f[m - 1] : Held(x, r) /\ RoomTyped(x, uids)
    BY <1>8, <1>9, <1>11, <2>1, <2>2
  <2>4. f[m] = UNION {Results(x, batches[m]) : x \in f[m - 1]} /\ BatchTyped(batches[m], uids)
    <3> DEFINE k == m - 1
    <3>1. k \in Nat /\ k + 1 = m /\ k + 1 <= n
      BY <2>2
    <3> HIDE DEF k
    <3>2. f[k + 1] = UNION {Results(x, batches[k + 1]) : x \in f[k]} /\ BatchTyped(batches[k + 1], uids)
      BY <1>4, <3>1
    <3> QED BY <3>1, <3>2 DEF k
  <2>5. \A x \in f[m - 1] : Results(x, batches[m]) = {}
    BY <1>5, <2>1, <2>2, <2>3, <2>4
  <2>6. f[m] = {}
    BY <2>4, <2>5
  <2> DEFINE Fine == {j \in Nat : m + j <= n => f[m + j] = {}}
  <2>7. 0 \in Fine
    BY <2>2, <2>6
  <2>8. ASSUME NEW j \in Fine PROVE j + 1 \in Fine
    <3> SUFFICES ASSUME m + (j + 1) <= n PROVE f[m + (j + 1)] = {}
      OBVIOUS
    <3> DEFINE k == m + j
    <3>1. k \in Nat /\ k + 1 <= n /\ m + (j + 1) = k + 1 /\ k <= n
      BY <1>6, <2>2
    <3>2. f[k] = {}
      BY <3>1
    <3> HIDE DEF k
    <3>3. f[k + 1] = {}
      <4>1. f[k + 1] = UNION {Results(x, batches[k + 1]) : x \in f[k]}
        BY <1>4, <3>1
      <4> QED BY <3>2, <4>1
    <3> QED BY <3>1, <3>3
  <2> HIDE DEF Fine
  <2>9. Fine \in SUBSET Nat
    BY DEF Fine
  <2>10. Fine = Nat
    BY <2>7, <2>8, <2>9, InductiveSet
  <2>11. n - m \in Fine /\ m + (n - m) = n
    BY <1>6, <2>2, <2>10
  <2> QED BY <2>11 DEF Fine
<1> QED BY <1>2, <1>6, <1>8, <1>10, <1>11

\* To rebuild leaves the links and the identities.
LEMMA RebuiltShaped ==
  ASSUME NEW d, NEW uids, Shaped(d, uids)
  PROVE  /\ RoomTyped(Normalize(Rebuild(d)), uids)
         /\ RootOf(Normalize(Rebuild(d))) = d.nodes[Root].syncId
<1> DEFINE r == Rebuild(d)
           n == Aggregated(d.nodes)
<1>1. IsDocument(d) /\ Distinct(d.nodes) /\ IdentitiesOf(d.nodes) \subseteq uids /\ uids \subseteq Identity
  BY DEF Shaped
<1>2. /\ r.nodes = n /\ r.connections = d.connections /\ r.layout = d.layout
      /\ r.manual = d.manual /\ r.look = d.look /\ r.nextId = d.nextId
      /\ r.selected = Shown(n, d.selected)
      /\ r.selection = (d.selection \cap Unfolded(n)) \cup ({Shown(n, d.selected)} \ {None})
      /\ r = [nodes |-> r.nodes, connections |-> r.connections, layout |-> r.layout,
              manual |-> r.manual, look |-> r.look, selected |-> r.selected,
              selection |-> r.selection, nextId |-> r.nextId]
  BY <1>1, RebuildIs
<1>3. PICK dep : Tree(d.nodes, dep)
  BY DEF Shaped, IsTree
<1>4. Alike(n, d.nodes) /\ n \in [DOMAIN d.nodes -> Node]
  BY <1>3, AggregatedIs
<1>5. Tree(n, dep) /\ DOMAIN n = DOMAIN d.nodes /\ IdentitiesOf(n) = IdentitiesOf(d.nodes)
      /\ \A i \in DOMAIN n : n[i].syncId = d.nodes[i].syncId
  BY <1>3, <1>4, AlikeTree DEF Alike
<1> HIDE DEF n, r
<1>6. Unfolded(n) \subseteq DOMAIN n /\ Shown(n, d.selected) \in Int /\ DOMAIN n \subseteq Int /\ Root \in DOMAIN n
  <2>1. /\ Unfolded(n) \subseteq DOMAIN n /\ (d.selected = None => Shown(n, d.selected) = None)
        /\ d.selected # None => Shown(n, d.selected) \in Unfolded(n)
    BY <1>5, UnfoldedOf
  <2>2. DOMAIN n \subseteq Int /\ None \in Int /\ Root \in DOMAIN n
    BY <1>5 DEF Tree, Typed, Linked, None
  <2> QED BY <2>1, <2>2
<1>7. IsDocument(r)
  <2>1. r.selection \in SUBSET Int /\ r.selected \in Int
    BY <1>2, <1>6
  <2> QED BY <1>1, <1>2, <2>1 DEF IsDocument
<1>8. Distinct(n) /\ IsTree(n)
  BY <1>1, <1>5 DEF Distinct, IsTree
<1>9. Shaped(r, uids)
  BY <1>1, <1>2, <1>5, <1>7, <1>8 DEF Shaped
<1>10. /\ LiveDoc(Normalize(r), uids) /\ ChildrenOf(Normalize(r), NoParent) = {r.nodes[Root].syncId}
       /\ RootOf(Normalize(r)) = r.nodes[Root].syncId
  BY <1>9, NormalizeLive
<1>11. r.nodes[Root].syncId = d.nodes[Root].syncId
  BY <1>2, <1>5, <1>6
<1> QED BY <1>10, <1>11 DEF RoomTyped, r

\* What another client's command leaves: a tree with the same root.
Made(e, d) == Shaped(e, Identity) /\ e.nodes[Root].syncId = d.nodes[Root].syncId

LEMMA TheirDocument ==
  ASSUME NEW d, Sound(d, Identity)
  PROVE  /\ IsDocument(d) /\ Raw(d, Identity) /\ Shaped(d, Identity) /\ Identity \in SUBSET Identity
         /\ IsTree(d.nodes) /\ d.nodes \in [DOMAIN d.nodes -> Node] /\ ValidNodes(d.nodes)
         /\ Root \in DOMAIN d.nodes /\ None \notin DOMAIN d.nodes /\ DOMAIN d.nodes \subseteq Nat \ {0}
         /\ \A i \in DOMAIN d.nodes : InPlace(d.nodes[i], d.nodes[i])
<1>1. Raw(d, Identity) /\ IsDocument(d) /\ IsTree(d.nodes) /\ ValidNodes(d.nodes)
  BY DEF Sound, Raw
<1>2. PICK dep : Tree(d.nodes, dep)
  BY <1>1 DEF IsTree
<1>3. d.nodes \in [DOMAIN d.nodes -> Node] /\ Root \in DOMAIN d.nodes /\ DOMAIN d.nodes \subseteq Nat \ {0}
  BY <1>2 DEF Tree, Typed, Linked
<1>4. \A i \in DOMAIN d.nodes : InPlace(d.nodes[i], d.nodes[i])
  BY <1>1, <1>3 DEF InPlace, ValidNodes
<1> QED BY <1>1, <1>3, <1>4, RawShaped DEF None

LEMMA TheirLooksOf ==
  ASSUME NEW d, Sound(d, Identity), NEW e \in TheirLooks(d)
  PROVE  Made(e, d)
<1>1. IsDocument(d) /\ Raw(d, Identity) /\ Identity \in SUBSET Identity
  BY TheirDocument
<1>2. d.layout \in Layout /\ d.manual \in BOOLEAN /\ d.look \in Content /\ ~(d.layout = "Compact" /\ d.manual)
  BY <1>1 DEF IsDocument, Raw
<1>3. ASSUME NEW l \in Layout, NEW m \in BOOLEAN, NEW v \in Content, ~(l = "Compact" /\ m), LooksAs(e, d, l, m, v)
      PROVE  Made(e, d)
  BY <1>1, <1>3, LookRaw, RawShaped DEF Made
<1>4. CASE \E v \in Content : e = [d EXCEPT !.look = v]
  <2>1. PICK v \in Content : e = [d EXCEPT !.look = v]
    BY <1>4
  <2>2. LooksAs(e, d, d.layout, d.manual, v)
    BY <1>1, <2>1 DEF IsDocument, LooksAs
  <2> QED BY <1>2, <1>3, <2>2
<1>5. CASE \E l \in Layout : e = [d EXCEPT !.layout = l, !.manual = d.manual /\ l # "Compact"]
  <2>1. PICK l \in Layout : e = [d EXCEPT !.layout = l, !.manual = d.manual /\ l # "Compact"]
    BY <1>5
  <2> DEFINE m == d.manual /\ l # "Compact"
  <2>2. m \in BOOLEAN /\ ~(l = "Compact" /\ m) /\ e = [d EXCEPT !.layout = l, !.manual = m]
    BY <2>1
  <2> HIDE DEF m
  <2>3. LooksAs(e, d, l, m, d.look)
    BY <1>1, <2>2 DEF IsDocument, LooksAs
  <2> QED BY <1>2, <1>3, <2>2, <2>3
<1>6. CASE e = [d EXCEPT !.manual = ~d.manual /\ d.layout # "Compact"]
  <2> DEFINE m == ~d.manual /\ d.layout # "Compact"
  <2>1. m \in BOOLEAN /\ ~(d.layout = "Compact" /\ m) /\ e = [d EXCEPT !.manual = m]
    BY <1>6
  <2> HIDE DEF m
  <2>2. LooksAs(e, d, d.layout, m, d.look)
    BY <1>1, <2>1 DEF IsDocument, LooksAs
  <2> QED BY <1>2, <1>3, <2>1, <2>2
<1> QED BY <1>4, <1>5, <1>6 DEF TheirLooks

\* Nodes with other fields, at their places.
LEMMA AlteredMade ==
  ASSUME NEW d, Sound(d, Identity), NEW m, m = [i \in DOMAIN d.nodes |-> m[i]],
         \A i \in DOMAIN d.nodes : InPlace(m[i], d.nodes[i]), NEW e, HasNodes(e, d, m)
  PROVE  Made(e, d)
<1>1. m \in [DOMAIN d.nodes -> Node] /\ Alike(m, d.nodes) /\ ValidNodes(m)
  BY InPlaceAlike
<1>2. Raw(e, Identity) /\ e.nodes = m
  BY <1>1, AlteredRaw
<1>3. Root \in DOMAIN d.nodes /\ Identity \in SUBSET Identity
  BY TheirDocument
<1>4. m[Root].syncId = d.nodes[Root].syncId
  BY <1>1, <1>3 DEF Alike
<1> QED BY <1>2, <1>3, <1>4, RawShaped DEF Made

LEMMA ChangedMade ==
  ASSUME NEW d, Sound(d, Identity), NEW i \in DOMAIN d.nodes, NEW node, InPlace(node, d.nodes[i])
  PROVE  Made(Changed(d, i, node), d)
<1> DEFINE n == d.nodes
           e == Changed(d, i, node)
           m == [n EXCEPT ![i] = node]
<1>1. HasNodes(e, d, m)
  BY DEF HasNodes, Changed
<1>2. n \in [DOMAIN n -> Node] /\ \A k \in DOMAIN n : InPlace(n[k], n[k])
  BY TheirDocument
<1>3. m = [k \in DOMAIN n |-> m[k]] /\ \A k \in DOMAIN n : m[k] = (IF k = i THEN node ELSE n[k])
  BY <1>2
<1> HIDE DEF m, e
<1>4. \A k \in DOMAIN n : InPlace(m[k], n[k])
  BY <1>2, <1>3
<1> QED BY <1>1, <1>3, <1>4, AlteredMade DEF e

LEMMA TheirContentsOf ==
  ASSUME NEW d, Sound(d, Identity), NEW e \in TheirContents(d) \cup TheirFolds(d) \cup TheirChecks(d)
  PROVE  Made(e, d)
<1>1. ASSUME NEW i \in DOMAIN d.nodes, NEW y, e = Changed(d, i, y), NEW x, x = d.nodes[i],
             \/ \E v \in Content : y = [x EXCEPT !.content = v]
             \/ y = [x EXCEPT !.folded = ~x.folded]
             \/ x.kind = "text" /\ y = [x EXCEPT !.task = TRUE, !.checked = ~x.checked]
      PROVE  Made(e, d)
  <2>1. x \in Node /\ ValidNode(x)
    <3>1. InPlace(x, x)
      BY <1>1, TheirDocument
    <3> QED BY <3>1 DEF InPlace
  <2>2. InPlace(y, x)
    <3>1. CASE \E v \in Content : y = [x EXCEPT !.content = v]
      BY <2>1, <3>1 DEF InPlace, Node, ValidNode
    <3>2. CASE y = [x EXCEPT !.folded = ~x.folded]
      <4>1. /\ y \in Node /\ y.syncId = x.syncId /\ y.parent = x.parent /\ y.children = x.children
            /\ y.task = x.task /\ y.checked = x.checked /\ y.kind = x.kind /\ y.meeting = x.meeting
        BY <2>1, <3>2 DEF Node
      <4> QED BY <2>1, <4>1 DEF ValidNode, InPlace
    <3>3. CASE x.kind = "text" /\ y = [x EXCEPT !.task = TRUE, !.checked = ~x.checked]
      <4>1. /\ y \in Node /\ y.syncId = x.syncId /\ y.parent = x.parent /\ y.children = x.children
            /\ y.task = TRUE /\ y.kind = x.kind /\ y.meeting = x.meeting
        BY <2>1, <3>3 DEF Node
      <4> QED BY <2>1, <3>3, <4>1 DEF ValidNode, InPlace
    <3> QED BY <1>1, <3>1, <3>2, <3>3
  <2> QED BY <1>1, <2>2, ChangedMade
<1>2. CASE e \in TheirContents(d)
  <2>1. PICK i \in DOMAIN d.nodes, v \in Content : e = Changed(d, i, [d.nodes[i] EXCEPT !.content = v])
    BY <1>2 DEF TheirContents
  <2> QED BY <1>1, <2>1
<1>3. CASE e \in TheirFolds(d)
  <2>1. PICK i \in DOMAIN d.nodes : e = Changed(d, i, [d.nodes[i] EXCEPT !.folded = ~d.nodes[i].folded])
    BY <1>3 DEF TheirFolds
  <2> QED BY <1>1, <2>1
<1>4. CASE e \in TheirChecks(d)
  <2>1. PICK i \in DOMAIN d.nodes :
          /\ d.nodes[i].kind = "text"
          /\ e = Changed(d, i, [d.nodes[i] EXCEPT !.task = TRUE, !.checked = ~d.nodes[i].checked])
    BY <1>4 DEF TheirChecks
  <2> QED BY <1>1, <2>1
<1> QED BY <1>2, <1>3, <1>4

LEMMA TheirKindsOf ==
  ASSUME NEW d, Sound(d, Identity), NEW e \in TheirKinds(d)
  PROVE  Made(e, d)
<1> DEFINE n == d.nodes
<1>1. PICK i \in DOMAIN n, kind \in {"text", "task", "date"} : e = [d EXCEPT !.nodes = RetypedIn(n, i, kind)]
  BY DEF TheirKinds
<1> DEFINE m == RetypedIn(n, i, kind)
<1>2. n \in [DOMAIN n -> Node] /\ ValidNodes(n)
  BY TheirDocument
<1>3. m = [j \in DOMAIN n |-> m[j]] /\ \A j \in DOMAIN n : InPlace(m[j], n[j])
  <2> HIDE DEF n
  <2> QED BY <1>2, RetypedInPlace
<1>4. HasNodes(e, d, m)
  BY <1>1 DEF HasNodes
<1> HIDE DEF m
<1> QED BY <1>3, <1>4, AlteredMade

LEMMA TheirRelationsOf ==
  ASSUME NEW d, Sound(d, Identity), NEW e \in TheirRelations(d)
  PROVE  Made(e, d)
<1>1. IsDocument(d) /\ Shaped(d, Identity) /\ DOMAIN d.nodes \subseteq Nat \ {0}
  BY TheirDocument
<1>2. PICK p \in (DOMAIN d.nodes) \X (DOMAIN d.nodes) : e = [d EXCEPT !.connections = Append(d.connections, p)]
  BY DEF TheirRelations
<1> DEFINE edges == Append(d.connections, p)
<1>3. d.connections \in Seq(Int \X Int) /\ p \in Int \X Int
  BY <1>1, <1>2 DEF IsDocument
<1>4. edges \in Seq(Int \X Int)
  BY <1>3, AppendProperties
<1>5. e = [d EXCEPT !.connections = edges]
  BY <1>2
<1> HIDE DEF edges
<1>6. IsDocument(e) /\ e.nodes = d.nodes
  BY <1>1, <1>4, <1>5 DEF IsDocument
<1> QED BY <1>1, <1>6 DEF Shaped, Made

LEMMA TheirRemovalsOf ==
  ASSUME NEW d, Sound(d, Identity), NEW e \in TheirRemovals(d)
  PROVE  Made(e, d)
<1>1. PICK i \in DOMAIN d.nodes \ {Root} : e = WithoutNodes(d, Branch(d.nodes, i))
  BY DEF TheirRemovals
<1>2. PICK dep : Tree(d.nodes, dep)
  BY TheirDocument DEF IsTree
<1> DEFINE gone == Branch(d.nodes, i)
<1>3. gone \subseteq DOMAIN d.nodes \ {Root} /\ \A j \in gone : Kids(d.nodes, j) \subseteq gone
  BY <1>2, BranchOf
<1>4. e = WithoutNodes(d, gone)
  BY <1>1
<1> HIDE DEF gone
<1>5. Raw(e, Identity) /\ e.nodes[Root].syncId = d.nodes[Root].syncId
  BY <1>3, <1>4, WithoutRaw
<1> QED BY <1>5, TheirDocument, RawShaped DEF Made

\* New nodes leave the root where it was.
LEMMA GrownRoot ==
  ASSUME NEW d, Sound(d, Identity), NEW new, NEW parent \in DOMAIN d.nodes, NEW sibling, NEW tops
  PROVE  GrownIn(d, new, parent, sibling, tops).nodes[Root].syncId = d.nodes[Root].syncId
<1> DEFINE n == d.nodes
           ch == After(n[parent].children, sibling, tops)
           f == [n EXCEPT ![parent].children = ch, ![parent].folded = FALSE]
           g == GrownIn(d, new, parent, sibling, tops)
<1>1. IsDocument(d) /\ n \in [DOMAIN n -> Node] /\ Root \in DOMAIN n
  BY TheirDocument
<1>2. g.nodes = Over(f, new)
  BY <1>1 DEF GrownIn, IsDocument
<1> HIDE DEF ch
<1>3. Root \in DOMAIN f /\ (f[Root] = n[Root] \/ f[Root] = [n[Root] EXCEPT !.children = ch, !.folded = FALSE])
  BY <1>1
<1> HIDE DEF f, g
<1>4. g.nodes[Root] = f[Root]
  <2>1. Root \in DOMAIN f
    BY <1>3
  <2>2. Over(f, new)[Root] = f[Root]
    BY <2>1, OverIs
  <2> QED BY <1>2, <2>2
<1> DEFINE x == n[Root]
<1>5. x \in Node /\ (f[Root] = x \/ f[Root] = [x EXCEPT !.children = ch, !.folded = FALSE])
  BY <1>1, <1>3
<1> HIDE DEF x
<1>6. f[Root].syncId = x.syncId
  BY <1>5 DEF Node
<1> QED BY <1>4, <1>6 DEF x, g

LEMMA TheirAdditionsOf ==
  ASSUME NEW d, Sound(d, Identity), IdentitiesOf(d.nodes) \subseteq used, NEW e \in TheirAdditions(d)
  PROVE  Made(e, d)
<1> DEFINE n == d.nodes
           id == d.nextId
           entry(u, p, kind) == Single(id, Entry(n, u, p, kind))
           grown(u, p, kind, sibling) == GrownIn(d, entry(u, p, kind), p, sibling, <<id>>)
<1>1. PICK a \in Fresh \X (DOMAIN n) :
        /\ Cardinality(DOMAIN n) < MaxNodes /\ Depth(n, a[2]) < MaxDepth
        /\ \/ e = grown(a[1], a[2], "date", None)
           \/ \E sibling \in Places(n, a[2]) : e = grown(a[1], a[2], "text", sibling)
  BY DEF TheirAdditions
<1>2. a[1] \in Fresh /\ a[2] \in DOMAIN n /\ "text" \in Kind /\ "date" \in Kind
  BY DEF Kind
<1>0. PICK u \in Fresh, p \in DOMAIN n, kind \in Kind :
         /\ Cardinality(DOMAIN n) < MaxNodes /\ Depth(n, p) < MaxDepth
         /\ \E sibling : e = grown(u, p, kind, sibling)
  <2> HIDE DEF grown, n
  <2> QED BY <1>1, <1>2
<1>3. PICK sibling : Cardinality(DOMAIN n) < MaxNodes /\ Depth(n, p) < MaxDepth /\ e = grown(u, p, kind, sibling)
  BY <1>0
<1>4. /\ IsDocument(d) /\ Raw(d, Identity) /\ Identity \in SUBSET Identity /\ IsTree(n)
      /\ n \in [DOMAIN n -> Node] /\ Root \in DOMAIN n /\ DOMAIN n \subseteq Nat \ {0}
  BY TheirDocument
<1>5. id \in Nat \ {0} /\ Depth(n, p) \in Nat /\ Cardinality(DOMAIN n) \in Nat /\ p \in Int /\ MaxNodes \in Int
  <2>1. id \in Nat /\ DOMAIN n \subseteq 1 .. id - 1
    BY <1>4 DEF IsDocument, Raw
  <2>2. Root \in 1 .. id - 1
    BY <1>4, <2>1
  <2>3. PICK dep : Tree(n, dep)
    BY <1>4 DEF IsTree
  <2>4. Depth(n, p) = dep[p] /\ dep[p] \in Nat /\ IsFiniteSet(DOMAIN n)
    BY <2>3, AncestorsOf, KidsDeeper DEF Tree, Typed
  <2>5. Cardinality(DOMAIN n) \in Nat
    BY <2>4, FS_CardinalityType
  <2> QED BY <1>4, <2>1, <2>2, <2>4, <2>5, MaxDepthNat DEF Root
<1> DEFINE x == Entry(n, u, p, kind)
           new == Single(id, x)
           lev == [i \in {id} |-> 1]
           tops == <<id>>
<1>6. x \in Node /\ ValidNode(x) /\ x.syncId = u /\ x.parent = p /\ x.children = <<>>
  <2>1. n[p].task \in BOOLEAN /\ u \in Int
    BY <1>4, MaxDepthNat DEF Node, Fresh, Identity
  <2> HIDE DEF n
  <2> QED BY <1>5, <2>1, EntryIs
<1> HIDE DEF x, lev, tops
<1>7. /\ Sprout(new, lev, p, tops) /\ ValidNodes(new) /\ Distinct(new) /\ IdentitiesOf(new) = {u}
      /\ DOMAIN new = {id} /\ Cardinality(DOMAIN new) = 1 /\ lev = [i \in {id} |-> 1]
  <2> HIDE DEF new
  <2>1. new = Single(id, x)
    BY DEF new
  <2> HIDE DEF id
  <2> QED BY <1>5, <1>6, <2>1, SingleSprout DEF lev, tops
<1>8. e = GrownIn(d, new, p, sibling, tops)
  BY <1>3 DEF x, tops
<1> HIDE DEF new
<1>9. /\ IdentitiesOf(new) \cap IdentitiesOf(n) = {} /\ IdentitiesOf(new) \subseteq Identity
      /\ DOMAIN new \subseteq id .. id + Cardinality(DOMAIN new) - 1
      /\ Cardinality(DOMAIN n) + Cardinality(DOMAIN new) <= MaxNodes
      /\ \A i \in DOMAIN new : Depth(n, p) + lev[i] <= MaxDepth
  <2>1. u \in Identity /\ u \notin IdentitiesOf(n)
    BY DEF Fresh
  <2>2. Cardinality(DOMAIN n) + 1 <= MaxNodes /\ Depth(n, p) + 1 <= MaxDepth
    BY <1>3, <1>5, MaxDepthNat
  <2> HIDE DEF n
  <2>3. id \in id .. id + 1 - 1
    BY <1>5
  <2> HIDE DEF id
  <2> QED BY <1>7, <2>1, <2>2, <2>3
<1>10. Raw(e, Identity)
  <2> DEFINE g == [d EXCEPT !.nodes = Over([d.nodes EXCEPT
                         ![p].children = After(d.nodes[p].children, sibling, tops),
                         ![p].folded = FALSE], new),
                       !.nextId = @ + Cardinality(DOMAIN new)]
  <2>1. e = g
    BY <1>8 DEF GrownIn
  <2>2. p \in DOMAIN d.nodes /\ Sound(d, Identity)
    OBVIOUS
  <2>3. Raw(g, Identity)
    BY <1>7, <1>9, <2>2, GrownRaw
  <2> QED BY <2>1, <2>3
<1>11. e.nodes[Root].syncId = d.nodes[Root].syncId
  BY <1>8, GrownRoot
<1> QED BY <1>4, <1>10, <1>11, RawShaped DEF Made

LEMMA TheirMovesOf ==
  ASSUME NEW d, Sound(d, Identity), NEW e \in TheirMoves(d)
  PROVE  Made(e, d)
<1> DEFINE n == d.nodes
<1>1. PICK m \in (DOMAIN n \ {Root}) \X (DOMAIN n) :
        MayMoveIn(n, m[1], m[2]) /\ \E sibling \in Places(n, m[2]) : e = Moved(d, <<m[1]>>, m[2], sibling)
  BY DEF TheirMoves
<1>0. PICK i \in DOMAIN n \ {Root}, p \in DOMAIN n :
        MayMoveIn(n, i, p) /\ \E sibling : e = Moved(d, <<i>>, p, sibling)
  BY <1>1
<1>2. PICK sibling : MayMoveIn(n, i, p) /\ e = Moved(d, <<i>>, p, sibling)
  BY <1>0
<1> DEFINE ids == <<i>>
<1>3. ids \in Seq(DOMAIN n \ {Root}) /\ IsInjective(ids) /\ ToSet(ids) = {i} /\ e = Moved(d, ids, p, sibling)
  BY <1>2 DEF IsInjective, ToSet
<1> HIDE DEF ids
<1>4. \A a, b \in ToSet(ids) : a \in Branch(n, b) => a = b
  BY <1>3
<1>5. \A a \in ToSet(ids) : p \notin Branch(n, a) /\ Depth(n, p) + 1 + Height(n, a) <= MaxDepth
  BY <1>2, <1>3 DEF MayMoveIn
<1>6. Raw(e, Identity)
  BY <1>3, <1>4, <1>5, MovedRaw
<1>7. \A k \in DOMAIN n : e.nodes[k].syncId = n[k].syncId
  BY <1>3, <1>4, <1>5, MovedRaw
<1> QED BY <1>6, <1>7, TheirDocument, RawShaped DEF Made

\* One edit of another user: a map with the same root, which may have one more node.
LEMMA TheirEditsOf ==
  ASSUME used \in SUBSET Identity, NEW c, RoomTyped(c, used), NEW x \in TheirEdits(c)
  PROVE  RoomTyped(x, used \cup DOMAIN x.nodes) /\ DOMAIN x.nodes \subseteq Identity /\ Held(x, RootOf(c))
<1> DEFINE b == Project(c)
           d == Loaded(b)
           r == RootOf(c)
<1>1. Loadable(b)
  BY DEF TheirEdits
<1>2. PICK e \in TheirCommands(d) : x \in Results(c, Diff(Normalize(d), Normalize(Rebuild(e))))
  BY <1>1 DEF TheirEdits
<1>3. /\ IsFile(b) /\ IdentitiesOf(b.nodes) \subseteq used /\ Root \in DOMAIN b.nodes /\ b.nodes[Root].syncId = r
      /\ Held(c, r)
  <2>1. LiveDoc(c, used) /\ ChildrenOf(c, NoParent) # {} /\ DOMAIN c.nodes \subseteq used /\ Held(c, r)
    BY RoomRoot DEF LiveDoc
  <2> QED BY <2>1, ProjectFile
<1>4. Sound(d, used) /\ Alike(d.nodes, b.nodes)
  BY <1>1, <1>3, LoadedSound
<1> HIDE DEF b, d
<1>5. d.nodes[Root].syncId = r /\ Sound(d, Identity) /\ IdentitiesOf(d.nodes) \subseteq used
  <2>1. Sound(d, Identity)
    BY <1>4, MoreIdentities
  <2> QED BY <1>3, <1>4, <2>1 DEF Alike, Sound, Raw
<1>6. Made(e, d)
  BY <1>2, <1>5, TheirLooksOf, TheirContentsOf, TheirKindsOf, TheirRelationsOf, TheirRemovalsOf,
     TheirAdditionsOf, TheirMovesOf DEF TheirCommands
<1>7. Shaped(d, Identity) /\ Shaped(e, Identity) /\ e.nodes[Root].syncId = r
  BY <1>5, <1>6, TheirDocument DEF Made
<1> DEFINE before == Normalize(d)
           after == Normalize(Rebuild(e))
           ops == Diff(before, after)
<1>8. RoomTyped(before, Identity) /\ RootOf(before) = r
  BY <1>5, <1>7, NormalizeLive DEF RoomTyped
<1>9. RoomTyped(after, Identity) /\ RootOf(after) = r
  BY <1>7, RebuiltShaped
<1> HIDE DEF before, after
<1>10. LiveDoc(before, Identity) /\ LiveDoc(after, Identity) /\ Held(before, r) /\ Held(after, r)
  BY <1>8, <1>9, RoomRoot
<1>11. BatchTyped(ops, Identity) /\ Keeps(ops, r)
  BY <1>10, DiffOf
<1>12. LiveDoc(c, Identity)
  <2>1. RoomTyped(c, Identity)
    BY MoreIdentities
  <2> QED BY <2>1 DEF RoomTyped
<1>13. x \in Results(c, ops)
  BY <1>2 DEF before, after
<1> HIDE DEF ops, r
<1>14. LiveDoc(x, Identity) /\ Cardinality(ChildrenOf(x, NoParent)) = 1 /\ Held(x, r)
  BY <1>3, <1>11, <1>12, <1>13, ResultsOf
<1>15. RoomTyped(x, Identity) /\ DOMAIN x.nodes \subseteq Identity
  BY <1>14, OneRoot DEF LiveDoc
<1>16. RoomTyped(x, used \cup DOMAIN x.nodes)
  BY <1>15 DEF RoomTyped, LiveDoc
<1> QED BY <1>14, <1>15, <1>16 DEF r

-----------------------------------------------------------------------------
(***************************************************************************)
(* Local numbers of what a message brings.                                 *)
(***************************************************************************)
\* A number for each identity, below the next to give.
Numbers(known) ==
  /\ known.next \in Nat \ {0}
  /\ \A u \in DOMAIN known.of : known.of[u] \in 1 .. known.next - 1
  /\ \A u, v \in DOMAIN known.of : known.of[u] = known.of[v] => u = v

\* What the later ones keep of the earlier ones.
Extends(later, known) ==
  /\ DOMAIN known.of \subseteq DOMAIN later.of /\ known.next <= later.next
  /\ \A u \in DOMAIN known.of : later.of[u] = known.of[u]

\* The nodes that have their number.
Placed(n, known) ==
  \A i \in DOMAIN n : n[i].syncId \in DOMAIN known.of /\ known.of[n[i].syncId] = i

LEMMA MeetOf ==
  ASSUME NEW known, Numbers(known), NEW uids \in SUBSET Identity
  PROVE  /\ Numbers(Meet(known, uids)) /\ Extends(Meet(known, uids), known)
         /\ uids \subseteq DOMAIN Meet(known, uids).of
<1> DEFINE new == InOrder(uids \ DOMAIN known.of)
           f == known.of
           g == [u \in ToSet(new) |-> known.next + Position(new, u) - 1]
           h == Over(f, g)
           m == Meet(known, uids)
           a == known.next
<1>1. m = [of |-> h, next |-> known.next + Len(new)]
  BY DEF Meet
<1>2. /\ new \in Seq(Identity) /\ ToSet(new) = uids \ DOMAIN f /\ IsInjective(new) /\ Len(new) \in Nat
      /\ DOMAIN new = 1 .. Len(new)
  <2>1. uids \ DOMAIN f \in SUBSET Identity
    OBVIOUS
  <2> QED BY <2>1, InOrderOf, LenProperties
<1> HIDE DEF new
<1>3. \A u \in ToSet(new) : Position(new, u) \in 1 .. Len(new) /\ new[Position(new, u)] = u
  BY <1>2 DEF ToSet, Position
<1>4. DOMAIN g = ToSet(new) /\ \A u \in ToSet(new) : g[u] = a + Position(new, u) - 1
  OBVIOUS
<1> HIDE DEF g
<1>5. /\ DOMAIN h = DOMAIN f \cup DOMAIN g /\ \A u \in DOMAIN f : h[u] = f[u]
      /\ \A u \in DOMAIN g \ DOMAIN f : h[u] = g[u]
  BY OverIs
<1>6. m.of = h /\ m.next = a + Len(new)
  BY <1>1
<1> HIDE DEF h, m
<1>7. a \in Nat \ {0} /\ \A u \in DOMAIN f : f[u] \in 1 .. a - 1
  BY DEF Numbers
<1>8. m.next \in Nat \ {0} /\ a <= m.next
  BY <1>2, <1>6, <1>7
<1>9. DOMAIN g \cap DOMAIN f = {} /\ uids \subseteq DOMAIN h
  BY <1>2, <1>4, <1>5
<1>10. \A u \in DOMAIN g : h[u] = a + Position(new, u) - 1 /\ h[u] \in a .. m.next - 1
  <2> TAKE u \in DOMAIN g
  <2>1. h[u] = a + Position(new, u) - 1 /\ Position(new, u) \in 1 .. Len(new)
    BY <1>3, <1>4, <1>5, <1>9
  <2> DEFINE p == Position(new, u)
             l == Len(new)
  <2>2. p \in 1 .. l /\ l \in Nat /\ h[u] = a + p - 1 /\ m.next = a + l
    BY <1>2, <1>6, <2>1
  <2> HIDE DEF p, l
  <2>3. h[u] \in a .. m.next - 1
    BY <1>7, <2>2
  <2> QED BY <2>1, <2>3
<1>11. ASSUME NEW u \in DOMAIN h PROVE h[u] \in 1 .. m.next - 1
  <2>1. CASE u \in DOMAIN f
    BY <1>5, <1>7, <1>8, <2>1
  <2>2. CASE u \in DOMAIN g
    <3>1. h[u] \in a .. m.next - 1
      BY <1>10, <2>2
    <3> QED BY <1>7, <1>8, <3>1
  <2> QED BY <1>5, <2>1, <2>2
<1>12. ASSUME NEW u \in DOMAIN h, NEW v \in DOMAIN h, h[u] = h[v] PROVE u = v
  <2>1. CASE u \in DOMAIN f /\ v \in DOMAIN f
    BY <1>5, <1>12, <2>1 DEF Numbers
  <2>2. CASE u \in DOMAIN g /\ v \in DOMAIN g
    <3> DEFINE p == Position(new, u)
               q == Position(new, v)
    <3>1. p \in 1 .. Len(new) /\ q \in 1 .. Len(new) /\ new[p] = u /\ new[q] = v
          /\ h[u] = a + p - 1 /\ h[v] = a + q - 1
      BY <1>3, <1>4, <1>10, <2>2
    <3> HIDE DEF p, q, a
    <3>2. p = q
      <4>1. a + p - 1 = a + q - 1
        BY <1>12, <3>1
      <4>2. a \in Int /\ p \in Int /\ q \in Int
        BY <1>2, <1>7, <3>1
      <4> QED BY <4>1, <4>2
    <3> QED BY <3>1, <3>2
  <2>3. CASE u \in DOMAIN f /\ v \in DOMAIN g
    <3>1. h[u] \in 1 .. a - 1 /\ h[v] \in a .. m.next - 1
      BY <1>5, <1>7, <1>10, <2>3
    <3> QED BY <1>7, <1>8, <1>12, <3>1
  <2>4. CASE u \in DOMAIN g /\ v \in DOMAIN f
    <3>1. h[v] \in 1 .. a - 1 /\ h[u] \in a .. m.next - 1
      BY <1>5, <1>7, <1>10, <2>4
    <3> QED BY <1>7, <1>8, <1>12, <3>1
  <2> QED BY <1>5, <2>1, <2>2, <2>3, <2>4
<1>13. Numbers(m)
  BY <1>6, <1>8, <1>11, <1>12 DEF Numbers
<1>14. Extends(m, known)
  BY <1>5, <1>6, <1>8 DEF Extends
<1> QED BY <1>6, <1>9, <1>13, <1>14 DEF m

LEMMA LocalNumbersOf ==
  ASSUME NEW d, NEW uids, Sound(d, uids), NEW r
  PROVE  /\ Numbers(LocalNumbers(d, r)) /\ r \in DOMAIN LocalNumbers(d, r).of
         /\ LocalNumbers(d, r).of[r] = Root
         /\ d.nodes[Root].syncId = r => Placed(d.nodes, LocalNumbers(d, r))
<1> DEFINE n == d.nodes
           kept == {i \in DOMAIN n : i # Root /\ n[i].syncId # r}
           own == {n[i].syncId : i \in kept}
           f == Single(r, Root)
           g == [u \in own |-> CHOOSE i \in kept : n[i].syncId = u]
           h == Over(f, g)
           S == {d.nextId} \cup {i + 1 : i \in DOMAIN n}
           m == LocalNumbers(d, r)
<1>1. m = [of |-> h, next |-> Highest(S)]
  BY DEF LocalNumbers
<1>2. IsDocument(d) /\ IsTree(n) /\ Distinct(n)
  BY DEF Sound, Raw
<1>3. /\ IsFiniteSet(DOMAIN n) /\ DOMAIN n \subseteq Nat \ {0} /\ Root \in DOMAIN n /\ d.nextId \in Nat
  BY <1>2 DEF IsTree, Tree, Typed, Linked, IsDocument
<1>4. S \in SUBSET Int /\ IsFiniteSet(S) /\ S # {}
  <2> DEFINE T == {i + 1 : i \in DOMAIN n}
  <2>1. IsFiniteSet(T)
    <3>1. T \subseteq 1 .. d.nextId
      <4>1. DOMAIN n \subseteq 1 .. d.nextId - 1
        BY DEF Sound, Raw
      <4> QED BY <1>3, <4>1
    <3>2. 1 \in Int /\ d.nextId \in Int
      BY <1>3
    <3>3. IsFiniteSet(1 .. d.nextId)
      BY <3>2, FS_Interval
    <3> QED BY <3>1, <3>3, FS_Subset
  <2>2. IsFiniteSet({d.nextId})
    BY FS_Singleton
  <2>3. IsFiniteSet({d.nextId} \cup T)
    BY <2>1, <2>2, FS_Union
  <2>4. T \subseteq Int
    BY <1>3
  <2>5. S = {d.nextId} \cup T
    OBVIOUS
  <2> DEFINE x == d.nextId
  <2>6. x \in Int /\ S = {x} \cup T /\ IsFiniteSet({x} \cup T)
    BY <1>3, <2>3, <2>5
  <2> HIDE DEF T, S, x
  <2>7. S \subseteq Int /\ S # {}
    BY <2>4, <2>6
  <2> QED BY <2>6, <2>7
<1>5. Highest(S) \in S /\ \A k \in S : k <= Highest(S)
  BY <1>4, HighestOf
<1> DEFINE a == Highest(S)
<1>6. a \in Nat \ {0} /\ \A i \in DOMAIN n : i \in 1 .. a - 1
  <2>1. \A i \in DOMAIN n : i + 1 \in S
    OBVIOUS
  <2>2. d.nextId \in S
    OBVIOUS
  <2> HIDE DEF S
  <2>3. a \in Int /\ d.nextId <= a /\ \A i \in DOMAIN n : i + 1 <= a
    BY <1>4, <1>5, <2>1, <2>2
  <2> HIDE DEF a
  <2> QED BY <1>3, <2>3
<1> HIDE DEF S
<1>7. DOMAIN f = {r} /\ f[r] = Root
  BY SingleIs
<1>8. DOMAIN g = own /\ \A u \in own : g[u] \in kept /\ n[g[u]].syncId = u
  OBVIOUS
<1>17. n[Root].syncId = r => \A i \in DOMAIN n \ {Root} : i \in kept /\ n[i].syncId \in own /\ g[n[i].syncId] = i
  <2> SUFFICES ASSUME n[Root].syncId = r, NEW i \in DOMAIN n \ {Root}
               PROVE  i \in kept /\ n[i].syncId \in own /\ g[n[i].syncId] = i
    OBVIOUS
  <2>1. i \in kept
    BY <1>2, <1>3 DEF Distinct
  <2>2. n[i].syncId \in own
    BY <2>1
  <2>3. g[n[i].syncId] \in DOMAIN n /\ n[g[n[i].syncId]].syncId = n[i].syncId
    BY <1>8, <2>2
  <2> HIDE DEF g
  <2> QED BY <1>2, <2>1, <2>2, <2>3 DEF Distinct
<1> HIDE DEF f, g, own
<1>9. /\ DOMAIN h = DOMAIN f \cup DOMAIN g /\ \A u \in DOMAIN f : h[u] = f[u]
      /\ \A u \in DOMAIN g \ DOMAIN f : h[u] = g[u]
  BY OverIs
<1>10. m.of = h /\ m.next = a
  BY <1>1
<1> HIDE DEF h, m, a
<1>11. r \in DOMAIN h /\ h[r] = Root
  BY <1>7, <1>9
<1>12. r \notin own
  BY DEF own
<1>13. ASSUME NEW u \in DOMAIN h, u # r
       PROVE  u \in own /\ h[u] \in kept /\ n[h[u]].syncId = u
  BY <1>7, <1>8, <1>9, <1>13
<1>14. ASSUME NEW u \in DOMAIN h PROVE h[u] \in 1 .. a - 1
  <2>1. CASE u = r
    BY <1>3, <1>6, <1>11, <2>1
  <2>2. CASE u # r
    BY <1>6, <1>13, <2>2
  <2> QED BY <2>1, <2>2
<1>15. ASSUME NEW u \in DOMAIN h, NEW v \in DOMAIN h, h[u] = h[v] PROVE u = v
  <2>1. CASE u # r /\ v # r
    BY <1>13, <1>15, <2>1
  <2>2. CASE u = r /\ v # r
    BY <1>11, <1>13, <1>15, <2>2
  <2>3. CASE u # r /\ v = r
    BY <1>11, <1>13, <1>15, <2>3
  <2> QED BY <2>1, <2>2, <2>3
<1>16. Numbers(m)
  BY <1>6, <1>10, <1>14, <1>15 DEF Numbers
<1>18. n[Root].syncId = r => Placed(n, m)
  <2> SUFFICES ASSUME n[Root].syncId = r, NEW i \in DOMAIN n
               PROVE  n[i].syncId \in DOMAIN h /\ h[n[i].syncId] = i
    BY <1>10 DEF Placed
  <2>1. CASE i = Root
    BY <1>11, <2>1
  <2>2. CASE i # Root
    <3>1. n[i].syncId \in own /\ g[n[i].syncId] = i
      BY <1>17, <2>2
    <3>2. n[i].syncId # r
      BY <1>12, <3>1
    <3> QED BY <1>7, <1>8, <1>9, <3>1, <3>2
  <2> QED BY <2>1, <2>2
<1> QED BY <1>10, <1>11, <1>16, <1>18 DEF m

\* A state with its root where the commands look for it.
Rooted(s) == Root \in DOMAIN s.nodes /\ s.nodes[Root].parent = None

\* A document with other numbers.
LEMMA RenumberedOf ==
  ASSUME NEW d, NEW uids, Sound(d, uids), NEW known, Numbers(known),
         IdentitiesOf(d.nodes) \subseteq DOMAIN known.of
  PROVE  /\ Rooted(Renumbered(d, known)) => known.of[d.nodes[Root].syncId] = Root
         /\ known.of[d.nodes[Root].syncId] = Root =>
              /\ Raw(Renumbered(d, known), uids) /\ Settled(Renumbered(d, known).nodes)
              /\ Rooted(Renumbered(d, known))
              /\ Renumbered(d, known).nodes[Root].syncId = d.nodes[Root].syncId
         /\ Renumbered(d, known).nextId = known.next /\ Placed(Renumbered(d, known).nodes, known)
         /\ Words(Renumbered(d, known).nodes) = Words(d.nodes)
<1> DEFINE n == d.nodes
           of == known.of
           a == known.next
           N == [i \in DOMAIN n |-> of[n[i].syncId]]
           number(i) == IF i = None THEN None ELSE of[n[i].syncId]
           node(i) == [n[i] EXCEPT !.parent = number(@), !.children = [k \in DOMAIN @ |-> number(@[k])]]
           m == [k \in {number(i) : i \in DOMAIN n} |->
                  LET i == CHOOSE i \in DOMAIN n : number(i) = k IN node(i)]
           cs == [k \in DOMAIN d.connections |-> <<number(d.connections[k][1]), number(d.connections[k][2])>>]
           e == Renumbered(d, known)
<1>0. e = [d EXCEPT !.nodes = m, !.connections = cs, !.nextId = a]
  <2>1. e = [d EXCEPT !.nodes = Table(m), !.connections = cs, !.nextId = a]
    BY DEF Renumbered
  <2> HIDE DEF e, m, cs, a
  <2> QED BY <2>1, TableIs
<1>1. /\ IsDocument(d) /\ IsTree(n) /\ ValidNodes(n) /\ Distinct(n) /\ Settled(n)
      /\ IdentitiesOf(n) \subseteq uids /\ Cardinality(DOMAIN n) <= MaxNodes /\ Joins(d)
      /\ ~(d.layout = "Compact" /\ d.manual) /\ (d.selected = None => d.selection = {})
  BY DEF Sound, Raw
<1>2. PICK dep : Tree(n, dep)
  BY <1>1 DEF IsTree
<1>3. /\ n \in [DOMAIN n -> Node] /\ Root \in DOMAIN n /\ None \notin DOMAIN n /\ n[Root].parent = None
      /\ \A i \in DOMAIN n \ {Root} : n[i].parent \in DOMAIN n
      /\ \A i \in DOMAIN n : Kids(n, i) \subseteq DOMAIN n
  <2>1. Typed(n) /\ Linked(n)
    BY <1>2 DEF Tree
  <2>2. None \notin DOMAIN n
    BY <1>2, <2>1, KidsDeeper DEF Linked
  <2> QED BY <2>1, <2>2 DEF Typed, Linked
<1>4. a \in Nat \ {0} /\ \A i \in DOMAIN n : N[i] \in 1 .. a - 1 /\ number(i) = N[i]
  <2>1. \A i \in DOMAIN n : n[i].syncId \in DOMAIN of
    BY DEF IdentitiesOf
  <2> QED BY <1>3, <2>1 DEF Numbers
<1>5. \A i, j \in DOMAIN n : N[i] = N[j] => i = j
  <2>1. \A i \in DOMAIN n : n[i].syncId \in DOMAIN of
    BY DEF IdentitiesOf
  <2> QED BY <1>1, <2>1 DEF Numbers, Distinct
<1>6. N \in [DOMAIN n -> Nat \ {0}]
  <2>1. N = [i \in DOMAIN n |-> N[i]]
    OBVIOUS
  <2> HIDE DEF N, a
  <2>2. \A i \in DOMAIN n : N[i] \in Nat \ {0}
    BY <1>4
  <2> QED BY <2>1, <2>2
<1>r. N[Root] = of[d.nodes[Root].syncId]
  BY <1>3
<1>c. DOMAIN cs = DOMAIN d.connections
      /\ \A k \in DOMAIN d.connections : cs[k] = <<number(d.connections[k][1]), number(d.connections[k][2])>>
  OBVIOUS
<1> HIDE DEF N, a, of, cs
<1>7. ASSUME NEW i \in DOMAIN n
      PROVE  /\ node(i) \in Node /\ Same(node(i), n[i])
             /\ node(i).parent = (IF i = Root THEN None ELSE N[n[i].parent])
             /\ node(i).children = [k \in DOMAIN n[i].children |-> N[n[i].children[k]]]
  <2> DEFINE x == n[i]
             p == number(x.parent)
             ch == [k \in DOMAIN x.children |-> number(x.children[k])]
             y == node(i)
  <2>1. x \in Node /\ x.children \in Seq(Int)
    BY <1>3 DEF Node
  <2>2. p = (IF i = Root THEN None ELSE N[x.parent])
    BY <1>3, <1>4
  <2>3. p \in Int
    <3>1. CASE i = Root
      BY <2>2, <3>1 DEF None
    <3>2. CASE i # Root
      BY <1>3, <1>4, <2>2, <3>2
    <3> QED BY <3>1, <3>2
  <2>4. \A k \in DOMAIN x.children : x.children[k] \in DOMAIN n
    BY <1>3 DEF Kids, ToSet
  <2>5. ch = [k \in DOMAIN x.children |-> N[x.children[k]]]
    BY <1>4, <2>4
  <2>6. ch \in Seq(Int)
    <3>1. DOMAIN x.children = 1 .. Len(x.children) /\ Len(x.children) \in Nat
      BY <2>1, LenProperties
    <3>2. \A k \in 1 .. Len(x.children) : ch[k] \in Int
      BY <1>4, <2>4, <2>5, <3>1, SMTT(30)
    <3>3. ch = [k \in 1 .. Len(x.children) |-> ch[k]]
      BY <3>1
    <3> HIDE DEF ch
    <3>4. ch \in [1 .. Len(x.children) -> Int]
      BY <3>2, <3>3
    <3> QED BY <3>1, <3>4
  <2>7. y = [x EXCEPT !.parent = p, !.children = ch]
    BY <2>1 DEF Node
  <2> HIDE DEF x, p, ch, y
  <2>8. /\ y.parent = p /\ y.children = ch /\ y \in Node /\ Same(y, x)
    BY <2>1, <2>3, <2>6, <2>7 DEF Node, Same
  <2> QED BY <2>2, <2>5, <2>8 DEF x, y
<1> HIDE DEF node
<1>8. /\ DOMAIN m = {N[i] : i \in DOMAIN n} /\ m = [k \in DOMAIN m |-> m[k]]
      /\ \A i \in DOMAIN n : m[N[i]] = node(i)
  <2>1. DOMAIN m = {number(i) : i \in DOMAIN n}
    OBVIOUS
  <2>2. DOMAIN m = {N[i] : i \in DOMAIN n}
    BY <1>4, <2>1
  <2>3. ASSUME NEW i \in DOMAIN n PROVE m[N[i]] = node(i)
    <3>1. N[i] \in DOMAIN m
      BY <2>2
    <3> DEFINE j == CHOOSE j \in DOMAIN n : number(j) = N[i]
    <3>2. m[N[i]] = node(j)
      BY <2>1, <3>1
    <3>3. j \in DOMAIN n /\ number(j) = N[i]
      BY <1>4
    <3> HIDE DEF j, number
    <3>4. j = i
      BY <1>4, <1>5, <3>3
    <3> QED BY <3>2, <3>4
  <2> QED BY <2>2, <2>3
<1> HIDE DEF m
<1>9. Relabelled(m, n, N)
  BY <1>5, <1>6, <1>7, <1>8 DEF Relabelled
<1>10. e.nodes = m /\ e.connections = cs /\ e.nextId = a /\ e.layout = d.layout /\ e.manual = d.manual
       /\ e.look = d.look /\ e.selected = d.selected /\ e.selection = d.selection
  BY <1>0, <1>1 DEF IsDocument
<1>11. ASSUME Rooted(e) PROVE N[Root] = Root
  <2>1. PICK i \in DOMAIN n : N[i] = Root
    BY <1>8, <1>10, <1>11 DEF Rooted
  <2>2. m[Root].parent = None
    BY <1>10, <1>11 DEF Rooted
  <2>3. i = Root
    <3>1. m[Root].parent = (IF i = Root THEN None ELSE N[n[i].parent])
      BY <1>7, <1>8, <2>1
    <3>2. i # Root => N[n[i].parent] \in 1 .. a - 1
      BY <1>3, <1>4
    <3> QED BY <1>4, <2>2, <3>1, <3>2 DEF None
  <2> QED BY <2>1, <2>3
<1>12. ASSUME N[Root] = Root
       PROVE  Raw(e, uids) /\ Settled(m) /\ Rooted(e) /\ m[Root].syncId = n[Root].syncId
  <2>1. /\ IsTree(m) /\ IdentitiesOf(m) = IdentitiesOf(n) /\ ValidNodes(m) /\ Distinct(m) /\ Settled(m)
        /\ Cardinality(DOMAIN m) = Cardinality(DOMAIN n)
    BY <1>1, <1>2, <1>9, <1>12, RelabelledTree
  <2>2. m[Root].syncId = n[Root].syncId /\ m[Root].parent = None /\ Root \in DOMAIN m
    <3>1. m[N[Root]] = node(Root) /\ N[Root] \in DOMAIN m
      BY <1>3, <1>8
    <3>2. Same(node(Root), n[Root]) /\ node(Root).parent = None
      BY <1>3, <1>7
    <3> QED BY <1>12, <3>1, <3>2 DEF Same
  <2>3. d.connections \in Seq(Int \X Int)
    BY <1>1 DEF IsDocument
  <2>4. ASSUME NEW k \in DOMAIN d.connections
        PROVE  /\ cs[k][1] \in DOMAIN m /\ cs[k][2] \in DOMAIN m /\ cs[k][1] # cs[k][2]
               /\ cs[k] \in Int \X Int
    <3> DEFINE x == d.connections[k][1]
               y == d.connections[k][2]
    <3>1. x \in DOMAIN n /\ y \in DOMAIN n /\ x # y
      BY <1>1 DEF Joins
    <3>2. cs[k] = <<N[x], N[y]>>
      BY <1>4, <1>c, <3>1
    <3> HIDE DEF x, y
    <3>3. N[x] # N[y] /\ N[x] \in Int /\ N[y] \in Int /\ N[x] \in DOMAIN m /\ N[y] \in DOMAIN m
      BY <1>4, <1>5, <1>8, <3>1
    <3> QED BY <3>2, <3>3
  <2>5. cs \in Seq(Int \X Int)
    <3>1. DOMAIN d.connections = 1 .. Len(d.connections) /\ Len(d.connections) \in Nat
      BY <2>3, LenProperties
    <3>2. cs = [k \in 1 .. Len(d.connections) |-> cs[k]]
      BY <3>1 DEF cs
    <3>3. \A k \in 1 .. Len(d.connections) : cs[k] \in Int \X Int
      BY <2>4, <3>1
    <3> DEFINE l == Len(d.connections)
               T == Int \X Int
    <3> HIDE DEF l, T
    <3>4. cs \in [1 .. l -> T]
      BY <3>2, <3>3 DEF l, T
    <3>5. l \in Nat
      BY <3>1 DEF l
    <3>6. cs \in Seq(T)
      BY <3>4, <3>5
    <3> QED BY <3>6 DEF T
  <2>6. Joins(e)
    BY <1>10, <1>c, <2>4 DEF Joins
  <2>7. DOMAIN m \subseteq 1 .. a - 1
    BY <1>4, <1>8
  <2>8. IsDocument(e)
    <3>1. /\ d \in [nodes : {d.nodes}, connections : Seq(Int \X Int), layout : Layout, manual : BOOLEAN,
                    look : Content, selected : Int, selection : SUBSET Int, nextId : Nat]
      BY <1>1 DEF IsDocument
    <3> DEFINE T == Seq(Int \X Int)
    <3>2. cs \in T /\ a \in Nat
      BY <1>4, <2>5
    <3> HIDE DEF T, e
    <3>3. e \in [nodes : {e.nodes}, connections : T, layout : Layout, manual : BOOLEAN,
                 look : Content, selected : Int, selection : SUBSET Int, nextId : Nat]
      BY <1>0, <1>10, <3>1, <3>2 DEF T
    <3> QED BY <3>3 DEF IsDocument, T
  <2>9. Raw(e, uids)
    BY <1>1, <1>10, <2>1, <2>6, <2>7, <2>8 DEF Raw
  <2> QED BY <1>10, <2>1, <2>2, <2>9 DEF Rooted
<1>13. Placed(m, known)
  <2> SUFFICES ASSUME NEW k \in DOMAIN m
               PROVE  m[k].syncId \in DOMAIN known.of /\ known.of[m[k].syncId] = k
    BY DEF Placed
  <2>1. PICK i \in DOMAIN n : k = N[i]
    BY <1>8
  <2>2. m[k].syncId = n[i].syncId
    BY <1>7, <1>8, <2>1, ZenonT(40) DEF Same
  <2>3. n[i].syncId \in DOMAIN known.of /\ N[i] = known.of[n[i].syncId]
    BY DEF IdentitiesOf, N, of
  <2> QED BY <2>1, <2>2, <2>3
<1>14. Words(m) = Words(n)
  <2>1. \A i \in DOMAIN n : m[N[i]].syncId = n[i].syncId /\ m[N[i]].content = n[i].content
    BY <1>7, <1>8, ZenonT(40) DEF Same
  <2>2. {<<m[k].syncId, m[k].content>> : k \in DOMAIN m} = {<<n[i].syncId, n[i].content>> : i \in DOMAIN n}
    BY <1>8, <2>1
  <2> QED BY <2>2 DEF Words
<1> HIDE DEF e
<1> QED BY <1>r, <1>10, <1>11, <1>12, <1>13, <1>14 DEF e, of, a, n

\* The nodes that were selected stay selected.
LEMMA KeptSelection ==
  ASSUME NEW e, NEW uids, Raw(e, uids), NEW old
  PROVE  /\ Raw(KeepSelection(e, old), uids) /\ KeepSelection(e, old).nodes = e.nodes
         /\ Settled(e.nodes) => Sound(KeepSelection(e, old), uids)
<1> DEFINE same(i) == {j \in DOMAIN e.nodes :
                         i \in DOMAIN old.nodes /\ e.nodes[j].syncId = old.nodes[i].syncId}
           s == IF same(old.selected) = {} THEN Root ELSE CHOOSE j \in same(old.selected) : TRUE
           kept == UNION {same(i) : i \in old.selection}
           S == IF kept = {} THEN {s} ELSE kept
           x == [e EXCEPT !.selected = s, !.selection = S]
<1>1. x = KeepSelection(e, old)
  BY DEF KeepSelection
<1>2. IsDocument(e) /\ Root \in DOMAIN e.nodes /\ DOMAIN e.nodes \subseteq Int /\ None \notin DOMAIN e.nodes
  <2>1. IsDocument(e) /\ IsTree(e.nodes)
    BY DEF Raw
  <2>2. Root \in DOMAIN e.nodes /\ DOMAIN e.nodes \subseteq Nat \ {0}
    BY <2>1 DEF IsTree, Tree, Typed, Linked
  <2> QED BY <2>1, <2>2 DEF None
<1>3. s \in DOMAIN e.nodes
  BY <1>2
<1>4. S \subseteq DOMAIN e.nodes
  BY <1>3
<1> HIDE DEF s, S
<1>5. s \in Int /\ S \in SUBSET Int /\ s # None
  BY <1>2, <1>3, <1>4
<1>6. Raw(x, uids)
  BY <1>5, SelectRaw
<1>7. x.nodes = e.nodes /\ x.selected = s /\ x.selection = S
  BY <1>2 DEF IsDocument
<1> HIDE DEF x
<1>8. Settled(e.nodes) => Sound(x, uids)
  BY <1>3, <1>4, <1>6, <1>7 DEF Sound
<1> QED BY <1>1, <1>6, <1>7, <1>8

LEMMA KeptNodes ==
  ASSUME NEW e, "nodes" \in DOMAIN e, NEW old
  PROVE  KeepSelection(e, old).nodes = e.nodes
BY DEF KeepSelection

LEMMA ExtendsOn ==
  ASSUME NEW a, NEW b, NEW c, Numbers(a), Numbers(b), Numbers(c), Extends(b, a), Extends(c, b)
  PROVE  Extends(c, a)
BY DEF Extends, Numbers

\* What the operations make a state say, one way or none.
LaidWords(old, ops) == {SharedWords(x) : x \in Results(Normalize(Rebuild(old)), ops)}

Took(q, r, old, ops, s, uids) ==
  /\ q.stack = Append(r.stack, s) /\ Numbers(q.known) /\ Extends(q.known, r.known)
  /\ Words(s.nodes) \in LaidWords(old, ops)
  /\ Rooted(s) => Sound(s, uids)
  /\ \A u \in DOMAIN r.known.of :
       old.nodes[Root].syncId = u /\ Keeps(ops, u) /\ r.known.of[u] = Root
         => Sound(s, uids) /\ s.nodes[Root].syncId = u

\* One state of the history, with the operations of a message; a root that these
\* leave alone, and that has its number, keeps it.
LEMMA RebasedStateOf ==
  ASSUME NEW uids \in SUBSET Identity, NEW r, Numbers(r.known), NEW old, Sound(old, uids),
         NEW ops, BatchTyped(ops, uids)
  PROVE  \/ RebasedState(r, old, ops) = r
         \/ \E s : Took(RebasedState(r, old, ops), r, old, ops, s, uids)
<1> DEFINE c == Normalize(Rebuild(old))
           merged == {b \in {Project(x) : x \in Results(c, ops)} : Loadable(b)}
           b == CHOOSE b \in merged : TRUE
           next == Loaded(b)
           known == Meet(r.known, IdentitiesOf(next.nodes))
           e == Renumbered(next, known)
           s == KeepSelection(e, old)
           q == RebasedState(r, old, ops)
<1>1. q = IF merged = {} THEN r ELSE [known |-> known, stack |-> Append(r.stack, s)]
  BY DEF RebasedState
<1>2. CASE merged = {}
  BY <1>1, <1>2
<1>3. CASE merged # {}
  <2>1. b \in merged
    BY <1>3
  <2> HIDE DEF b
  <2>2. PICK x \in Results(c, ops) : b = Project(x)
    BY <2>1
  <2>3. Loadable(b)
    BY <2>1
  <2> HIDE DEF merged
  <2>r. SharedWords(x) \in LaidWords(old, ops)
    BY <2>2 DEF LaidWords
  <2>4. RoomTyped(c, uids) /\ RootOf(c) = old.nodes[Root].syncId
    <3>1. Shaped(old, uids)
      BY RawShaped DEF Sound
    <3> QED BY <3>1, RebuiltShaped
  <2> HIDE DEF c
  <2>5. LiveDoc(c, uids) /\ Held(c, old.nodes[Root].syncId)
    BY <2>4, RoomRoot
  <2>6. LiveDoc(x, uids) /\ Cardinality(ChildrenOf(x, NoParent)) = 1
    BY <2>2, <2>5, ResultsOf
  <2>7. RoomTyped(x, uids) /\ ChildrenOf(x, NoParent) # {} /\ \A u : Held(x, u) => u = RootOf(x)
    BY <2>6, OneRoot, RoomRoot
  <2>8. /\ IsFile(b) /\ IdentitiesOf(b.nodes) \subseteq uids /\ Root \in DOMAIN b.nodes
        /\ b.nodes[Root].syncId = RootOf(x)
    BY <2>2, <2>6, <2>7, ProjectFile DEF LiveDoc
  <2>9. Sound(next, uids) /\ Alike(next.nodes, b.nodes)
    BY <2>3, <2>8, LoadedSound
  <2>w. Words(next.nodes) = SharedWords(x)
    BY <2>2, <2>3, <2>6, <2>7, <2>8, LoadedWords, ProjectWords
  <2> HIDE DEF next
  <2>10. IdentitiesOf(next.nodes) \in SUBSET Identity /\ next.nodes[Root].syncId = RootOf(x)
         /\ RootOf(x) \in IdentitiesOf(next.nodes) /\ IsDocument(next)
    <3>1. Root \in DOMAIN next.nodes /\ next.nodes[Root].syncId = RootOf(x)
      BY <2>8, <2>9 DEF Alike
    <3> QED BY <2>9, <3>1 DEF Sound, Raw, IdentitiesOf
  <2>11. Numbers(known) /\ Extends(known, r.known) /\ IdentitiesOf(next.nodes) \subseteq DOMAIN known.of
    BY <2>10, MeetOf
  <2> HIDE DEF known
  <2>12. /\ Rooted(e) => known.of[RootOf(x)] = Root
         /\ known.of[RootOf(x)] = Root =>
              Raw(e, uids) /\ Settled(e.nodes) /\ e.nodes[Root].syncId = RootOf(x)
         /\ Words(e.nodes) = Words(next.nodes)
    <3> DEFINE u == next.nodes[Root].syncId
    <3>1. /\ Rooted(Renumbered(next, known)) => known.of[next.nodes[Root].syncId] = Root
          /\ known.of[next.nodes[Root].syncId] = Root =>
               /\ Raw(Renumbered(next, known), uids) /\ Settled(Renumbered(next, known).nodes)
               /\ Rooted(Renumbered(next, known))
               /\ Renumbered(next, known).nodes[Root].syncId = next.nodes[Root].syncId
          /\ Words(Renumbered(next, known).nodes) = Words(next.nodes)
      BY <2>9, <2>11, RenumberedOf
    <3> DEFINE g == Renumbered(next, known)
    <3>2. u = RootOf(x)
      BY <2>10
    <3>3. /\ Rooted(g) => known.of[u] = Root
          /\ known.of[u] = Root => Raw(g, uids) /\ Settled(g.nodes) /\ g.nodes[Root].syncId = u
          /\ Words(g.nodes) = Words(next.nodes)
      BY <3>1
    <3> HIDE DEF u, g
    <3>4. /\ Rooted(g) => known.of[RootOf(x)] = Root
          /\ known.of[RootOf(x)] = Root => Raw(g, uids) /\ Settled(g.nodes) /\ g.nodes[Root].syncId = RootOf(x)
          /\ Words(g.nodes) = Words(next.nodes)
      BY <3>2, <3>3
    <3> QED BY <3>4 DEF g
  <2>13. "nodes" \in DOMAIN e
    <3>1. \E m, cs, a : e = [next EXCEPT !.nodes = m, !.connections = cs, !.nextId = a]
      BY DEF Renumbered
    <3> HIDE DEF e
    <3> QED BY <2>10, <3>1 DEF IsDocument
  <2> HIDE DEF e
  <2>14. s.nodes = e.nodes
    BY <2>13, KeptNodes
  <2>15. known.of[RootOf(x)] = Root => Sound(s, uids) /\ s.nodes[Root].syncId = RootOf(x)
    BY <2>12, <2>14, KeptSelection
  <2>16. Rooted(s) => Sound(s, uids)
    BY <2>12, <2>14, <2>15 DEF Rooted
  <2>17. q.known = known /\ q.stack = Append(r.stack, s)
    BY <1>1, <1>3 DEF merged
  <2> HIDE DEF q, s
  <2>18. ASSUME NEW u \in DOMAIN r.known.of, old.nodes[Root].syncId = u, Keeps(ops, u), r.known.of[u] = Root
         PROVE  Sound(s, uids) /\ s.nodes[Root].syncId = u
    <3>1. Held(c, u)
      BY <2>5, <2>18
    <3>2. Held(x, u)
      BY <2>2, <2>5, <2>18, <3>1, ResultsOf
    <3>3. u = RootOf(x)
      BY <2>7, <3>2
    <3>4. known.of[u] = Root
      BY <2>11, <2>18 DEF Extends
    <3> QED BY <2>15, <3>3, <3>4
  <2>v. Words(s.nodes) \in LaidWords(old, ops)
    BY <2>12, <2>14, <2>r, <2>w
  <2>19. Took(q, r, old, ops, s, uids)
    BY <2>11, <2>16, <2>17, <2>18, <2>v DEF Took
  <2>20. \E t : Took(q, r, old, ops, t, uids)
    BY <2>19
  <2> QED BY <2>20 DEF q
<1> QED BY <1>2, <1>3

Rebasing(stack, ops, numbers, f) ==
  f = [k \in 0 .. Len(stack) |->
        IF k = 0 THEN [known |-> numbers, stack |-> <<>>] ELSE RebasedState(f[k - 1], stack[k], ops)]

LEMMA RebasingExists ==
  ASSUME NEW stack, NEW ops, NEW numbers, Len(stack) \in Nat
  PROVE  \E f : Rebasing(stack, ops, numbers, f)
<1> DEFINE Value(f, k) == IF k = 0 THEN [known |-> numbers, stack |-> <<>>] ELSE RebasedState(f[k - 1], stack[k], ops)
           Solved == {m \in Nat : \E f : f = [k \in 0 .. m |-> Value(f, k)]}
<1>1. 0 \in Solved
  <2> DEFINE first == [k \in 0 .. 0 |-> Value(k, 0)]
  <2>1. first = [k \in 0 .. 0 |-> Value(first, k)]
    OBVIOUS
  <2> QED BY <2>1
<1>2. ASSUME NEW m \in Solved PROVE m + 1 \in Solved
  <2>1. PICK f : f = [k \in 0 .. m |-> Value(f, k)]
    OBVIOUS
  <2> DEFINE g == [k \in 0 .. m + 1 |-> IF k = m + 1 THEN Value(f, k) ELSE f[k]]
  <2>2. ASSUME NEW k \in 0 .. m + 1 PROVE g[k] = Value(g, k)
    <3>1. k # 0 => k - 1 \in 0 .. m + 1 /\ k - 1 # m + 1
      OBVIOUS
    <3>2. k # 0 => g[k - 1] = f[k - 1]
      BY <3>1
    <3>3. Value(g, k) = Value(f, k)
      BY <3>2
    <3>4. CASE k = m + 1
      <4>1. g[k] = Value(f, k)
        BY <3>4
      <4> QED BY <3>3, <4>1
    <3>5. CASE k # m + 1
      <4>1. k \in 0 .. m
        BY <3>5
      <4>2. f[k] = Value(f, k)
        BY <2>1, <4>1
      <4>3. g[k] = f[k]
        BY <3>5
      <4> QED BY <3>3, <4>2, <4>3
    <3> QED BY <3>4, <3>5
  <2>3. g = [k \in 0 .. m + 1 |-> g[k]]
    OBVIOUS
  <2> HIDE DEF g, Value
  <2>4. g = [k \in 0 .. m + 1 |-> Value(g, k)]
    BY <2>2, <2>3
  <2> QED BY <2>4
<1>3. Len(stack) \in Solved
  <2> HIDE DEF Solved
  <2>1. Solved \in SUBSET Nat
    BY DEF Solved
  <2>2. Solved = Nat
    BY <1>1, <1>2, <2>1, InductiveSet
  <2> QED BY <2>2
<1> QED BY <1>3 DEF Rebasing

\* The history with the operations of a message.
RebasedTyped(r, numbers, k, uids) ==
  /\ Numbers(r.known) /\ Extends(r.known, numbers)
  /\ r.stack \in Seq(ToSet(r.stack)) /\ Len(r.stack) <= k
  /\ \A s \in ToSet(r.stack) : Rooted(s) => Sound(s, uids)

LaidFrom(S, T, ops) == \A s \in S : \E old \in T : Words(s.nodes) \in LaidWords(old, ops)
RootedAt(S, u, uids) == \A s \in S : Sound(s, uids) /\ s.nodes[Root].syncId = u

LEMMA RebasedOf ==
  ASSUME NEW uids \in SUBSET Identity, NEW stack, stack \in Seq(ToSet(stack)),
         \A s \in ToSet(stack) : Sound(s, uids),
         NEW ops, BatchTyped(ops, uids), NEW numbers, Numbers(numbers)
  PROVE  /\ RebasedTyped(Rebased(stack, ops, numbers), numbers, Len(stack), uids)
         /\ LaidFrom(ToSet(Rebased(stack, ops, numbers).stack), ToSet(stack), ops)
         /\ \A u \in DOMAIN numbers.of :
              RootedAt(ToSet(stack), u, uids) /\ Keeps(ops, u) /\ numbers.of[u] = Root
                => RootedAt(ToSet(Rebased(stack, ops, numbers).stack), u, uids)
<1> DEFINE f == CHOOSE g : Rebasing(stack, ops, numbers, g)
           l == Len(stack)
           Fine(u) == RootedAt(ToSet(stack), u, uids) /\ Keeps(ops, u) /\ numbers.of[u] = Root
           P(k) == /\ RebasedTyped(f[k], numbers, k, uids)
                   /\ LaidFrom(ToSet(f[k].stack), ToSet(stack), ops)
                   /\ \A u \in DOMAIN numbers.of : Fine(u) => RootedAt(ToSet(f[k].stack), u, uids)
           Good == {k \in Nat : k <= l => P(k)}
<1>1. l \in Nat /\ \A k \in 1 .. l : stack[k] \in ToSet(stack)
  BY LenProperties, ElementOfSeq
<1>2. Rebasing(stack, ops, numbers, f)
  BY <1>1, RebasingExists
<1>3. Rebased(stack, ops, numbers) = f[l]
  BY DEF Rebased, Rebasing
<1> HIDE DEF f
<1>4. f[0] = [known |-> numbers, stack |-> <<>>]
  BY <1>1, <1>2 DEF Rebasing
<1>5. ASSUME NEW k \in Nat, k + 1 <= l
      PROVE  f[k + 1] = RebasedState(f[k], stack[k + 1], ops) /\ stack[k + 1] \in ToSet(stack)
  <2>1. k + 1 \in 0 .. l /\ k + 1 # 0 /\ (k + 1) - 1 = k /\ k + 1 \in 1 .. l
    BY <1>1, <1>5
  <2>2. f[k + 1] = RebasedState(f[k], stack[k + 1], ops)
    BY <1>2, <2>1 DEF Rebasing
  <2> QED BY <1>1, <2>1, <2>2
<1> HIDE DEF l
<1>6. P(0)
  <2> DEFINE none == <<>>
  <2>1. none \in Seq(ToSet(none)) /\ Len(none) = 0 /\ ToSet(none) = {}
    BY DEF ToSet
  <2>2. f[0].known = numbers /\ f[0].stack = none
    BY <1>4
  <2> HIDE DEF none, Fine
  <2>3. Extends(numbers, numbers)
    BY DEF Extends, Numbers
  <2> QED BY <2>1, <2>2, <2>3 DEF RebasedTyped, RootedAt, LaidFrom
<1>7. ASSUME NEW k \in Nat, k + 1 <= l, P(k) PROVE P(k + 1)
  <2> DEFINE r == f[k]
             q == f[k + 1]
             old == stack[k + 1]
  <2>1. q = RebasedState(r, old, ops) /\ Sound(old, uids) /\ old \in ToSet(stack)
    BY <1>5, <1>7
  <2>2. /\ RebasedTyped(r, numbers, k, uids)
        /\ LaidFrom(ToSet(r.stack), ToSet(stack), ops)
        /\ \A u \in DOMAIN numbers.of : Fine(u) => RootedAt(ToSet(r.stack), u, uids)
    BY <1>7
  <2> HIDE DEF r, q, old
  <2>3. CASE q = r
    <3>1. RebasedTyped(q, numbers, k + 1, uids)
      <4>1. Len(r.stack) \in Nat /\ Len(r.stack) <= k
        BY <2>2, LenProperties DEF RebasedTyped
      <4>2. Len(r.stack) <= k + 1
        BY <4>1
      <4> QED BY <2>2, <2>3, <4>2 DEF RebasedTyped
    <3> HIDE DEF Fine
    <3> QED BY <2>2, <2>3, <3>1 DEF r, q
  <2>4. CASE q # r
    <3>1. Numbers(r.known) /\ Extends(r.known, numbers) /\ r.stack \in Seq(ToSet(r.stack)) /\ Len(r.stack) <= k
      BY <2>2 DEF RebasedTyped
    <3>a. \/ RebasedState(r, old, ops) = r
          \/ \E s : Took(RebasedState(r, old, ops), r, old, ops, s, uids)
      BY <2>1, <3>1, RebasedStateOf
    <3>b. \E s : Took(q, r, old, ops, s, uids)
      BY <2>1, <2>4, <3>a
    <3>2. PICK s :
            /\ q.stack = Append(r.stack, s) /\ Numbers(q.known) /\ Extends(q.known, r.known)
            /\ Words(s.nodes) \in LaidWords(old, ops)
            /\ Rooted(s) => Sound(s, uids)
            /\ \A u \in DOMAIN r.known.of :
                 old.nodes[Root].syncId = u /\ Keeps(ops, u) /\ r.known.of[u] = Root
                   => Sound(s, uids) /\ s.nodes[Root].syncId = u
      BY <3>b DEF Took
    <3> DEFINE p == r.stack
               T == ToSet(p) \cup {s}
    <3>3. p \in Seq(T) /\ s \in T /\ p \in Seq(ToSet(p)) /\ Len(p) <= k /\ Len(p) \in Nat
      BY <3>1, SeqMonotonic, LenProperties
    <3> HIDE DEF T
    <3>4. Append(p, s) \in Seq(T) /\ Len(Append(p, s)) = Len(p) + 1 /\ ToSet(Append(p, s)) = ToSet(p) \cup {s}
      BY <3>3, AppendProperties, AppendMembers
    <3>5. Append(p, s) \in Seq(ToSet(Append(p, s)))
      BY <3>4, MembersOf
    <3>6. /\ q.stack \in Seq(ToSet(q.stack)) /\ Len(q.stack) <= k + 1 /\ ToSet(q.stack) = ToSet(r.stack) \cup {s}
      BY <3>2, <3>3, <3>4, <3>5
    <3> HIDE DEF p
    <3>7. Extends(q.known, numbers)
      BY <3>1, <3>2, ExtendsOn
    <3>8. RebasedTyped(q, numbers, k + 1, uids)
      BY <2>2, <3>2, <3>6, <3>7 DEF RebasedTyped
    <3>9. ASSUME NEW u \in DOMAIN numbers.of, Fine(u) PROVE RootedAt(ToSet(q.stack), u, uids)
      <4>1. u \in DOMAIN r.known.of /\ r.known.of[u] = Root
        BY <3>1, <3>9 DEF Extends
      <4>2. old.nodes[Root].syncId = u /\ Keeps(ops, u)
        BY <2>1, <3>9 DEF RootedAt
      <4>3. Sound(s, uids) /\ s.nodes[Root].syncId = u
        BY <3>2, <4>1, <4>2
      <4>4. RootedAt(ToSet(r.stack), u, uids)
        BY <2>2, <3>9
      <4> QED BY <3>6, <4>3, <4>4 DEF RootedAt
    <3>10. LaidFrom(ToSet(q.stack), ToSet(stack), ops)
      BY <2>1, <2>2, <3>2, <3>6 DEF LaidFrom
    <3> HIDE DEF Fine
    <3> QED BY <3>8, <3>9, <3>10 DEF q
  <2> QED BY <2>3, <2>4
<1> HIDE DEF P
<1>8. Good = Nat
  <2>1. 0 \in Good
    BY <1>6
  <2>2. ASSUME NEW k \in Good PROVE k + 1 \in Good
    <3>1. k + 1 <= l => k <= l
      BY <1>1 DEF l
    <3> QED BY <1>7, <3>1
  <2> HIDE DEF Good
  <2>3. Good \in SUBSET Nat
    BY DEF Good
  <2> QED BY <2>1, <2>2, <2>3, InductiveSet
<1>9. P(l)
  <2>1. l \in Nat /\ l <= l
    BY <1>1 DEF l
  <2> QED BY <1>8, <2>1
<1> QED BY <1>3, <1>9 DEF P, l

\* Numbers may be left out.
LEMMA NextRaised ==
  ASSUME NEW d, NEW uids, Raw(d, uids), NEW a \in Nat, d.nextId <= a
  PROVE  Raw([d EXCEPT !.nextId = a], uids) /\ [d EXCEPT !.nextId = a].nodes = d.nodes
<1> DEFINE e == [d EXCEPT !.nextId = a]
<1>1. IsDocument(d)
  BY DEF Raw
<1>2. /\ e.nodes = d.nodes /\ e.connections = d.connections /\ e.layout = d.layout /\ e.manual = d.manual
      /\ e.look = d.look /\ e.selected = d.selected /\ e.selection = d.selection /\ e.nextId = a
      /\ IsDocument(e)
  BY <1>1 DEF IsDocument
<1> HIDE DEF e
<1>3. DOMAIN d.nodes \subseteq 1 .. d.nextId - 1 /\ d.nextId \in Nat
  BY <1>1 DEF Raw, IsDocument
<1>4. DOMAIN e.nodes \subseteq 1 .. e.nextId - 1
  BY <1>2, <1>3
<1>5. Raw(e, uids)
  BY <1>2, <1>4 DEF Raw, Joins
<1> QED BY <1>2, <1>5 DEF e

-----------------------------------------------------------------------------
(***************************************************************************)
(* A message of the live session.                                          *)
(***************************************************************************)
\* What a message makes of the document and its history.
StatesOf(m) == {m.doc} \cup ToSet(m.undo) \cup ToSet(m.redo)
Incorporated(m, uids) ==
  /\ Sound(m.doc, uids) /\ OnDisplay(m.doc)
  /\ m.undo \in Seq(ToSet(m.undo)) /\ m.redo \in Seq(ToSet(m.redo))
  /\ Len(m.undo) + Len(m.redo) <= UndoLimit
  /\ \A s \in StatesOf(m) : Rooted(s) => Sound(s, uids)

\* The document: with the numbers that it had, and the root of the map.
LEMMA CandidateOf ==
  ASSUME NEW uids \in SUBSET Identity, Sound(doc, uids),
         NEW overlay, RoomTyped(overlay, uids), Loadable(Project(overlay)),
         NEW known, known = Meet(LocalNumbers(doc, RootOf(overlay)), DOMAIN overlay.nodes)
  PROVE  /\ Numbers(known) /\ RootOf(overlay) \in DOMAIN known.of /\ known.of[RootOf(overlay)] = Root
         /\ Raw(Rebuild(Renumbered(Loaded(Project(overlay)), known)), uids)
         /\ Rebuild(Renumbered(Loaded(Project(overlay)), known)).nodes[Root].syncId = RootOf(overlay)
         /\ Rebuild(Renumbered(Loaded(Project(overlay)), known)).nextId = known.next
         /\ Placed(Rebuild(Renumbered(Loaded(Project(overlay)), known)).nodes, known)
         /\ doc.nodes[Root].syncId = RootOf(overlay) => Placed(doc.nodes, known)
<1> DEFINE r == RootOf(overlay)
           b == Project(overlay)
           next == Loaded(b)
           local == LocalNumbers(doc, r)
           e == Renumbered(next, known)
<1>1. /\ Numbers(local) /\ r \in DOMAIN local.of /\ local.of[r] = Root
      /\ doc.nodes[Root].syncId = r => Placed(doc.nodes, local)
  BY LocalNumbersOf
<1>2. LiveDoc(overlay, uids) /\ ChildrenOf(overlay, NoParent) # {}
  BY RoomRoot
<1>3. DOMAIN overlay.nodes \in SUBSET Identity
  BY <1>2 DEF LiveDoc
<1>4. known = Meet(local, DOMAIN overlay.nodes)
  OBVIOUS
<1> HIDE DEF local
<1>5. Numbers(known) /\ Extends(known, local) /\ DOMAIN overlay.nodes \subseteq DOMAIN known.of
  <2>1. /\ Numbers(Meet(local, DOMAIN overlay.nodes)) /\ Extends(Meet(local, DOMAIN overlay.nodes), local)
        /\ DOMAIN overlay.nodes \subseteq DOMAIN Meet(local, DOMAIN overlay.nodes).of
    BY <1>1, <1>3, MeetOf
  <2> QED BY <1>4, <2>1
<1>6. r \in DOMAIN known.of /\ known.of[r] = Root
  BY <1>1, <1>5 DEF Extends
<1>7. IsFile(b) /\ IdentitiesOf(b.nodes) = DOMAIN overlay.nodes /\ Root \in DOMAIN b.nodes /\ b.nodes[Root].syncId = r
  BY <1>2, ProjectFile
<1>8. IdentitiesOf(b.nodes) \subseteq uids
  BY <1>2, <1>7 DEF LiveDoc
<1> HIDE DEF r
<1>9. Sound(next, uids) /\ Alike(next.nodes, b.nodes)
  BY <1>7, <1>8, LoadedSound
<1>10. next.nodes[Root].syncId = r /\ IdentitiesOf(next.nodes) \subseteq DOMAIN known.of
  <2>1. IdentitiesOf(next.nodes) = IdentitiesOf(b.nodes)
    BY <1>9 DEF Alike, IdentitiesOf
  <2> QED BY <1>5, <1>7, <1>9, <2>1 DEF Alike
<1> HIDE DEF next, b
<1>11. /\ Raw(e, uids) /\ e.nodes[Root].syncId = next.nodes[Root].syncId /\ e.nextId = known.next
       /\ Placed(e.nodes, known)
  <2>1. known.of[next.nodes[Root].syncId] = Root
    BY <1>6, <1>10
  <2> QED BY <1>5, <1>9, <1>10, <2>1, RenumberedOf
<1> HIDE DEF e
<1>12. Raw(Rebuild(e), uids)
  BY <1>11, RebuildSound DEF Sound
<1>13. Rebuild(e).nodes[Root].syncId = r /\ Rebuild(e).nextId = known.next
  BY <1>10, <1>11, RebuiltRoot
<1>14. Placed(Rebuild(e).nodes, known)
  <2>1. PICK dep : Tree(e.nodes, dep)
    BY <1>11 DEF Raw, IsTree
  <2>2. Alike(Aggregated(e.nodes), e.nodes)
    BY <2>1, AggregatedIs
  <2>3. Rebuild(e).nodes = Aggregated(e.nodes)
    BY <1>11, RebuildIs DEF Raw
  <2> QED BY <1>11, <2>2, <2>3 DEF Placed, Alike
<1>15. doc.nodes[Root].syncId = r => Placed(doc.nodes, known)
  BY <1>1, <1>5 DEF Placed, Extends
<1> QED BY <1>5, <1>6, <1>12, <1>13, <1>14, <1>15 DEF e, next, b, r

LEMMA MergedOf ==
  ASSUME Valid, NEW uids \in SUBSET Identity, used \subseteq uids,
         NEW overlay, RoomTyped(overlay, uids), Loadable(Project(overlay))
  PROVE  /\ Incorporated(Merged(overlay), uids)
         /\ RootedAt(States, RootOf(overlay), uids)
              => RootedAt(StatesOf(Merged(overlay)), RootOf(overlay), uids)
<1> DEFINE r == RootOf(overlay)
           ops == Diff(Normalize(doc), overlay)
           known == Meet(LocalNumbers(doc, RootOf(overlay)), DOMAIN overlay.nodes)
           candidate == Rebuild(Renumbered(Loaded(Project(overlay)), known))
           undone == Rebased(undo, ops, known)
           redone == Rebased(redo, ops, undone.known)
           a == redone.known.next
           x == [candidate EXCEPT !.nextId = a]
           y == KeepSelection(x, doc)
           z == Rebuild(y)
           m == Merged(overlay)
<1>1. m = IF Bytes(candidate) = Bytes(doc) THEN [doc |-> doc, undo |-> undo, redo |-> redo]
          ELSE [doc |-> z, undo |-> undone.stack, redo |-> redone.stack]
  BY DEF Merged
<1>2. /\ HistoryTyped /\ OnDisplay(doc) /\ \A s \in States : Sound(s, uids)
  BY MoreIdentities DEF Valid, StatesSound
<1>3. /\ Sound(doc, uids) /\ \A s \in ToSet(undo) : Sound(s, uids)
      /\ \A s \in ToSet(redo) : Sound(s, uids)
      /\ undo \in Seq(ToSet(undo)) /\ redo \in Seq(ToSet(redo)) /\ Len(undo) + Len(redo) <= UndoLimit
      /\ Len(undo) \in Nat /\ Len(redo) \in Nat
  BY <1>2, LenProperties DEF States, HistoryTyped
<1>4. CASE Bytes(candidate) = Bytes(doc)
  <2>1. m.doc = doc /\ m.undo = undo /\ m.redo = redo
    BY <1>1, <1>4
  <2> HIDE DEF m
  <2>2. StatesOf(m) = States
    BY <2>1 DEF StatesOf, States
  <2> QED BY <1>2, <1>3, <2>1, <2>2 DEF Incorporated, m
<1>5. CASE Bytes(candidate) # Bytes(doc)
  <2>1. m.doc = z /\ m.undo = undone.stack /\ m.redo = redone.stack
    BY <1>1, <1>5
  <2> HIDE DEF m
  <2>2. /\ Numbers(known) /\ r \in DOMAIN known.of /\ known.of[r] = Root
        /\ Raw(candidate, uids) /\ candidate.nodes[Root].syncId = r /\ candidate.nextId = known.next
    BY <1>3, CandidateOf
  <2>3. LiveDoc(overlay, uids) /\ Held(overlay, r)
    BY RoomRoot
  <2>4. LiveDoc(Normalize(doc), uids) /\ Held(Normalize(doc), doc.nodes[Root].syncId)
    BY <1>3, SoundRoom DEF RoomTyped
  <2>5. BatchTyped(ops, uids) /\ (doc.nodes[Root].syncId = r => Keeps(ops, r))
    BY <2>3, <2>4, DiffOf
  <2> HIDE DEF known, candidate, ops
  <2>6. /\ RebasedTyped(undone, known, Len(undo), uids)
        /\ \A u \in DOMAIN known.of :
             RootedAt(ToSet(undo), u, uids) /\ Keeps(ops, u) /\ known.of[u] = Root
               => RootedAt(ToSet(undone.stack), u, uids)
    BY <1>3, <2>2, <2>5, RebasedOf
  <2> DEFINE middle == undone.known
  <2>7. Numbers(middle) /\ Extends(middle, known)
    BY <2>6 DEF RebasedTyped
  <2>8. redone = Rebased(redo, ops, middle)
    OBVIOUS
  <2> HIDE DEF undone, redone
  <2>9. /\ RebasedTyped(redone, middle, Len(redo), uids)
        /\ \A u \in DOMAIN middle.of :
             RootedAt(ToSet(redo), u, uids) /\ Keeps(ops, u) /\ middle.of[u] = Root
               => RootedAt(ToSet(redone.stack), u, uids)
    <3> HIDE DEF middle
    <3>1. /\ RebasedTyped(Rebased(redo, ops, middle), middle, Len(redo), uids)
          /\ \A u \in DOMAIN middle.of :
               RootedAt(ToSet(redo), u, uids) /\ Keeps(ops, u) /\ middle.of[u] = Root
                 => RootedAt(ToSet(Rebased(redo, ops, middle).stack), u, uids)
      BY <1>3, <2>5, <2>7, RebasedOf
    <3> QED BY <2>8, <3>1
  <2> HIDE DEF middle
  <2>10. a \in Nat /\ known.next <= a
    <3>1. Numbers(redone.known) /\ Extends(redone.known, middle)
      BY <2>9 DEF RebasedTyped
    <3>2. Extends(redone.known, known)
      BY <2>2, <2>7, <3>1, ExtendsOn
    <3> QED BY <3>1, <3>2 DEF Numbers, Extends
  <2> HIDE DEF a
  <2>11. Raw(x, uids) /\ x.nodes = candidate.nodes
    BY <2>2, <2>10, NextRaised
  <2> HIDE DEF x
  <2>12. Raw(y, uids) /\ y.nodes = x.nodes
    BY <2>11, KeptSelection
  <2> HIDE DEF y
  <2>13. Sound(z, uids) /\ OnDisplay(z) /\ z.nodes[Root].syncId = r
    BY <2>2, <2>11, <2>12, RebuildSound, RebuiltRoot
  <2> HIDE DEF z
  <2>14. /\ m.undo \in Seq(ToSet(m.undo)) /\ m.redo \in Seq(ToSet(m.redo))
         /\ Len(m.undo) <= Len(undo) /\ Len(m.redo) <= Len(redo)
         /\ \A s \in ToSet(m.undo) : Rooted(s) => Sound(s, uids)
         /\ \A s \in ToSet(m.redo) : Rooted(s) => Sound(s, uids)
    BY <2>1, <2>6, <2>9 DEF RebasedTyped
  <2>15. Len(m.undo) + Len(m.redo) <= UndoLimit
    <3> DEFINE i == Len(m.undo)
               j == Len(m.redo)
               k == Len(undo)
               l == Len(redo)
    <3>1. i \in Nat /\ j \in Nat /\ UndoLimit \in Nat
      BY <2>14, LenProperties, EditorAssumption
    <3>2. k \in Nat /\ l \in Nat /\ k + l <= UndoLimit /\ i <= k /\ j <= l
      BY <1>3, <2>14
    <3> HIDE DEF i, j, k, l
    <3>3. i + j <= UndoLimit
      BY <3>1, <3>2
    <3> QED BY <3>3 DEF i, j
  <2>16. Incorporated(m, uids)
    BY <2>1, <2>13, <2>14, <2>15 DEF Incorporated, StatesOf
  <2>17. ASSUME RootedAt(States, r, uids) PROVE RootedAt(StatesOf(m), r, uids)
    <3>1. RootedAt(ToSet(undo), r, uids) /\ RootedAt(ToSet(redo), r, uids) /\ doc.nodes[Root].syncId = r
      BY <2>17 DEF RootedAt, States
    <3>2. Keeps(ops, r)
      BY <2>5, <3>1
    <3>3. RootedAt(ToSet(m.undo), r, uids)
      BY <2>1, <2>2, <2>6, <3>1, <3>2
    <3>4. r \in DOMAIN middle.of /\ middle.of[r] = Root
      BY <2>2, <2>7 DEF Extends
    <3>5. RootedAt(ToSet(m.redo), r, uids)
      BY <2>1, <2>9, <3>1, <3>2, <3>4
    <3> QED BY <2>1, <2>13, <3>3, <3>5 DEF RootedAt, StatesOf
  <2> QED BY <2>16, <2>17 DEF m
<1> QED BY <1>4, <1>5

\* The batches that the room took, and those that are left.
LEMMA PendingParts ==
  ASSUME NEW p, p \in Seq(ToSet(p)), NEW k \in 0 .. Len(p)
  PROVE  /\ Len(SubSeq(p, 1, k)) = k /\ Len(p) \in Nat /\ \A i \in 1 .. k : SubSeq(p, 1, k)[i] = p[i]
         /\ SubSeq(p, k + 1, Len(p)) \in Seq(ToSet(SubSeq(p, k + 1, Len(p))))
         /\ Len(SubSeq(p, k + 1, Len(p))) = Len(p) - k
         /\ \A i \in 1 .. Len(p) - k : SubSeq(p, k + 1, Len(p))[i] = p[k + i]
<1> DEFINE S == ToSet(p)
           n == Len(p)
           front == SubSeq(p, 1, k)
           rest == SubSeq(p, k + 1, n)
<1>1. p \in Seq(S) /\ n \in Nat /\ \A i \in 1 .. n : p[i] \in S
  BY LenProperties, ElementOfSeq
<1>2. k \in Nat /\ k <= n /\ k \in Int /\ n \in Int /\ k + 1 \in Int /\ 1 \in Int
  BY <1>1
<1> HIDE DEF S, n
<1>3. \A i \in 1 .. k : p[i] \in S
  BY <1>1, <1>2
<1>4. \A i \in k + 1 .. n : p[i] \in S
  BY <1>1, <1>2
<1>5. /\ Len(front) = (IF 1 <= k THEN k - 1 + 1 ELSE 0)
      /\ \A i \in 1 .. k - 1 + 1 : front[i] = p[1 + i - 1]
  BY <1>2, <1>3, SubSeqProperties
<1>6. /\ rest \in Seq(S) /\ Len(rest) = (IF k + 1 <= n THEN n - (k + 1) + 1 ELSE 0)
      /\ \A i \in 1 .. n - (k + 1) + 1 : rest[i] = p[k + 1 + i - 1]
  BY <1>2, <1>4, SubSeqProperties
<1> HIDE DEF front, rest
<1>7. Len(front) = k /\ \A i \in 1 .. k : front[i] = p[i]
  <2>1. k - 1 + 1 = k /\ \A i \in Int : 1 + i - 1 = i
    BY <1>2
  <2> QED BY <1>2, <1>5, <2>1
<1>8. Len(rest) = n - k /\ \A i \in 1 .. n - k : rest[i] = p[k + i]
  <2>1. n - (k + 1) + 1 = n - k /\ \A i \in Int : k + 1 + i - 1 = k + i
    BY <1>2
  <2>2. k + 1 <= n \/ n - k = 0
    BY <1>2
  <2>3. Len(rest) = n - k
    BY <1>2, <1>6, <2>1, <2>2
  <2>4. \A i \in 1 .. n - k : i \in Int /\ i \in 1 .. n - (k + 1) + 1
    BY <1>2
  <2> QED BY <1>6, <2>1, <2>3, <2>4
<1>9. rest \in Seq(ToSet(rest))
  BY <1>6, MembersOf
<1> QED BY <1>1, <1>7, <1>8, <1>9 DEF front, rest, n

\* The map that the room sends, and the batches that are left for it.
Sends(k, c, sent, left, uids) ==
  /\ k \in 0 .. Len(session.pending)
  /\ c \in AfterBatches(session.room, SubSeq(session.pending, 1, k))
  /\ sent \in TheirEdits(c) \cup {c}
  /\ left = SubSeq(session.pending, k + 1, Len(session.pending))
  /\ uids = used \cup DOMAIN sent.nodes

LEMMA SentOf ==
  ASSUME used \in SUBSET Identity, SessionTyped(session, used), session.live,
         NEW k, NEW c, NEW sent, NEW left, NEW uids, Sends(k, c, sent, left, uids)
  PROVE  /\ uids \in SUBSET Identity /\ RoomTyped(sent, uids) /\ RoomTyped(c, used) /\ Held(sent, RootOf(c))
         /\ left \in Seq(ToSet(left)) /\ Len(left) \in Nat
         /\ \A i \in 1 .. Len(left) : BatchTyped(left[i], uids)
<1> DEFINE p == session.pending
           front == SubSeq(p, 1, k)
<1>1. p \in Seq(ToSet(p)) /\ RoomTyped(session.room, used) /\ \A i \in 1 .. Len(p) : BatchTyped(p[i], used)
  BY DEF SessionTyped
<1>2. /\ k \in 0 .. Len(p) /\ c \in AfterBatches(session.room, front) /\ left = SubSeq(p, k + 1, Len(p))
      /\ (sent = c \/ sent \in TheirEdits(c)) /\ uids = used \cup DOMAIN sent.nodes
  BY DEF Sends
<1> HIDE DEF p
<1>3. /\ Len(front) = k /\ Len(p) \in Nat /\ \A i \in 1 .. k : front[i] = p[i]
      /\ SubSeq(p, k + 1, Len(p)) \in Seq(ToSet(SubSeq(p, k + 1, Len(p))))
      /\ Len(SubSeq(p, k + 1, Len(p))) = Len(p) - k
      /\ \A i \in 1 .. Len(p) - k : SubSeq(p, k + 1, Len(p))[i] = p[k + i]
  BY <1>1, <1>2, PendingParts
<1>4. /\ left \in Seq(ToSet(left)) /\ Len(left) = Len(p) - k /\ \A i \in 1 .. Len(p) - k : left[i] = p[k + i]
  BY <1>2, <1>3
<1> HIDE DEF front
<1>5. RoomTyped(c, used)
  <2>1. Len(front) \in Nat /\ \A i \in 1 .. Len(front) : BatchTyped(front[i], used)
    <3>1. Len(front) = k /\ k \in Nat /\ k <= Len(p) /\ Len(p) \in Nat
      BY <1>2, <1>3
    <3>2. ASSUME NEW i \in 1 .. k PROVE BatchTyped(front[i], used)
      <4>1. i \in 1 .. Len(p)
        BY <3>1
      <4>2. front[i] = p[i] /\ BatchTyped(p[i], used)
        BY <1>1, <1>3, <4>1
      <4> QED BY <4>2
    <3> QED BY <3>1, <3>2
  <2> QED BY <1>1, <1>2, <2>1, AfterBatchesOf
<1>6. LiveDoc(c, used) /\ Held(c, RootOf(c))
  BY <1>5, RoomRoot
<1>7. uids \in SUBSET Identity /\ RoomTyped(sent, uids) /\ Held(sent, RootOf(c))
  <2>1. CASE sent = c
    <3>1. DOMAIN c.nodes \subseteq used
      BY <1>6 DEF LiveDoc
    <3>2. uids = used
      BY <1>2, <2>1, <3>1
    <3> QED BY <1>5, <1>6, <2>1, <3>2
  <2>2. CASE sent \in TheirEdits(c)
    <3>1. RoomTyped(sent, used \cup DOMAIN sent.nodes) /\ DOMAIN sent.nodes \subseteq Identity /\ Held(sent, RootOf(c))
      BY <1>5, <2>2, TheirEditsOf
    <3> QED BY <1>2, <3>1
  <2> QED BY <1>2, <2>1, <2>2
<1>8. \A i \in 1 .. Len(left) : BatchTyped(left[i], uids)
  <2> TAKE i \in 1 .. Len(left)
  <2>1. k + i \in 1 .. Len(p) /\ left[i] = p[k + i]
    BY <1>2, <1>3, <1>4
  <2>2. BatchTyped(p[k + i], used) /\ used \subseteq uids
    BY <1>1, <1>2, <2>1
  <2> QED BY <2>1, <2>2, MoreIdentities
<1>9. Len(left) \in Nat
  BY <1>4, LenProperties
<1> QED BY <1>4, <1>5, <1>7, <1>8, <1>9

\* The session after a message.
Told(s, sent, left) == [s EXCEPT !.room = sent, !.pending = left]

LEMMA SessionAfter ==
  ASSUME NEW uids, SessionTyped(session, used), session.live, NEW sent, RoomTyped(sent, uids), NEW left, left \in Seq(ToSet(left)),
         \A i \in 1 .. Len(left) : BatchTyped(left[i], uids)
  PROVE  /\ SessionTyped(Told(session, sent, left), uids)
         /\ Told(session, sent, left).live
         /\ Told(session, sent, left).room = sent
         /\ Told(session, sent, left).pending = left
<1> DEFINE s == Told(session, sent, left)
<1>1. s.live = TRUE /\ s.room = sent /\ s.pending = left
      /\ s \in [live : BOOLEAN, room : {sent}, pending : Seq(ToSet(left))]
  BY DEF SessionTyped, Told
<1> HIDE DEF s
<1>2. SessionTyped(s, uids)
  BY <1>1 DEF SessionTyped
<1> QED BY <1>1, <1>2 DEF s

\* The parts of a message.
LEMMA MessageParts ==
  ASSUME Message
  PROVE  session.live /\
         \E k, c, sent, left, uids :
           /\ Sends(k, c, sent, left, uids)
           /\ session' = Told(session, sent, left) /\ used' = uids
           /\ \/ UNCHANGED <<doc, undo, redo, edited, others>>
              \/ \E overlay \in AfterBatches(sent, session'.pending) :
                   Loadable(Project(overlay)) /\ Incorporate(overlay)
<1>1. session.live
  BY DEF Message
<1>2. PICK k \in 0 .. Len(session.pending) :
        \E c \in AfterBatches(session.room, SubSeq(session.pending, 1, k)) :
          \E sent \in TheirEdits(c) \cup {c} :
            /\ session' = [session EXCEPT !.room = sent, !.pending = SubSeq(@, k + 1, Len(@))]
            /\ used' = used \cup DOMAIN sent.nodes
            /\ \E shown \in {{x \in AfterBatches(sent, session'.pending) : Loadable(Project(x))}} :
                 \/ shown = {} /\ UNCHANGED <<doc, undo, redo, edited, others>>
                 \/ \E overlay \in shown : Incorporate(overlay)
  BY DEF Message
<1>3. PICK c \in AfterBatches(session.room, SubSeq(session.pending, 1, k)) :
          \E sent \in TheirEdits(c) \cup {c} :
            /\ session' = [session EXCEPT !.room = sent, !.pending = SubSeq(@, k + 1, Len(@))]
            /\ used' = used \cup DOMAIN sent.nodes
            /\ \E shown \in {{x \in AfterBatches(sent, session'.pending) : Loadable(Project(x))}} :
                 \/ shown = {} /\ UNCHANGED <<doc, undo, redo, edited, others>>
                 \/ \E overlay \in shown : Incorporate(overlay)
  BY <1>2
<1>4. PICK sent \in TheirEdits(c) \cup {c} :
            /\ session' = [session EXCEPT !.room = sent, !.pending = SubSeq(@, k + 1, Len(@))]
            /\ used' = used \cup DOMAIN sent.nodes
            /\ \E shown \in {{x \in AfterBatches(sent, session'.pending) : Loadable(Project(x))}} :
                 \/ shown = {} /\ UNCHANGED <<doc, undo, redo, edited, others>>
                 \/ \E overlay \in shown : Incorporate(overlay)
  BY <1>3
<1> DEFINE left == SubSeq(session.pending, k + 1, Len(session.pending))
           uids == used \cup DOMAIN sent.nodes
<1>5. session' = Told(session, sent, left) /\ used' = uids
  BY <1>4 DEF Told
<1>6. Sends(k, c, sent, left, uids)
  BY DEF Sends
<1>7. \/ UNCHANGED <<doc, undo, redo, edited, others>>
      \/ \E overlay \in AfterBatches(sent, session'.pending) : Loadable(Project(overlay)) /\ Incorporate(overlay)
  BY <1>4
<1> HIDE DEF left, uids
<1> QED BY <1>1, <1>5, <1>6, <1>7

LEMMA MessageValid ==
  ASSUME Valid, Message, HistoryRooted'
  PROVE  Valid'
<1>1. /\ StatesSound /\ OnDisplay(doc) /\ used \in SUBSET Identity /\ HistoryTyped /\ FileTyped /\ ClipboardTyped
      /\ SessionTyped(session, used)
      /\ others \in [wrote : {others.wrote}, added : {others.added}, gone : SUBSET Identity]
      /\ effort \in 0 .. MaxEffort
  BY DEF Valid
<1>2. PICK k, c, sent, left, uids :
           /\ Sends(k, c, sent, left, uids)
           /\ session' = Told(session, sent, left) /\ used' = uids
           /\ \/ UNCHANGED <<doc, undo, redo, edited, others>>
              \/ \E overlay \in AfterBatches(sent, session'.pending) :
                   Loadable(Project(overlay)) /\ Incorporate(overlay)
  BY MessageParts
<1>5. /\ session.live /\ effort' = effort + 2 /\ effort + 2 <= MaxEffort
      /\ file' = file /\ path' = path /\ saved' = saved /\ clipboard' = clipboard
  BY DEF Message, Spend
<1>6. session' = Told(session, sent, left) /\ used' = uids
  BY <1>2
<1>8. used \subseteq uids /\ Sends(k, c, sent, left, uids)
  BY <1>2 DEF Sends
<1>9. \/ UNCHANGED <<doc, undo, redo, edited, others>>
      \/ \E overlay \in AfterBatches(sent, session'.pending) : Loadable(Project(overlay)) /\ Incorporate(overlay)
  BY <1>2
<1>7. /\ uids \in SUBSET Identity /\ RoomTyped(sent, uids)
      /\ left \in Seq(ToSet(left)) /\ Len(left) \in Nat
      /\ \A i \in 1 .. Len(left) : BatchTyped(left[i], uids)
  BY <1>1, <1>5, <1>8, SentOf
<1>10. SessionTyped(session', uids) /\ session'.pending = left
  <2>1. SessionTyped(Told(session, sent, left), uids)
    BY <1>1, <1>5, <1>7, SessionAfter
  <2>2. Told(session, sent, left).pending = left
    BY <1>1, <1>5, <1>7, SessionAfter
  <2> QED BY <1>6, <2>1, <2>2
<1>11. ClipboardTyped'
  BY <1>1, <1>5 DEF ClipboardTyped
<1>12. effort' \in 0 .. MaxEffort
  BY <1>1, <1>5, EditorAssumption
<1>13. IdentitiesOf(file.nodes) \subseteq uids
  BY <1>1, <1>8 DEF FileTyped
<1>14. CASE UNCHANGED <<doc, undo, redo, edited, others>>
  <2>1. StatesSound'
    <3>1. \A s \in {doc'} \cup ToSet(undo') \cup ToSet(redo') : Sound(s, used')
      BY <1>1, <1>6, <1>7, <1>8, <1>14, MoreIdentities DEF StatesSound, States
    <3> QED BY <3>1 DEF StatesSound, States
  <2>2. HistoryTyped' /\ FileTyped'
    BY <1>1, <1>5, <1>6, <1>13, <1>14 DEF HistoryTyped, FileTyped
  <2> QED BY <1>1, <1>6, <1>7, <1>10, <1>11, <1>12, <1>14, <2>1, <2>2 DEF Valid
<1>15. CASE \E overlay \in AfterBatches(sent, session'.pending) : Loadable(Project(overlay)) /\ Incorporate(overlay)
  <2>1. PICK overlay \in AfterBatches(sent, left) : Loadable(Project(overlay)) /\ Incorporate(overlay)
    BY <1>10, <1>15
  <2>2. RoomTyped(overlay, uids)
    BY <1>7, <2>1, AfterBatchesOf
  <2> DEFINE m == Merged(overlay)
  <2>3. Incorporated(m, uids)
    BY <1>7, <1>8, <2>1, <2>2, MergedOf
  <2>4. /\ doc' = m.doc /\ undo' = m.undo /\ redo' = m.redo /\ edited' = (Bytes(doc') # saved)
        /\ others' = Observed(Normalize(doc), overlay)
    BY <2>1 DEF Incorporate
  <2> HIDE DEF m
  <2>5. StatesSound' /\ HistoryTyped' /\ OnDisplay(doc')
    <3>1. StatesOf(m) = States'
      BY <2>4 DEF StatesOf, States
    <3>2. \A s \in States' : Rooted(s)
      BY DEF HistoryRooted, Rooted
    <3>3. \A s \in States' : Sound(s, used')
      BY <1>6, <2>3, <3>1, <3>2 DEF Incorporated
    <3> QED BY <2>3, <2>4, <3>3 DEF StatesSound, HistoryTyped, Incorporated
  <2>6. FileTyped'
    BY <1>1, <1>5, <1>6, <1>13, <2>4 DEF FileTyped
  <2>7. others' \in [wrote : {others'.wrote}, added : {others'.added}, gone : SUBSET Identity]
    <3>1. \E w, x, y : others' = [wrote |-> w, added |-> x,
                                   gone |-> (others.gone \cup (DOMAIN Normalize(doc).nodes \ y)) \ y]
      BY <2>4 DEF Observed
    <3>2. DOMAIN Normalize(doc).nodes \subseteq Identity
      BY <1>1, DocIs, SoundRoom DEF Sound, Raw
    <3> QED BY <1>1, <3>1, <3>2
  <2> QED BY <1>6, <1>7, <1>10, <1>11, <1>12, <2>5, <2>6, <2>7 DEF Valid
<1> QED BY <1>9, <1>14, <1>15

-----------------------------------------------------------------------------
(***************************************************************************)
(* The root of the map.                                                    *)
(*                                                                         *)
(* A message gives every state of the history the operations that lead     *)
(* from the document to the map that the room sent.  For a state to keep   *)
(* its root, the root has to be the same one, and it is as long as no      *)
(* pending batch takes the root of the room away; once one does (a         *)
(* generated tree has a root of its own), no batch fits any more, and the  *)
(* messages that follow are left alone.                                    *)
(***************************************************************************)
SameRoot(S, r) == \A s \in S : s.nodes[Root].syncId = r

Anchored ==
  session.live =>
    \/ SameRoot(States, RootOf(session.room)) /\ Keep(session.pending, RootOf(session.room))
    \/ Lose(session.pending, RootOf(session.room))

\* What a change of the document adds to the pending batches.
LEMMA CapturedAnchored ==
  ASSUME SessionTyped(session, Identity), session.live,
         NEW before, Sound(before, Identity), NEW after, Sound(after, Identity),
         NEW r
  PROVE  /\ Lose(session.pending, r) => Lose(Captured(before, after).pending, r)
         /\ Keep(session.pending, r) /\ before.nodes[Root].syncId = r /\ after.nodes[Root].syncId = r
              => Keep(Captured(before, after).pending, r)
         /\ Keep(session.pending, r) /\ before.nodes[Root].syncId = r /\ r \notin IdentitiesOf(after.nodes)
              => Lose(Captured(before, after).pending, r)
<1> DEFINE a == Normalize(before)
           b == Normalize(after)
           ops == Diff(a, b)
           p == session.pending
           q == Captured(before, after).pending
<1>1. /\ RoomTyped(a, Identity) /\ Held(a, before.nodes[Root].syncId)
      /\ RoomTyped(b, Identity) /\ Held(b, after.nodes[Root].syncId)
      /\ DOMAIN b.nodes = IdentitiesOf(after.nodes)
  BY SoundRoom
<1> HIDE DEF a, b
<1>2. /\ \A u : Held(a, u) /\ Held(b, u) => Keeps(ops, u)
      /\ \A u : Held(a, u) /\ u \notin DOMAIN b.nodes => Keeps(ops, u) /\ Removes(ops, u)
  BY <1>1, DiffOf DEF RoomTyped
<1>3. p \in Seq(ToSet(p))
  BY DEF SessionTyped
<1>4. q = p \/ q = Append(p, ops)
  BY <1>1, CapturedTyped DEF a, b
<1>5. Removes(ops, r) => q = Append(p, ops)
  <2>1. Removes(ops, r) => ops # <<>>
    <3> DEFINE none == <<>>
    <3>1. Len(none) = 0
      OBVIOUS
    <3> HIDE DEF none, ops
    <3>2. Removes(ops, r) => ops # none
      BY <3>1 DEF Removes
    <3> QED BY <3>2 DEF none
  <2>2. ops # <<>> => Captured(before, after) = [session EXCEPT !.pending = Append(session.pending, ops)]
    BY DEF Captured, a, b
  <2>3. [session EXCEPT !.pending = Append(session.pending, ops)].pending = Append(p, ops)
    BY DEF SessionTyped
  <2> QED BY <2>1, <2>2, <2>3
<1> DEFINE T == ToSet(p) \cup {ops}
           l == Append(p, ops)
<1> HIDE DEF ops, q, p
<1>6. p \in Seq(T) /\ ops \in T
  BY <1>3, SeqMonotonic
<1> HIDE DEF T
<1>7. /\ Len(l) = Len(p) + 1 /\ Len(p) \in Nat /\ \A k \in 1 .. Len(p) : l[k] = p[k]
      /\ l[Len(p) + 1] = ops
  BY <1>6, AppendProperties, LenProperties
<1> HIDE DEF l
<1>8. Lose(p, r) => Lose(l, r)
  <2> SUFFICES ASSUME Lose(p, r) PROVE Lose(l, r)
    OBVIOUS
  <2>1. PICK m \in 1 .. Len(p) : Removes(p[m], r) /\ \A k \in 1 .. m : Keeps(p[k], r)
    BY DEF Lose
  <2>2. m \in 1 .. Len(l) /\ \A k \in 1 .. m : k \in 1 .. Len(p)
    BY <1>7
  <2> QED BY <1>7, <2>1, <2>2 DEF Lose
<1>9. Keep(p, r) /\ Keeps(ops, r) => Keep(l, r)
  <2>1. \A k \in 1 .. Len(l) : k \in 1 .. Len(p) \/ k = Len(p) + 1
    BY <1>7
  <2> QED BY <1>7, <2>1 DEF Keep
<1>10. Keep(p, r) /\ Keeps(ops, r) /\ Removes(ops, r) => Lose(l, r)
  <2>1. Len(p) + 1 \in 1 .. Len(l) /\ 1 .. Len(p) + 1 = 1 .. Len(l)
    BY <1>7
  <2> QED BY <1>7, <1>9, <2>1 DEF Keep, Lose
<1>11. q = p \/ q = l
  BY <1>4 DEF l
<1>12. Removes(ops, r) => q = l
  BY <1>5 DEF l
<1>13. Lose(p, r) => Lose(q, r)
  BY <1>8, <1>11
<1>14. Keep(p, r) /\ before.nodes[Root].syncId = r /\ after.nodes[Root].syncId = r => Keep(q, r)
  BY <1>1, <1>2, <1>9, <1>11
<1>15. Keep(p, r) /\ before.nodes[Root].syncId = r /\ r \notin IdentitiesOf(after.nodes) => Lose(q, r)
  BY <1>1, <1>2, <1>10, <1>12
<1> QED BY <1>13, <1>14, <1>15 DEF q, p

\* Whatever leaves the root alone, or tells the room that it is gone.
LEMMA SteadyAnchored ==
  ASSUME Valid, Valid', Anchored, session' = session \/ session' = Captured(doc, doc'),
         session.live /\ SameRoot(States, RootOf(session.room)) => RootStays
  PROVE  Anchored'
<1> DEFINE r == RootOf(session.room)
<1>1. Sound(doc, Identity) /\ used \in SUBSET Identity /\ SessionTyped(session, used)
  BY DocIs DEF Valid
<1>2. SessionTyped(session, Identity)
  BY <1>1, MoreIdentities
<1>3. Sound(doc', Identity)
  <2>1. doc' \in States' /\ used' \subseteq Identity
    BY DEF States, Valid
  <2>2. Sound(doc', used')
    BY <2>1 DEF Valid, StatesSound
  <2> QED BY <2>1, <2>2, MoreIdentities
<1>4. session'.live = session.live /\ session'.room = session.room
  <2>1. Identity \in SUBSET Identity
    OBVIOUS
  <2> QED BY <1>1, <1>2, <1>3, <2>1, CapturedTyped
<1> SUFFICES ASSUME session.live
             PROVE  \/ SameRoot(States', r) /\ Keep(session'.pending, r)
                    \/ Lose(session'.pending, r)
  BY <1>4 DEF Anchored
<1>5. \/ SameRoot(States, r) /\ Keep(session.pending, r)
      \/ Lose(session.pending, r)
  BY DEF Anchored
<1> DEFINE q == Captured(doc, doc').pending
           p == session.pending
<1>6. /\ Lose(p, r) => Lose(q, r)
      /\ Keep(p, r) /\ doc.nodes[Root].syncId = r /\ doc'.nodes[Root].syncId = r => Keep(q, r)
      /\ Keep(p, r) /\ doc.nodes[Root].syncId = r /\ r \notin IdentitiesOf(doc'.nodes) => Lose(q, r)
  BY <1>1, <1>2, <1>3, CapturedAnchored
<1>7. session'.pending = p \/ session'.pending = q
  OBVIOUS
<1>8. session' = Captured(doc, doc') => session'.pending = q
  OBVIOUS
<1> HIDE DEF p, q, r
<1>9. CASE Lose(p, r)
  BY <1>6, <1>7, <1>9
<1>10. CASE SameRoot(States, r) /\ Keep(p, r)
  <2>1. RootStays /\ doc.nodes[Root].syncId = r
    BY <1>10 DEF SameRoot, States, r
  <2>2. CASE doc'.nodes[Root].syncId = nodes[Root].syncId
    <3>1. doc'.nodes[Root].syncId = r
      BY <2>1, <2>2 DEF nodes
    <3>2. SameRoot(States', r)
      BY <1>10, <2>1, <3>1 DEF SameRoot, RootStays
    <3> QED BY <1>6, <1>7, <1>10, <2>1, <3>1, <3>2
  <2>3. CASE nodes[Root].syncId \notin IdentitiesOf(doc'.nodes) /\ session' = Captured(doc, doc')
    <3>1. r \notin IdentitiesOf(doc'.nodes)
      BY <2>1, <2>3 DEF nodes
    <3> QED BY <1>6, <1>8, <1>10, <2>1, <2>3, <3>1
  <2> QED BY <2>1, <2>2, <2>3 DEF RootStays
<1> QED BY <1>5, <1>9, <1>10 DEF p, r

LEMMA ChangesAnchored ==
  ASSUME Valid, Valid', Anchored, Nodes \/ Contents \/ Looks \/ Selections
  PROVE  Anchored'
<1>1. Steady
  BY NodeActionsValid, ContentsValid, LooksValid, SelectionsValid
<1> QED BY <1>1, SteadyAnchored DEF Steady, RootStays

\* A state that a step through the history brings back has the same root.
LEMMA HistoryAnchored ==
  ASSUME Valid, Valid', Anchored, Undo \/ Redo
  PROVE  Anchored'
<1>1. /\ undo \in Seq(ToSet(undo)) /\ redo \in Seq(ToSet(redo))
      /\ \A s \in States : Sound(s, used)
  BY DEF Valid, HistoryTyped, StatesSound
<1>2. PICK state \in States : Restore(state) /\ States' \subseteq States \cup {Rebuild(state)}
  <2>1. CASE Undo
    <3>1. undo # <<>> /\ undo' = Front(undo) /\ redo' = Append(redo, doc) /\ Restore(Last(undo))
      BY <2>1 DEF Undo
    <3>2. /\ ToSet(Front(undo)) \subseteq ToSet(undo) /\ ToSet(Append(redo, doc)) = ToSet(redo) \cup {doc}
          /\ Last(undo) \in ToSet(undo)
      BY <1>1, <3>1, StackStep
    <3>3. doc' = Rebuild(Last(undo))
      BY <3>1 DEF Restore, Show
    <3> QED BY <3>1, <3>2, <3>3 DEF States
  <2>2. CASE Redo
    <3>1. redo # <<>> /\ redo' = Front(redo) /\ undo' = Append(undo, doc) /\ Restore(Last(redo))
      BY <2>2 DEF Redo
    <3>2. /\ ToSet(Front(redo)) \subseteq ToSet(redo) /\ ToSet(Append(undo, doc)) = ToSet(undo) \cup {doc}
          /\ Last(redo) \in ToSet(redo)
      BY <1>1, <3>1, StackStep
    <3>3. doc' = Rebuild(Last(redo))
      BY <3>1 DEF Restore, Show
    <3> QED BY <3>1, <3>2, <3>3 DEF States
  <2> QED BY <2>1, <2>2
<1>3. doc' = Rebuild(state) /\ session' = Captured(doc, doc')
  BY <1>2 DEF Restore, Show
<1>4. doc'.nodes[Root].syncId = state.nodes[Root].syncId
  BY <1>1, <1>3, RebuiltRoot DEF Sound
<1>5. SameRoot(States, RootOf(session.room)) => RootStays
  <2> SUFFICES ASSUME SameRoot(States, RootOf(session.room)) PROVE RootStays
    OBVIOUS
  <2>1. nodes[Root].syncId = state.nodes[Root].syncId
    BY DEF SameRoot, States, nodes
  <2> QED BY <1>2, <1>3, <1>4, <2>1 DEF RootStays
<1> QED BY <1>3, <1>5, SteadyAnchored

\* The file of another map, and a recovered document, end the session.
LEMMA FilesAnchored ==
  ASSUME ~SharedFile, Valid, Valid', Anchored, Files
  PROVE  Anchored'
<1>1. CASE Save
  <2>1. doc' = doc /\ session' = Captured(doc, doc') /\ undo' = undo /\ redo' = redo
    BY <1>1 DEF Save, Show
  <2>2. States' = States
    BY <2>1 DEF States
  <2>3. RootStays
    BY <2>1, <2>2 DEF RootStays, nodes
  <2> QED BY <2>1, <2>3, SteadyAnchored
<1>2. CASE Open \/ Recover
  <2>1. session' = NoSession
    BY <1>2 DEF Open, Recover
  <2> QED BY <2>1 DEF Anchored, NoSession
<1> QED BY <1>1, <1>2 DEF Files

\* The root of the map, while the room takes pending batches.
LEMMA SentRoot ==
  ASSUME used \in SUBSET Identity, SessionTyped(session, used), session.live,
         NEW k, NEW c, NEW sent, NEW left, NEW uids, Sends(k, c, sent, left, uids)
  PROVE  /\ Keep(session.pending, RootOf(session.room)) =>
              /\ RootOf(sent) = RootOf(session.room) /\ Keep(left, RootOf(session.room))
              /\ \A x \in AfterBatches(sent, left) : RootOf(x) = RootOf(session.room)
         /\ Lose(session.pending, RootOf(session.room)) =>
              /\ RootOf(sent) = RootOf(session.room) /\ Lose(left, RootOf(session.room))
              /\ AfterBatches(sent, left) = {}
<1> DEFINE p == session.pending
           r == RootOf(session.room)
           front == SubSeq(p, 1, k)
<1>1. p \in Seq(ToSet(p)) /\ RoomTyped(session.room, used) /\ \A i \in 1 .. Len(p) : BatchTyped(p[i], used)
  BY DEF SessionTyped
<1>2. k \in 0 .. Len(p) /\ c \in AfterBatches(session.room, front) /\ left = SubSeq(p, k + 1, Len(p))
  BY DEF Sends
<1>3. Held(session.room, r)
  BY <1>1, RoomRoot
<1>4. /\ uids \in SUBSET Identity /\ RoomTyped(sent, uids) /\ RoomTyped(c, used) /\ Held(sent, RootOf(c))
      /\ Len(left) \in Nat /\ \A i \in 1 .. Len(left) : BatchTyped(left[i], uids)
  BY SentOf
<1> HIDE DEF p, r
<1>5. /\ Len(front) = k /\ Len(p) \in Nat /\ \A i \in 1 .. k : front[i] = p[i]
      /\ Len(SubSeq(p, k + 1, Len(p))) = Len(p) - k
      /\ \A i \in 1 .. Len(p) - k : SubSeq(p, k + 1, Len(p))[i] = p[k + i]
  BY <1>1, <1>2, PendingParts
<1>6. Len(left) = Len(p) - k /\ \A i \in 1 .. Len(p) - k : left[i] = p[k + i]
  BY <1>2, <1>5
<1> HIDE DEF front
<1>7. /\ Len(front) \in Nat /\ k \in Nat /\ k <= Len(p)
      /\ \A i \in 1 .. Len(front) : i \in 1 .. Len(p) /\ BatchTyped(front[i], used)
  BY <1>1, <1>2, <1>5
<1>8. /\ Keep(front, r) => Held(c, r)
      /\ ~Lose(front, r)
  BY <1>1, <1>2, <1>3, <1>7, AfterBatchesOf
<1>9. Held(c, r) => RootOf(c) = r /\ RootOf(sent) = r /\ Held(sent, r)
  <2>1. Held(c, r) => RootOf(c) = r
    BY <1>4, RoomRoot
  <2>2. \A u : Held(sent, u) => u = RootOf(sent)
    BY <1>4, RoomRoot
  <2> QED BY <1>4, <2>1, <2>2
<1>10. ASSUME Keep(p, r)
       PROVE  RootOf(sent) = r /\ Keep(left, r) /\ \A x \in AfterBatches(sent, left) : RootOf(x) = r
  <2>1. \A i \in 1 .. Len(p) : Keeps(p[i], r)
    BY <1>10 DEF Keep
  <2>2. Keep(front, r)
    BY <1>5, <1>7, <2>1 DEF Keep
  <2>3. Keep(left, r)
    <3>1. \A i \in 1 .. Len(left) : k + i \in 1 .. Len(p) /\ i \in 1 .. Len(p) - k
      BY <1>5, <1>6, <1>7
    <3> QED BY <1>6, <2>1, <3>1 DEF Keep
  <2>4. RootOf(sent) = r /\ Held(sent, r)
    BY <1>8, <1>9, <2>2
  <2>5. \A x \in AfterBatches(sent, left) : RoomTyped(x, uids) /\ Held(x, r)
    BY <1>4, <2>3, <2>4, AfterBatchesOf
  <2>6. ASSUME NEW x \in AfterBatches(sent, left) PROVE RootOf(x) = r
    BY <2>5, RoomRoot
  <2> QED BY <2>3, <2>4, <2>6
<1>11. ASSUME Lose(p, r)
       PROVE  RootOf(sent) = r /\ Lose(left, r) /\ AfterBatches(sent, left) = {}
  <2>1. PICK m \in 1 .. Len(p) : Removes(p[m], r) /\ \A i \in 1 .. m : Keeps(p[i], r)
    BY <1>11 DEF Lose
  <2>2. m > k
    <3> SUFFICES ASSUME ~(m > k) PROVE FALSE
      OBVIOUS
    <3>1. m \in 1 .. k /\ \A i \in 1 .. m : i \in 1 .. k
      BY <1>5, <1>7
    <3>2. m \in 1 .. Len(front) /\ front[m] = p[m] /\ \A i \in 1 .. m : front[i] = p[i]
      BY <1>5, <3>1
    <3>3. Lose(front, r)
      BY <2>1, <3>2 DEF Lose
    <3> QED BY <1>8, <3>3
  <2>3. Keep(front, r)
    <3>1. \A i \in 1 .. k : i \in 1 .. m
      BY <1>5, <1>7, <2>2
    <3> QED BY <1>5, <2>1, <3>1 DEF Keep
  <2>4. RootOf(sent) = r /\ Held(sent, r)
    BY <1>8, <1>9, <2>3
  <2>5. Lose(left, r)
    <3> DEFINE n == m - k
    <3>1. n \in 1 .. Len(p) - k /\ k + n = m /\ \A i \in 1 .. n : k + i \in 1 .. m /\ i \in 1 .. Len(p) - k
      BY <1>5, <1>7, <2>2
    <3> HIDE DEF n
    <3>2. left[n] = p[m] /\ \A i \in 1 .. n : left[i] = p[k + i]
      BY <1>6, <3>1
    <3>3. n \in 1 .. Len(left) /\ Removes(left[n], r) /\ \A i \in 1 .. n : Keeps(left[i], r)
      BY <1>6, <2>1, <3>1, <3>2
    <3> QED BY <3>3 DEF Lose
  <2>6. AfterBatches(sent, left) = {}
    BY <1>4, <2>4, <2>5, AfterBatchesOf
  <2> QED BY <2>4, <2>5, <2>6
<1> QED BY <1>10, <1>11 DEF p, r

\* A message leaves the root of every state where it is.
LEMMA MessageAnchored ==
  ASSUME Valid, Anchored, Message
  PROVE  Anchored' /\ HistoryRooted'
<1>1. /\ StatesSound /\ used \in SUBSET Identity /\ SessionTyped(session, used)
  BY DEF Valid
<1>2. session.live
  BY MessageParts
<1>3. PICK k, c, sent, left, uids :
           /\ Sends(k, c, sent, left, uids)
           /\ session' = Told(session, sent, left) /\ used' = uids
           /\ \/ UNCHANGED <<doc, undo, redo, edited, others>>
              \/ \E overlay \in AfterBatches(sent, session'.pending) :
                   Loadable(Project(overlay)) /\ Incorporate(overlay)
  BY MessageParts
<1> DEFINE r == RootOf(session.room)
<1>4. /\ uids \in SUBSET Identity /\ RoomTyped(sent, uids)
      /\ left \in Seq(ToSet(left)) /\ Len(left) \in Nat
      /\ \A i \in 1 .. Len(left) : BatchTyped(left[i], uids)
  BY <1>1, <1>2, <1>3, SentOf
<1>5. session'.room = sent /\ session'.pending = left
  <2>1. Told(session, sent, left).room = sent /\ Told(session, sent, left).pending = left
    BY <1>1, <1>2, <1>4, SessionAfter
  <2> QED BY <1>3, <2>1
<1>6. /\ Keep(session.pending, r) =>
              RootOf(sent) = r /\ Keep(left, r) /\ \A x \in AfterBatches(sent, left) : RootOf(x) = r
      /\ Lose(session.pending, r) =>
              RootOf(sent) = r /\ Lose(left, r) /\ AfterBatches(sent, left) = {}
  BY <1>1, <1>2, <1>3, SentRoot
<1>7. (SameRoot(States, r) /\ Keep(session.pending, r)) \/ Lose(session.pending, r)
  BY <1>2 DEF Anchored
<1> HIDE DEF r
<1>8. \A s \in States : Rooted(s)
  <2> TAKE s \in States
  <2>1. PICK dep : Tree(s.nodes, dep)
    BY <1>1 DEF StatesSound, Sound, Raw, IsTree
  <2> QED BY <2>1 DEF Tree, Linked, Rooted
<1>9. CASE UNCHANGED <<doc, undo, redo, edited, others>>
  <2>1. States' = States
    BY <1>9 DEF States
  <2>2. HistoryRooted'
    BY <1>8, <2>1 DEF HistoryRooted, Rooted
  <2>3. \/ SameRoot(States', r) /\ Keep(left, r) /\ RootOf(sent) = r
        \/ Lose(left, r) /\ RootOf(sent) = r
    BY <1>6, <1>7, <2>1
  <2> QED BY <1>5, <2>2, <2>3 DEF Anchored
<1>10. CASE \E overlay \in AfterBatches(sent, session'.pending) : Loadable(Project(overlay)) /\ Incorporate(overlay)
  <2>1. PICK overlay \in AfterBatches(sent, left) : Loadable(Project(overlay)) /\ Incorporate(overlay)
    BY <1>5, <1>10
  <2>2. SameRoot(States, r) /\ Keep(session.pending, r)
    BY <1>6, <1>7, <2>1
  <2>3. RootOf(sent) = r /\ Keep(left, r) /\ RootOf(overlay) = r
    BY <1>6, <2>1, <2>2
  <2>4. RoomTyped(overlay, uids) /\ used \subseteq uids
    BY <1>3, <1>4, <2>1, AfterBatchesOf DEF Sends
  <2>5. RootedAt(States, r, uids)
    BY <1>1, <2>2, <2>4, MoreIdentities DEF RootedAt, SameRoot, StatesSound
  <2>6. RootedAt(StatesOf(Merged(overlay)), r, uids)
    BY <1>4, <2>1, <2>3, <2>4, <2>5, MergedOf
  <2>7. States' = StatesOf(Merged(overlay))
    BY <2>1 DEF Incorporate, StatesOf, States
  <2>8. SameRoot(States', r)
    BY <2>6, <2>7 DEF SameRoot, RootedAt
  <2>9. HistoryRooted'
    <3>1. ASSUME NEW s \in States' PROVE Root \in DOMAIN s.nodes /\ s.nodes[Root].parent = None
      <4>1. Sound(s, uids)
        BY <2>6, <2>7 DEF RootedAt
      <4>2. PICK dep : Tree(s.nodes, dep)
        BY <4>1 DEF Sound, Raw, IsTree
      <4> QED BY <4>2 DEF Tree, Linked
    <3> QED BY <3>1 DEF HistoryRooted
  <2> QED BY <1>5, <2>3, <2>8, <2>9 DEF Anchored
<1> QED BY <1>3, <1>9, <1>10

-----------------------------------------------------------------------------
(***************************************************************************)
(* What a message leaves in its place.                                     *)
(***************************************************************************)
\* A node that shows stays the selected one.
LEMMA StillShown ==
  ASSUME NEW d, NEW uids, Raw(d, uids), d.selected \in DOMAIN d.nodes,
         d.selected \in Unfolded(Rebuild(d).nodes)
  PROVE  Rebuild(d).selected = d.selected
<1> DEFINE n == Aggregated(d.nodes)
           s == d.selected
           S == ({s} \cup Ancestors(n, s)) \cap Unfolded(n)
<1>1. PICK dep : Tree(d.nodes, dep)
  BY DEF Raw, IsTree
<1>2. Alike(n, d.nodes) /\ n \in [DOMAIN d.nodes -> Node]
  BY <1>1, AggregatedIs
<1>3. Tree(n, dep) /\ DOMAIN n = DOMAIN d.nodes
  BY <1>1, <1>2, AlikeTree DEF Alike
<1>4. Rebuild(d).selected = Shown(n, s) /\ Rebuild(d).nodes = n
  BY RebuildIs DEF Raw
<1> HIDE DEF n
<1>5. s \in DOMAIN n /\ None \notin DOMAIN n
  BY <1>3, KidsDeeper
<1> HIDE DEF s
<1>6. Shown(n, s) = Deepest(n, S)
  BY <1>5 DEF Shown
<1>7. /\ Ancestors(n, s) \subseteq DOMAIN n /\ \A a \in Ancestors(n, s) : dep[a] < dep[s]
      /\ \A i \in DOMAIN n : Depth(n, i) = dep[i] /\ dep[i] \in Nat
  BY <1>3, <1>5, AncestorsOf, KidsDeeper
<1>8. s \in S /\ \A j \in S : j # s => Depth(n, j) < Depth(n, s)
  BY <1>4, <1>5, <1>7 DEF s
<1>9. \A j \in S : Depth(n, j) \in Nat
  BY <1>5, <1>7
<1> HIDE DEF S
<1>10. Deepest(n, S) = s
  <2>1. \A i \in S : (\A j \in S : Depth(n, j) <= Depth(n, i)) => i = s
    BY <1>8, <1>9
  <2>2. \A j \in S : Depth(n, j) <= Depth(n, s)
    BY <1>8, <1>9
  <2>3. (CHOOSE i \in S : \A j \in S : Depth(n, j) <= Depth(n, i)) = s
    BY <1>8, <2>1, <2>2
  <2> QED BY <2>3 DEF Deepest
<1> QED BY <1>4, <1>6, <1>10 DEF s

\* ... also when its place is found by its identity.
LEMMA SelectedKept ==
  ASSUME NEW e, NEW uids, Raw(e, uids), NEW old, NEW s, s = old.selected, s \in DOMAIN e.nodes, s \in DOMAIN old.nodes,
         \A j \in DOMAIN e.nodes : e.nodes[j].syncId = old.nodes[s].syncId <=> j = s
  PROVE  KeepSelection(e, old).selected = s
<1> DEFINE same(i) == {j \in DOMAIN e.nodes :
                         i \in DOMAIN old.nodes /\ e.nodes[j].syncId = old.nodes[i].syncId}
           chosen == IF same(old.selected) = {} THEN Root ELSE CHOOSE j \in same(old.selected) : TRUE
           kept == UNION {same(i) : i \in old.selection}
           S == IF kept = {} THEN {chosen} ELSE kept
<1>1. KeepSelection(e, old) = [e EXCEPT !.selected = chosen, !.selection = S]
  BY DEF KeepSelection
<1>2. same(old.selected) = {s}
  OBVIOUS
<1>3. chosen = s
  <2> HIDE DEF same
  <2> QED BY <1>2
<1> HIDE DEF chosen, S
<1>4. IsDocument(e)
  BY DEF Raw
<1>5. [e EXCEPT !.selected = chosen, !.selection = S].selected = chosen
  BY <1>4 DEF IsDocument
<1> QED BY <1>1, <1>3, <1>5

KeepsPlace(d) ==
  /\ \A i \in DOMAIN nodes, j \in DOMAIN d.nodes : i = j <=> nodes[i].syncId = d.nodes[j].syncId
  /\ Selected \in DOMAIN d.nodes /\ Selected \in Unfolded(d.nodes) => d.selected = Selected

\* A document whose nodes and those of the window have the same numbers.
LEMMA PlacedAlike ==
  ASSUME NEW known, Numbers(known), Placed(nodes, known), NEW m, Placed(m, known)
  PROVE  \A i \in DOMAIN nodes, j \in DOMAIN m : i = j <=> nodes[i].syncId = m[j].syncId
BY DEF Placed, Numbers

LEMMA MergedPlace ==
  ASSUME Valid, NEW uids \in SUBSET Identity, used \subseteq uids,
         NEW overlay, RoomTyped(overlay, uids), Loadable(Project(overlay)),
         doc.nodes[Root].syncId = RootOf(overlay)
  PROVE  KeepsPlace(Merged(overlay).doc)
<1> DEFINE r == RootOf(overlay)
           ops == Diff(Normalize(doc), overlay)
           known == Meet(LocalNumbers(doc, RootOf(overlay)), DOMAIN overlay.nodes)
           candidate == Rebuild(Renumbered(Loaded(Project(overlay)), known))
           undone == Rebased(undo, ops, known)
           redone == Rebased(redo, ops, undone.known)
           a == redone.known.next
           x == [candidate EXCEPT !.nextId = a]
           y == KeepSelection(x, doc)
           z == Rebuild(y)
           m == Merged(overlay)
<1>1. m = IF Bytes(candidate) = Bytes(doc) THEN [doc |-> doc, undo |-> undo, redo |-> redo]
          ELSE [doc |-> z, undo |-> undone.stack, redo |-> redone.stack]
  BY DEF Merged
<1>2. Sound(doc, uids) /\ HistoryTyped
  BY DocIs, MoreIdentities DEF Valid
<1>3. /\ Numbers(known) /\ r \in DOMAIN known.of /\ known.of[r] = Root
      /\ Raw(candidate, uids) /\ candidate.nextId = known.next
      /\ Placed(candidate.nodes, known) /\ Placed(nodes, known)
  BY <1>2, CandidateOf DEF nodes
<1>4. CASE Bytes(candidate) = Bytes(doc)
  <2>1. m.doc = doc
    BY <1>1, <1>4
  <2>2. \A i \in DOMAIN nodes, j \in DOMAIN doc.nodes : i = j <=> nodes[i].syncId = doc.nodes[j].syncId
    <3> HIDE DEF known, candidate
    <3> QED BY <1>3, PlacedAlike DEF nodes
  <2>3. KeepsPlace(doc)
    BY <2>2 DEF KeepsPlace, Selected
  <2> HIDE DEF m
  <2> QED BY <2>1, <2>3 DEF m
<1>5. CASE Bytes(candidate) # Bytes(doc)
  <2>1. m.doc = z
    BY <1>1, <1>5
  <2> HIDE DEF m
  <2>2. BatchTyped(ops, uids)
    BY <1>2, RoomRoot, SoundRoom, DiffOf DEF RoomTyped
  <2> HIDE DEF known, candidate, ops
  <2>3. a \in Nat /\ known.next <= a
    <3>1. /\ undo \in Seq(ToSet(undo)) /\ redo \in Seq(ToSet(redo))
          /\ \A s \in ToSet(undo) : Sound(s, uids)
          /\ \A s \in ToSet(redo) : Sound(s, uids)
      BY <1>2, MoreIdentities DEF HistoryTyped, Valid, StatesSound, States
    <3>2. RebasedTyped(undone, known, Len(undo), uids)
      BY <1>3, <2>2, <3>1, RebasedOf
    <3> DEFINE middle == undone.known
    <3>3. Numbers(middle) /\ Extends(middle, known)
      BY <3>2 DEF RebasedTyped
    <3>4. redone = Rebased(redo, ops, middle)
      OBVIOUS
    <3> HIDE DEF undone, redone, middle
    <3>5. RebasedTyped(Rebased(redo, ops, middle), middle, Len(redo), uids)
      BY <2>2, <3>1, <3>3, RebasedOf
    <3>6. Numbers(redone.known) /\ Extends(redone.known, middle)
      BY <3>4, <3>5 DEF RebasedTyped
    <3>7. Extends(redone.known, known)
      BY <1>3, <3>3, <3>6, ExtendsOn
    <3> QED BY <3>6, <3>7 DEF Numbers, Extends
  <2> HIDE DEF a
  <2>4. Raw(x, uids) /\ x.nodes = candidate.nodes
    BY <1>3, <2>3, NextRaised
  <2> HIDE DEF x
  <2>5. Raw(y, uids) /\ y.nodes = x.nodes
    BY <2>4, KeptSelection
  <2>6. \A i \in DOMAIN nodes, j \in DOMAIN x.nodes : i = j <=> nodes[i].syncId = x.nodes[j].syncId
    BY <1>3, <2>4, PlacedAlike
  <2>7. Selected \in DOMAIN x.nodes => y.selected = Selected
    <3> SUFFICES ASSUME Selected \in DOMAIN x.nodes PROVE y.selected = Selected
      OBVIOUS
    <3>1. Selected \in DOMAIN nodes
      <4>1. Selected \in DOMAIN nodes \cup {None}
        BY DocIs
      <4>2. None \notin DOMAIN x.nodes
        BY <2>4, KidsDeeper DEF Raw, IsTree, Tree, Linked
      <4> QED BY <4>1, <4>2
    <3>2. \A j \in DOMAIN x.nodes : x.nodes[j].syncId = doc.nodes[Selected].syncId <=> j = Selected
      BY <2>6, <3>1 DEF nodes
    <3>3. Selected = doc.selected /\ Selected \in DOMAIN doc.nodes
      BY <3>1 DEF Selected, nodes
    <3> HIDE DEF Selected
    <3> QED BY <2>4, <3>2, <3>3, SelectedKept
  <2> HIDE DEF y
  <2>8. z.nodes = Aggregated(y.nodes) /\ Alike(z.nodes, y.nodes)
    <3>1. z.nodes = Aggregated(y.nodes)
      BY <2>5, RebuildIs DEF Raw
    <3>2. PICK dep : Tree(y.nodes, dep)
      BY <2>5 DEF Raw, IsTree
    <3>3. Alike(Aggregated(y.nodes), y.nodes)
      BY <3>2, AggregatedIs
    <3> QED BY <3>1, <3>3
  <2>9. \A i \in DOMAIN nodes, j \in DOMAIN z.nodes : i = j <=> nodes[i].syncId = z.nodes[j].syncId
    BY <2>5, <2>6, <2>8 DEF Alike
  <2>10. ASSUME Selected \in DOMAIN z.nodes, Selected \in Unfolded(z.nodes) PROVE z.selected = Selected
    <3>1. Selected \in DOMAIN y.nodes /\ y.selected = Selected
      BY <2>5, <2>7, <2>8, <2>10 DEF Alike
    <3> QED BY <2>5, <2>10, <3>1, StillShown
  <2> HIDE DEF z
  <2> QED BY <2>1, <2>9, <2>10 DEF KeepsPlace, m
<1> QED BY <1>4, <1>5

LEMMA MessagePlaced ==
  ASSUME Valid, Anchored, Message
  PROVE  KeepsPlace(doc')
<1>1. used \in SUBSET Identity /\ SessionTyped(session, used) /\ Sound(doc, used)
  BY DocIs DEF Valid
<1>2. session.live
  BY MessageParts
<1>3. PICK k, c, sent, left, uids :
           /\ Sends(k, c, sent, left, uids)
           /\ session' = Told(session, sent, left) /\ used' = uids
           /\ \/ UNCHANGED <<doc, undo, redo, edited, others>>
              \/ \E overlay \in AfterBatches(sent, session'.pending) :
                   Loadable(Project(overlay)) /\ Incorporate(overlay)
  BY MessageParts
<1> DEFINE r == RootOf(session.room)
<1>4. /\ uids \in SUBSET Identity /\ RoomTyped(sent, uids)
      /\ left \in Seq(ToSet(left)) /\ Len(left) \in Nat
      /\ \A i \in 1 .. Len(left) : BatchTyped(left[i], uids)
  BY <1>1, <1>2, <1>3, SentOf
<1>5. session'.pending = left
  <2>1. Told(session, sent, left).pending = left
    BY <1>1, <1>2, <1>4, SessionAfter
  <2> QED BY <1>3, <2>1
<1>6. /\ Keep(session.pending, r) => \A x \in AfterBatches(sent, left) : RootOf(x) = r
      /\ Lose(session.pending, r) => AfterBatches(sent, left) = {}
  BY <1>1, <1>2, <1>3, SentRoot
<1>7. (SameRoot(States, r) /\ Keep(session.pending, r)) \/ Lose(session.pending, r)
  BY <1>2 DEF Anchored
<1> HIDE DEF r
<1>8. CASE UNCHANGED <<doc, undo, redo, edited, others>>
  <2>1. Distinct(doc.nodes) /\ doc' = doc
    BY <1>1, <1>8 DEF Sound, Raw
  <2> QED BY <2>1 DEF KeepsPlace, Distinct, nodes, Selected
<1>9. CASE \E overlay \in AfterBatches(sent, session'.pending) : Loadable(Project(overlay)) /\ Incorporate(overlay)
  <2>1. PICK overlay \in AfterBatches(sent, left) : Loadable(Project(overlay)) /\ Incorporate(overlay)
    BY <1>5, <1>9
  <2>2. SameRoot(States, r) /\ RootOf(overlay) = r
    BY <1>6, <1>7, <2>1
  <2>3. doc.nodes[Root].syncId = RootOf(overlay)
    BY <2>2 DEF SameRoot, States
  <2>4. RoomTyped(overlay, uids) /\ used \subseteq uids
    BY <1>3, <1>4, <2>1, AfterBatchesOf DEF Sends
  <2>5. KeepsPlace(Merged(overlay).doc)
    BY <1>4, <2>1, <2>3, <2>4, MergedPlace
  <2>6. doc' = Merged(overlay).doc
    BY <2>1 DEF Incorporate
  <2> HIDE DEF Merged, KeepsPlace
  <2> QED BY <2>5, <2>6
<1> QED BY <1>3, <1>8, <1>9

\* Only messages bring another map of the room, when no file joins one.
LEMMA OnlyMessages ==
  ASSUME ~SharedFile, Valid, Next, session.live, session'.live, session'.room # session.room
  PROVE  Message
<1>1. session' # session /\ \A s : session' = s => s.live /\ s.room # session.room
  OBVIOUS
<1>2. ~Recover /\ ~Open
  BY <1>1 DEF Recover, Open, NoSession
<1>3. ASSUME NEW before, NEW after PROVE session' # Captured(before, after)
  <2> DEFINE longer == [session EXCEPT !.pending = Append(@, Diff(Normalize(before), Normalize(after)))]
  <2>1. Captured(before, after) = session \/ Captured(before, after) = longer
    BY DEF Captured
  <2>2. longer.room = session.room
    BY DEF Valid, SessionTyped
  <2> QED BY <1>1, <2>1, <2>2
<1>4. ~Undo /\ ~Redo /\ ~Save
  BY <1>3 DEF Undo, Redo, Save, Restore, Show
<1>5. ~(Nodes \/ Contents \/ Looks \/ Selections)
  <2>1. Nodes \/ Contents \/ Looks \/ Selections => Steady
    BY NodeActionsValid, ContentsValid, LooksValid, SelectionsValid
  <2> QED BY <1>1, <1>3, <2>1 DEF Steady, RootStays
<1> QED BY <1>2, <1>4, <1>5 DEF Next, Files

-----------------------------------------------------------------------------
(***************************************************************************)
(* The window.                                                             *)
(***************************************************************************)
LEMMA StartSound ==
  ASSUME NEW d \in Opening \cup Joined
  PROVE  Sound(d, IdentitiesOf(d.nodes)) /\ OnDisplay(d) /\ IdentitiesOf(d.nodes) \subseteq Identity
<1> DEFINE b == Bytes(d)
<1>1. /\ IsDocument(d) /\ IsFile(b) /\ Loadable(b) /\ Rebuild(d) = d
      /\ DOMAIN d.nodes \subseteq 1 .. d.nextId - 1 /\ IdentitiesOf(d.nodes) \subseteq Identity
      /\ d.selected = None => d.selection = {}
  BY StartAssumption
<1>2. b.nodes = d.nodes /\ b.connections = d.connections /\ b.layout = d.layout /\ b.manual = d.manual
  BY DEF Bytes
<1> HIDE DEF b
<1>3. Records(d.nodes) /\ IsFiniteSet(DOMAIN d.nodes)
  BY <1>1, <1>2 DEF IsFile, Records
<1>4. /\ ~(d.layout = "Compact" /\ d.manual)
      /\ Cardinality(DOMAIN d.nodes) <= MaxNodes
      /\ Cardinality(IdentitiesOf(d.nodes)) = Cardinality(DOMAIN d.nodes)
      /\ ValidNodes(d.nodes) /\ ValidTree(d.nodes) /\ ValidConnections(d.nodes, d.connections)
  BY <1>1, <1>2 DEF Loadable, ValidNodes
<1>5. IsTree(d.nodes)
  BY <1>3, <1>4, ValidIsTree
<1>6. Distinct(d.nodes)
  BY <1>3, <1>4, DistinctCounts
<1>7. Joins(d)
  BY <1>4 DEF ValidConnections, Joins
<1>8. Raw(d, IdentitiesOf(d.nodes))
  BY <1>1, <1>4, <1>5, <1>6, <1>7 DEF Raw
<1> QED BY <1>1, <1>8, RebuildSound

LEMMA InitValid == Init => Valid /\ Anchored
<1> SUFFICES ASSUME Init PROVE Valid /\ Anchored
  OBVIOUS
<1> DEFINE none == <<>>
<1>1. /\ \/ doc \in Opening /\ session = NoSession
         \/ doc \in Joined /\ session = LiveWith(doc)
      /\ undo = none /\ redo = none /\ file = OnDisk /\ path = FALSE /\ saved = Bytes(doc) /\ edited = FALSE
      /\ clipboard = none /\ used = IdentitiesOf(doc.nodes) \cup IdentitiesOf(file.nodes)
      /\ others = Nobody /\ effort = 0
  BY DEF Init
<1>2. none \in Seq(ToSet(none)) /\ Len(none) = 0 /\ ToSet(none) = {}
  BY DEF ToSet
<1>3. Sound(doc, IdentitiesOf(doc.nodes)) /\ OnDisplay(doc) /\ IdentitiesOf(doc.nodes) \subseteq Identity
  BY <1>1, StartSound
<1>4. /\ IsFile(file) /\ IdentitiesOf(file.nodes) \subseteq Identity
      /\ Loadable(file) => Aggregated(file.nodes) = file.nodes
  BY <1>1, StartAssumption
<1>5. used \in SUBSET Identity /\ Sound(doc, used)
  BY <1>1, <1>3, <1>4, MoreIdentities
<1>6. States = {doc}
  BY <1>1, <1>2 DEF States
<1>7. SessionTyped(session, used)
  BY <1>1, <1>5, SessionsTyped
<1>8. HistoryTyped
  BY <1>1, <1>2, EditorAssumption DEF HistoryTyped
<1>9. FileTyped
  <2>1. IdentitiesOf(file.nodes) \subseteq used
    BY <1>1
  <2> QED BY <1>1, <1>4, <2>1 DEF FileTyped
<1>10. ClipboardTyped
  BY <1>1 DEF ClipboardTyped
<1>11. effort \in 0 .. MaxEffort
  BY <1>1, EditorAssumption
<1>12. others \in [wrote : {others.wrote}, added : {others.added}, gone : SUBSET Identity]
  BY <1>1, NobodyTyped
<1>13. Valid
  BY <1>3, <1>5, <1>6, <1>7, <1>8, <1>9, <1>10, <1>11, <1>12 DEF Valid, StatesSound
<1>14. Anchored
  <2>1. CASE session = NoSession
    BY <2>1 DEF Anchored, NoSession
  <2>2. CASE session = LiveWith(doc)
    <3>1. session.room = Normalize(doc) /\ session.pending = none
      BY <2>2 DEF LiveWith
    <3>2. RootOf(Normalize(doc)) = doc.nodes[Root].syncId
      BY <1>5, SoundRoom
    <3>3. \A r : Keep(none, r)
      BY <1>2 DEF Keep
    <3> QED BY <1>6, <3>1, <3>2, <3>3 DEF Anchored, SameRoot
  <2> QED BY <1>1, <2>1, <2>2
<1> QED BY <1>13, <1>14

LEMMA StutterValid ==
  ASSUME Valid, UNCHANGED vars
  PROVE  Valid'
<1>1. /\ doc' = doc /\ undo' = undo /\ redo' = redo /\ file' = file /\ path' = path /\ saved' = saved
      /\ edited' = edited /\ clipboard' = clipboard /\ session' = session /\ used' = used
      /\ others' = others /\ effort' = effort
  BY DEF vars
<1>2. States' = States
  BY <1>1 DEF States
<1> QED BY <1>1, <1>2 DEF Valid, StatesSound, HistoryTyped, FileTyped, ClipboardTyped

\* Every step but a message keeps the window valid, and a message does as long as
\* every state of the history has its root.
LEMMA StepValid ==
  ASSUME Valid, [Next]_vars, HistoryRooted' \/ Anchored
  PROVE  Valid'
<1>1. CASE UNCHANGED vars
  BY <1>1, StutterValid
<1>2. CASE Message
  <2>1. HistoryRooted'
    BY <1>2, MessageAnchored
  <2> QED BY <1>2, <2>1, MessageValid
<1>3. CASE Nodes \/ Contents \/ Looks \/ Selections
  BY <1>3, NodeActionsValid, ContentsValid, LooksValid, SelectionsValid
<1>4. CASE Undo \/ Redo
  BY <1>4, HistoryValid
<1>5. CASE Files
  BY <1>5, FilesValid
<1> QED BY <1>1, <1>2, <1>3, <1>4, <1>5 DEF Next

\* The inductive invariant of a window whose file is of no live map.
LEMMA StepAnchored ==
  ASSUME ~SharedFile, Valid, Anchored, [Next]_vars
  PROVE  Valid' /\ Anchored'
<1>1. Valid'
  BY StepValid
<1>2. CASE UNCHANGED vars
  <2>1. States' = States /\ session' = session
    BY <1>2 DEF vars, States
  <2> QED BY <1>1, <2>1 DEF Anchored
<1>3. CASE Message
  BY <1>1, <1>3, MessageAnchored
<1>4. CASE Nodes \/ Contents \/ Looks \/ Selections
  BY <1>1, <1>4, ChangesAnchored
<1>5. CASE Undo \/ Redo
  BY <1>1, <1>5, HistoryAnchored
<1>6. CASE Files
  BY <1>1, <1>6, FilesAnchored
<1> QED BY <1>2, <1>3, <1>4, <1>5, <1>6 DEF Next

\* ... of which every property of the window follows that is about one state.
LEMMA ValidTypes == Valid => TypeOK
<1> SUFFICES ASSUME Valid PROVE TypeOK
  OBVIOUS
<1>1. /\ StatesSound /\ used \in SUBSET Identity /\ HistoryTyped /\ FileTyped /\ SessionTyped(session, used)
      /\ others \in [wrote : {others.wrote}, added : {others.added}, gone : SUBSET Identity]
      /\ effort \in 0 .. MaxEffort
  BY DEF Valid
<1>2. ASSUME NEW s \in States PROVE IsState(s)
  <2>1. Sound(s, used)
    BY <1>1 DEF StatesSound
  <2>2. IsDocument(s) /\ DOMAIN s.nodes \subseteq 1 .. s.nextId - 1
        /\ s.selected \in DOMAIN s.nodes \cup {None} /\ s.selection \subseteq DOMAIN s.nodes
    BY <2>1 DEF Sound, Raw
  <2>3. s.nodes \in [DOMAIN s.nodes -> Node]
    BY <2>1 DEF Sound, Raw, IsTree, Tree, Typed
  <2>4. DOMAIN s = DOMAIN Blank(1) /\ s.layout \in Layout /\ s.manual \in BOOLEAN /\ s.look \in Content
    BY <2>2 DEF IsDocument, Blank
  <2>5. \A i \in DOMAIN s.nodes : DOMAIN s.nodes[i] = DOMAIN NewNode(1, None) /\ s.nodes[i].content \in Content
    BY <2>3 DEF Node, NewNode
  <2> QED BY <2>2, <2>4, <2>5 DEF IsState
<1>3. path \in BOOLEAN /\ edited \in BOOLEAN /\ session.live \in BOOLEAN
  BY <1>1 DEF FileTyped, SessionTyped
<1>4. others.gone \subseteq Identity
  BY <1>1
<1> QED BY <1>1, <1>2, <1>3, <1>4 DEF TypeOK, HistoryTyped

LEMMA ValidOpens == Valid => StatesOpen
<1> SUFFICES ASSUME Valid PROVE StatesOpen
  OBVIOUS
<1>1. \A s \in States : Sound(s, used)
  BY DEF Valid, StatesSound
<1> QED BY <1>1, SoundLoads DEF StatesOpen

LEMMA ValidSettled == Valid => HistorySettled
<1> SUFFICES ASSUME Valid PROVE HistorySettled
  OBVIOUS
<1>1. \A s \in States : Sound(s, used)
  BY DEF Valid, StatesSound
<1> QED BY <1>1, RebuildKeeps DEF HistorySettled

LEMMA ValidRooted == Valid => HistoryRooted
<1> SUFFICES ASSUME Valid, NEW s \in States PROVE Root \in DOMAIN s.nodes /\ s.nodes[Root].parent = None
  BY DEF HistoryRooted
<1>1. Sound(s, used)
  BY DEF Valid, StatesSound
<1>2. PICK dep : Tree(s.nodes, dep)
  BY <1>1 DEF Sound, Raw, IsTree
<1> QED BY <1>2 DEF Tree, Linked

LEMMA ValidShown == Valid => SelectionShown
BY DEF Valid, OnDisplay, SelectionShown, nodes

\* A pair that is turned round relates the same two nodes.
LEMMA TurnedRound ==
  ASSUME NEW a \in Int, NEW b \in Int
  PROVE  Oriented(<<a, b>>) = Oriented(<<b, a>>)
BY DEF Oriented

LEMMA ValidClosing == Valid => ClosingLosesNothing
<1> SUFFICES ASSUME Valid, path, ~edited
             PROVE  Normalize([doc EXCEPT !.nodes = file.nodes, !.connections = file.connections,
                                          !.layout = file.layout, !.manual = file.manual,
                                          !.look = file.look]) = Normalize(doc)
  BY DEF ClosingLosesNothing
<1> DEFINE e == [doc EXCEPT !.nodes = file.nodes, !.connections = file.connections,
                            !.layout = file.layout, !.manual = file.manual, !.look = file.look]
<1>1. FileTyped /\ Sound(doc, Identity) /\ IsDocument(doc) /\ IsTree(doc.nodes)
  BY DocIs DEF Valid, nodes
<1>2. SameFile(saved, file) /\ Bytes(doc) = saved /\ IsFile(file)
  BY <1>1 DEF FileTyped
<1>3. SameFile(Bytes(doc), file)
  BY <1>2
<1>4. /\ file.nodes = doc.nodes /\ file.layout = doc.layout /\ file.manual = doc.manual /\ file.look = doc.look
      /\ DOMAIN file.connections = DOMAIN doc.connections
      /\ \A k \in DOMAIN doc.connections :
           doc.connections[k] = file.connections[k] \/ doc.connections[k] = Oriented(file.connections[k])
  BY <1>3 DEF SameFile, Bytes
<1>5. /\ e.nodes = doc.nodes /\ e.connections = file.connections /\ e.layout = doc.layout
      /\ e.manual = doc.manual /\ e.look = doc.look
  BY <1>1, <1>4 DEF IsDocument
<1> HIDE DEF e
<1>6. /\ \A k \in DOMAIN file.connections :
           file.connections[k] = <<file.connections[k][1], file.connections[k][2]>>
      /\ doc.connections \in Seq(Int \X Int) /\ Joins(doc)
  BY <1>1, <1>2 DEF IsFile, IsDocument, Sound, Raw
<1> DEFINE uid(i) == IF i = None THEN NoParent ELSE doc.nodes[i].syncId
           edge(p) == Oriented(<<uid(p[1]), uid(p[2])>>)
<1>7. \A i \in DOMAIN doc.nodes : uid(i) \in Int
  <2>1. doc.nodes \in [DOMAIN doc.nodes -> Node]
    BY <1>1 DEF IsTree, Tree, Typed
  <2> QED BY <2>1 DEF Node, NoParent
<1>8. ASSUME NEW k \in DOMAIN doc.connections
      PROVE  edge(doc.connections[k]) = edge(file.connections[k])
  <2> DEFINE p == doc.connections[k]
             q == file.connections[k]
  <2>1. /\ p[1] \in DOMAIN doc.nodes /\ p[2] \in DOMAIN doc.nodes /\ q = <<q[1], q[2]>>
        /\ p = q \/ p = Oriented(q)
    BY <1>4, <1>6 DEF Joins
  <2> HIDE DEF p, q
  <2>2. p = q \/ (p[1] = q[2] /\ p[2] = q[1])
    BY <2>1 DEF Oriented
  <2>3. uid(p[1]) \in Int /\ uid(p[2]) \in Int
    BY <1>7, <2>1
  <2> HIDE DEF uid
  <2>4. CASE p = q
    BY <2>4 DEF p, q
  <2>5. CASE p[1] = q[2] /\ p[2] = q[1]
    <3>1. Oriented(<<uid(p[1]), uid(p[2])>>) = Oriented(<<uid(p[2]), uid(p[1])>>)
      BY <2>3, TurnedRound
    <3> QED BY <2>5, <3>1 DEF p, q
  <2> QED BY <2>2, <2>4, <2>5
<1> HIDE DEF edge
<1>9. {edge(p) : p \in ToSet(file.connections)} = {edge(p) : p \in ToSet(doc.connections)}
  BY <1>4, <1>8 DEF ToSet
<1>10. {Oriented(<<uid(p[1]), uid(p[2])>>) : p \in ToSet(e.connections)}
         = {Oriented(<<uid(p[1]), uid(p[2])>>) : p \in ToSet(doc.connections)}
  BY <1>5, <1>9 DEF edge
<1> HIDE DEF uid
<1>11. Normalize(e) = Normalize(doc)
  <2> DEFINE name(n, i) == IF i = None THEN NoParent ELSE n[i].syncId
             local(n, u) == CHOOSE i \in DOMAIN n : n[i].syncId = u
             order(n, i) == IF n[i].parent = None THEN 0 ELSE Position(n[n[i].parent].children, i) - 1
             live(n) == Table([u \in IdentitiesOf(n) |->
                          [kind |-> n[local(n, u)].kind, meeting |-> n[local(n, u)].meeting,
                           task |-> n[local(n, u)].task, checked |-> n[local(n, u)].checked,
                           folded |-> n[local(n, u)].folded, content |-> n[local(n, u)].content,
                           parent |-> name(n, n[local(n, u)].parent), order |-> order(n, local(n, u))]])
             pairs(n, c) == {Oriented(<<name(n, p[1]), name(n, p[2])>>) : p \in ToSet(c)}
             whole(d) == [props |-> [layout |-> d.layout, manual |-> d.manual, look |-> d.look],
                          nodes |-> live(d.nodes), edges |-> pairs(d.nodes, d.connections)]
  <2>1. Normalize(e) = whole(e) /\ Normalize(doc) = whole(doc)
    BY DEF Normalize
  <2>2. pairs(doc.nodes, e.connections) = pairs(doc.nodes, doc.connections)
    BY <1>10 DEF uid
  <2> HIDE DEF live, pairs
  <2>3. whole(e) = whole(doc)
    BY <1>5, <2>2
  <2> HIDE DEF whole
  <2> QED BY <2>1, <2>3
<1> QED BY <1>11 DEF e

-----------------------------------------------------------------------------
(***************************************************************************)
(* What others wrote, added and removed, in every state of the history.    *)
(***************************************************************************)
\* A state, by what its nodes say, keeps to what others did.
Follows(W, o) ==
  /\ \A w \in W : w[1] \notin o.gone /\ (w[1] \in DOMAIN o.wrote => w[2] = o.wrote[w[1]])
  /\ o.added \subseteq {w[1] : w \in W}

TheirsKept ==
  /\ others.gone \subseteq used
  /\ \A s \in States : Follows(Words(s.nodes), others)

LEMMA NodeWords ==
  ASSUME NEW n
  PROVE  /\ {w[1] : w \in Words(n)} = IdentitiesOf(n)
         /\ \A w \in Words(n) : \E i \in DOMAIN n : w[1] = n[i].syncId /\ w[2] = n[i].content
         /\ \A i \in DOMAIN n : <<n[i].syncId, n[i].content>> \in Words(n)
<1> DEFINE pair(i) == <<n[i].syncId, n[i].content>>
           W == {pair(i) : i \in DOMAIN n}
<1>1. \A i \in DOMAIN n : pair(i) \in W /\ pair(i)[1] = n[i].syncId /\ pair(i)[2] = n[i].content
  OBVIOUS
<1>2. \A w \in W : \E i \in DOMAIN n : w = pair(i)
  OBVIOUS
<1>3. Words(n) = W
  BY DEF Words
<1>4. \A i \in DOMAIN n : <<n[i].syncId, n[i].content>> \in W
  OBVIOUS
<1> HIDE DEF pair, W
<1>5. \A w \in W : \E i \in DOMAIN n : w[1] = n[i].syncId /\ w[2] = n[i].content
  BY <1>1, <1>2
<1>6. {w[1] : w \in W} = IdentitiesOf(n)
  BY <1>1, <1>5 DEF IdentitiesOf
<1> QED BY <1>3, <1>4, <1>5, <1>6

LEMMA FollowsShared ==
  ASSUME NEW c, NEW o
  PROVE  Follows(SharedWords(c), o) <=>
           /\ \A u \in DOMAIN c.nodes : /\ u \notin o.gone
                                        /\ u \in DOMAIN o.wrote => c.nodes[u].content = o.wrote[u]
           /\ o.added \subseteq DOMAIN c.nodes
<1> DEFINE W == SharedWords(c)
<1>1. /\ {w[1] : w \in W} = DOMAIN c.nodes
      /\ \A w \in W : w[1] \in DOMAIN c.nodes /\ w[2] = c.nodes[w[1]].content
  BY WordsIn
<1> HIDE DEF W
<1>2. \A u \in DOMAIN c.nodes : \E w \in W : w[1] = u /\ w[2] = c.nodes[u].content
  BY <1>1
<1>3. ASSUME Follows(W, o)
      PROVE  /\ \A u \in DOMAIN c.nodes : /\ u \notin o.gone
                                          /\ u \in DOMAIN o.wrote => c.nodes[u].content = o.wrote[u]
             /\ o.added \subseteq DOMAIN c.nodes
  BY <1>1, <1>2, <1>3 DEF Follows
<1>4. ASSUME \A u \in DOMAIN c.nodes : /\ u \notin o.gone
                                       /\ u \in DOMAIN o.wrote => c.nodes[u].content = o.wrote[u],
             o.added \subseteq DOMAIN c.nodes
      PROVE  Follows(W, o)
  BY <1>1, <1>4 DEF Follows
<1> QED BY <1>3, <1>4 DEF W

\* What a message tells of others.
Tells(o, a, b) ==
  /\ o.gone = (others.gone \cup (DOMAIN a.nodes \ DOMAIN b.nodes)) \ DOMAIN b.nodes
  /\ o.added = IF DOMAIN a.nodes \subseteq DOMAIN b.nodes
                 THEN others.added \cup (DOMAIN b.nodes \ DOMAIN a.nodes) ELSE {}
  /\ \A u : u \in DOMAIN o.wrote <=>
              u \in DOMAIN b.nodes /\ (Rewritten(a, b, u) \/ u \in DOMAIN others.wrote)
  /\ \A u \in DOMAIN o.wrote :
       o.wrote[u] = IF Rewritten(a, b, u) THEN b.nodes[u].content ELSE others.wrote[u]

LEMMA ObservedIs ==
  ASSUME NEW a, NEW b
  PROVE  Tells(Observed(a, b), a, b)
<1> DEFINE was == DOMAIN a.nodes
           is == DOMAIN b.nodes
           theirs == {u \in is : u \in was => a.nodes[u].content # b.nodes[u].content}
           known == is \cap (theirs \cup DOMAIN others.wrote)
           word(u) == IF u \in theirs THEN b.nodes[u].content ELSE others.wrote[u]
           w == [u \in known |-> word(u)]
           o == Observed(a, b)
<1>1. o = [wrote |-> w, added |-> IF was \subseteq is THEN others.added \cup (is \ was) ELSE {},
           gone |-> (others.gone \cup (was \ is)) \ is]
  BY DEF Observed
<1> HIDE DEF o
<1>2. DOMAIN w = known /\ \A u \in known : w[u] = word(u)
  OBVIOUS
<1> HIDE DEF w
<1>3. \A u : u \in theirs <=> Rewritten(a, b, u)
  BY DEF Rewritten
<1> HIDE DEF theirs
<1>4. o.wrote = w /\ o.gone = (others.gone \cup (was \ is)) \ is
      /\ o.added = IF was \subseteq is THEN others.added \cup (is \ was) ELSE {}
  BY <1>1
<1>5. \A u : u \in DOMAIN w <=> u \in is /\ (Rewritten(a, b, u) \/ u \in DOMAIN others.wrote)
  BY <1>2, <1>3
<1>6. \A u \in DOMAIN w : w[u] = IF Rewritten(a, b, u) THEN b.nodes[u].content ELSE others.wrote[u]
  BY <1>2, <1>3
<1> HIDE DEF known, word
<1> QED BY <1>4, <1>5, <1>6 DEF o, Tells

\* A state that takes the operations of a message.
LEMMA LaidFollows ==
  ASSUME NEW uids \in SUBSET Identity, NEW a, LiveDoc(a, uids), NEW b, LiveDoc(b, uids),
         NEW c, LiveDoc(c, uids), NEW x \in Results(c, Diff(a, b)), Follows(SharedWords(c), others)
  PROVE  Follows(SharedWords(x), Observed(a, b))
<1> DEFINE o == Observed(a, b)
           was == DOMAIN a.nodes
           is == DOMAIN b.nodes
           now == DOMAIN x.nodes
           had == DOMAIN c.nodes
<1>1. /\ o.gone = (others.gone \cup (was \ is)) \ is
      /\ o.added = IF was \subseteq is THEN others.added \cup (is \ was) ELSE {}
      /\ \A u : u \in DOMAIN o.wrote <=> u \in is /\ (Rewritten(a, b, u) \/ u \in DOMAIN others.wrote)
      /\ \A u \in DOMAIN o.wrote :
           o.wrote[u] = IF Rewritten(a, b, u) THEN b.nodes[u].content ELSE others.wrote[u]
  <2>1. Tells(o, a, b)
    BY ObservedIs
  <2> HIDE DEF o
  <2> QED BY <2>1 DEF Tells
<1>0. LiesOver(x, c, a, b)
  BY LaidOver
<1>2. /\ now \subseteq had \cup (is \ was) /\ now \cap (was \ is) = {}
      /\ \A u \in now : /\ Rewritten(a, b, u) => x.nodes[u].content = b.nodes[u].content
                        /\ ~Rewritten(a, b, u) => u \in had /\ x.nodes[u].content = c.nodes[u].content
      /\ was \subseteq is => had \cup (is \ was) \subseteq now
  BY <1>0 DEF LiesOver
<1>3. /\ \A u \in had : u \notin others.gone /\ (u \in DOMAIN others.wrote => c.nodes[u].content = others.wrote[u])
      /\ others.added \subseteq had
  BY FollowsShared
<1> HIDE DEF o, was, is, now, had
<1>4. \A u \in now : u \notin o.gone
  BY <1>1, <1>2, <1>3
<1>5. \A u \in now : u \in DOMAIN o.wrote => x.nodes[u].content = o.wrote[u]
  BY <1>1, <1>2, <1>3
<1>6. o.added \subseteq now
  BY <1>1, <1>2, <1>3
<1> QED BY <1>4, <1>5, <1>6, FollowsShared DEF o, now

\* The document itself.
LEMMA ShownFollows ==
  ASSUME NEW a, NEW b, Follows(SharedWords(a), others)
  PROVE  Follows(SharedWords(b), Observed(a, b))
<1> DEFINE o == Observed(a, b)
           was == DOMAIN a.nodes
           is == DOMAIN b.nodes
<1>1. /\ o.gone = (others.gone \cup (was \ is)) \ is
      /\ o.added = IF was \subseteq is THEN others.added \cup (is \ was) ELSE {}
      /\ \A u : u \in DOMAIN o.wrote <=> u \in is /\ (Rewritten(a, b, u) \/ u \in DOMAIN others.wrote)
      /\ \A u \in DOMAIN o.wrote :
           o.wrote[u] = IF Rewritten(a, b, u) THEN b.nodes[u].content ELSE others.wrote[u]
  <2>1. Tells(o, a, b)
    BY ObservedIs
  <2> HIDE DEF o
  <2> QED BY <2>1 DEF Tells
<1>2. /\ \A u \in was : u \notin others.gone /\ (u \in DOMAIN others.wrote => a.nodes[u].content = others.wrote[u])
      /\ others.added \subseteq was
  BY FollowsShared
<1>3. \A u \in is : ~Rewritten(a, b, u) => u \in was /\ a.nodes[u].content = b.nodes[u].content
  BY DEF Rewritten
<1> HIDE DEF o, was, is
<1>4. \A u \in is : u \notin o.gone /\ (u \in DOMAIN o.wrote => b.nodes[u].content = o.wrote[u])
  BY <1>1, <1>2, <1>3
<1>5. o.added \subseteq is
  BY <1>1, <1>2
<1> QED BY <1>4, <1>5, FollowsShared DEF o, is

\* A state, when the message says what the document says.
LEMMA SameFollows ==
  ASSUME NEW a, NEW b, SharedWords(a) = SharedWords(b), NEW W, Follows(W, others)
  PROVE  Follows(W, Observed(a, b))
<1> DEFINE o == Observed(a, b)
           was == DOMAIN a.nodes
           is == DOMAIN b.nodes
<1>1. /\ o.gone = (others.gone \cup (was \ is)) \ is
      /\ o.added = IF was \subseteq is THEN others.added \cup (is \ was) ELSE {}
      /\ \A u : u \in DOMAIN o.wrote <=> u \in is /\ (Rewritten(a, b, u) \/ u \in DOMAIN others.wrote)
      /\ \A u \in DOMAIN o.wrote :
           o.wrote[u] = IF Rewritten(a, b, u) THEN b.nodes[u].content ELSE others.wrote[u]
  <2>1. Tells(o, a, b)
    BY ObservedIs
  <2> HIDE DEF o
  <2> QED BY <2>1 DEF Tells
<1>2. was = is
  BY WordsIn
<1>3. \A u \in is : ~Rewritten(a, b, u)
  <2> TAKE u \in is
  <2>1. <<u, b.nodes[u].content>> \in SharedWords(b)
    BY DEF SharedWords
  <2>2. b.nodes[u].content = a.nodes[u].content
    BY <2>1, WordsIn
  <2> QED BY <1>2, <2>2 DEF Rewritten
<1> HIDE DEF o, was, is
<1>4. /\ o.gone \subseteq others.gone /\ o.added = others.added
      /\ \A u \in DOMAIN o.wrote : u \in DOMAIN others.wrote /\ o.wrote[u] = others.wrote[u]
  BY <1>1, <1>2, <1>3
<1> QED BY <1>4 DEF Follows, o

\* What a message makes the document and its history say.
LEMMA CandidateWords ==
  ASSUME NEW uids \in SUBSET Identity, Sound(doc, uids),
         NEW overlay, RoomTyped(overlay, uids), Loadable(Project(overlay)),
         NEW known, known = Meet(LocalNumbers(doc, RootOf(overlay)), DOMAIN overlay.nodes)
  PROVE  Words(Rebuild(Renumbered(Loaded(Project(overlay)), known)).nodes) = SharedWords(overlay)
<1> DEFINE r == RootOf(overlay)
           b == Project(overlay)
           next == Loaded(b)
           local == LocalNumbers(doc, r)
           e == Renumbered(next, known)
<1>1. Numbers(local) /\ r \in DOMAIN local.of /\ local.of[r] = Root
  BY LocalNumbersOf
<1>2. LiveDoc(overlay, uids) /\ ChildrenOf(overlay, NoParent) # {}
  BY RoomRoot
<1>3. DOMAIN overlay.nodes \in SUBSET Identity
  BY <1>2 DEF LiveDoc
<1>4. known = Meet(local, DOMAIN overlay.nodes)
  OBVIOUS
<1> HIDE DEF local
<1>5. Numbers(known) /\ Extends(known, local) /\ DOMAIN overlay.nodes \subseteq DOMAIN known.of
  <2>1. /\ Numbers(Meet(local, DOMAIN overlay.nodes)) /\ Extends(Meet(local, DOMAIN overlay.nodes), local)
        /\ DOMAIN overlay.nodes \subseteq DOMAIN Meet(local, DOMAIN overlay.nodes).of
    BY <1>1, <1>3, MeetOf
  <2> QED BY <1>4, <2>1
<1>6. r \in DOMAIN known.of /\ known.of[r] = Root
  BY <1>1, <1>5 DEF Extends
<1>7. IsFile(b) /\ IdentitiesOf(b.nodes) = DOMAIN overlay.nodes /\ Root \in DOMAIN b.nodes /\ b.nodes[Root].syncId = r
  BY <1>2, ProjectFile
<1>8. IdentitiesOf(b.nodes) \subseteq uids
  BY <1>2, <1>7 DEF LiveDoc
<1>9. Words(b.nodes) = SharedWords(overlay)
  BY <1>2, ProjectWords
<1> HIDE DEF r
<1>10. Sound(next, uids) /\ Alike(next.nodes, b.nodes) /\ Words(next.nodes) = Words(b.nodes)
  BY <1>7, <1>8, LoadedSound, LoadedWords
<1>11. next.nodes[Root].syncId = r /\ IdentitiesOf(next.nodes) \subseteq DOMAIN known.of
  <2>1. IdentitiesOf(next.nodes) = IdentitiesOf(b.nodes)
    BY <1>10 DEF Alike, IdentitiesOf
  <2> QED BY <1>5, <1>7, <1>10, <2>1 DEF Alike
<1> HIDE DEF next, b
<1>12. Raw(e, uids) /\ Words(e.nodes) = Words(next.nodes)
  <2>1. known.of[next.nodes[Root].syncId] = Root
    BY <1>6, <1>11
  <2> QED BY <1>5, <1>10, <1>11, <2>1, RenumberedOf
<1> HIDE DEF e
<1>13. Words(Rebuild(e).nodes) = Words(e.nodes)
  BY <1>12, RebuiltWords DEF Raw
<1> QED BY <1>9, <1>10, <1>12, <1>13 DEF e, next, b

\* ... a state of the history with the operations of the message, what the message
\* says, or a state from before, when the message says what the document says.
FromMessage(s, overlay) ==
  \/ \E old \in States : Words(s.nodes) \in LaidWords(old, Diff(Normalize(doc), overlay))
  \/ Words(s.nodes) = SharedWords(overlay)
  \/ s \in States /\ SharedWords(overlay) = Words(doc.nodes)

LEMMA MergedWords ==
  ASSUME Valid, NEW uids \in SUBSET Identity, used \subseteq uids,
         NEW overlay, RoomTyped(overlay, uids), Loadable(Project(overlay))
  PROVE  \A s \in StatesOf(Merged(overlay)) : FromMessage(s, overlay)
<1> DEFINE ops == Diff(Normalize(doc), overlay)
           known == Meet(LocalNumbers(doc, RootOf(overlay)), DOMAIN overlay.nodes)
           candidate == Rebuild(Renumbered(Loaded(Project(overlay)), known))
           undone == Rebased(undo, ops, known)
           redone == Rebased(redo, ops, undone.known)
           a == redone.known.next
           x == [candidate EXCEPT !.nextId = a]
           y == KeepSelection(x, doc)
           z == Rebuild(y)
           m == Merged(overlay)
<1>1. m = IF Bytes(candidate) = Bytes(doc) THEN [doc |-> doc, undo |-> undo, redo |-> redo]
          ELSE [doc |-> z, undo |-> undone.stack, redo |-> redone.stack]
  BY DEF Merged
<1>2. HistoryTyped /\ \A s \in States : Sound(s, uids)
  BY MoreIdentities DEF Valid, StatesSound
<1>3. /\ Sound(doc, uids) /\ \A s \in ToSet(undo) : Sound(s, uids)
      /\ \A s \in ToSet(redo) : Sound(s, uids)
      /\ undo \in Seq(ToSet(undo)) /\ redo \in Seq(ToSet(redo))
  BY <1>2 DEF States, HistoryTyped
<1>4. Words(candidate.nodes) = SharedWords(overlay)
  BY <1>3, CandidateWords
<1>5. CASE Bytes(candidate) = Bytes(doc)
  <2>1. m.doc = doc /\ m.undo = undo /\ m.redo = redo
    BY <1>1, <1>5
  <2>2. candidate.nodes = doc.nodes
    <3> HIDE DEF candidate
    <3>1. Bytes(candidate).nodes = candidate.nodes /\ Bytes(doc).nodes = doc.nodes
      BY DEF Bytes
    <3> QED BY <1>5, <3>1
  <2> HIDE DEF m, candidate
  <2>3. StatesOf(m) = States
    BY <2>1 DEF StatesOf, States
  <2> QED BY <1>4, <2>2, <2>3 DEF FromMessage, m
<1>6. CASE Bytes(candidate) # Bytes(doc)
  <2>1. m.doc = z /\ m.undo = undone.stack /\ m.redo = redone.stack
    BY <1>1, <1>6
  <2> HIDE DEF m
  <2>2. Numbers(known) /\ Raw(candidate, uids) /\ candidate.nextId = known.next
    BY <1>3, CandidateOf
  <2>3. LiveDoc(overlay, uids)
    BY RoomRoot
  <2>4. LiveDoc(Normalize(doc), uids)
    BY <1>3, SoundRoom DEF RoomTyped
  <2>5. BatchTyped(ops, uids)
    BY <2>3, <2>4, DiffOf
  <2> HIDE DEF known, candidate, ops
  <2>6. RebasedTyped(undone, known, Len(undo), uids) /\ LaidFrom(ToSet(undone.stack), ToSet(undo), ops)
    BY <1>3, <2>2, <2>5, RebasedOf
  <2> DEFINE middle == undone.known
  <2>7. Numbers(middle) /\ Extends(middle, known)
    BY <2>6 DEF RebasedTyped
  <2>8. redone = Rebased(redo, ops, middle)
    OBVIOUS
  <2> HIDE DEF undone, redone
  <2>9. RebasedTyped(redone, middle, Len(redo), uids) /\ LaidFrom(ToSet(redone.stack), ToSet(redo), ops)
    <3> HIDE DEF middle
    <3>1. /\ RebasedTyped(Rebased(redo, ops, middle), middle, Len(redo), uids)
          /\ LaidFrom(ToSet(Rebased(redo, ops, middle).stack), ToSet(redo), ops)
      BY <1>3, <2>5, <2>7, RebasedOf
    <3> QED BY <2>8, <3>1
  <2> HIDE DEF middle
  <2>10. a \in Nat /\ known.next <= a
    <3>1. Numbers(redone.known) /\ Extends(redone.known, middle)
      BY <2>9 DEF RebasedTyped
    <3>2. Extends(redone.known, known)
      BY <2>2, <2>7, <3>1, ExtendsOn
    <3> QED BY <3>1, <3>2 DEF Numbers, Extends
  <2> HIDE DEF a
  <2>11. Raw(x, uids) /\ x.nodes = candidate.nodes
    BY <2>2, <2>10, NextRaised
  <2> HIDE DEF x
  <2>12. Raw(y, uids) /\ y.nodes = x.nodes
    BY <2>11, KeptSelection
  <2> HIDE DEF y
  <2>13. Words(z.nodes) = Words(y.nodes)
    BY <2>12, RebuiltWords DEF Raw
  <2> HIDE DEF z
  <2>14. Words(m.doc.nodes) = SharedWords(overlay)
    BY <1>4, <2>1, <2>11, <2>12, <2>13 DEF candidate
  <2>15. ASSUME NEW s \in ToSet(m.undo) \cup ToSet(m.redo)
         PROVE  \E old \in States : Words(s.nodes) \in LaidWords(old, ops)
    BY <2>1, <2>6, <2>9 DEF LaidFrom, States
  <2> QED BY <2>14, <2>15 DEF StatesOf, FromMessage, m, ops
<1> QED BY <1>5, <1>6

LEMMA MessageFollows ==
  ASSUME Valid, TheirsKept, NEW uids \in SUBSET Identity, used \subseteq uids,
         NEW overlay, RoomTyped(overlay, uids), NEW s, FromMessage(s, overlay)
  PROVE  Follows(Words(s.nodes), Observed(Normalize(doc), overlay))
<1> DEFINE a == Normalize(doc)
<1>1. \A t \in States : Sound(t, uids) /\ Follows(Words(t.nodes), others)
  BY MoreIdentities DEF Valid, StatesSound, TheirsKept
<1>2. Sound(doc, uids) /\ Follows(Words(doc.nodes), others)
  BY <1>1 DEF States
<1>3. LiveDoc(a, uids) /\ LiveDoc(overlay, uids) /\ SharedWords(a) = Words(doc.nodes)
  <2>1. Shaped(doc, uids)
    BY <1>2, RawShaped DEF Sound
  <2>2. SharedWords(a) = Words(doc.nodes)
    BY <2>1, NormalizeWords
  <2>3. LiveDoc(a, uids)
    BY <1>2, SoundRoom DEF RoomTyped
  <2> QED BY <2>2, <2>3 DEF RoomTyped
<1> HIDE DEF a
<1>4. CASE \E old \in States : Words(s.nodes) \in LaidWords(old, Diff(Normalize(doc), overlay))
  <2>1. PICK old \in States : Words(s.nodes) \in LaidWords(old, Diff(a, overlay))
    BY <1>4 DEF a
  <2> DEFINE c == Normalize(Rebuild(old))
  <2>2. PICK x \in Results(c, Diff(a, overlay)) : Words(s.nodes) = SharedWords(x)
    BY <2>1 DEF LaidWords
  <2>3. Sound(old, uids) /\ Follows(Words(old.nodes), others)
    BY <1>1
  <2>4. Raw(Rebuild(old), uids) /\ Words(Rebuild(old).nodes) = Words(old.nodes)
    <3>1. Sound(Rebuild(old), uids)
      BY <2>3, RebuildSound DEF Sound
    <3> QED BY <2>3, <3>1, RebuiltWords DEF Sound, Raw
  <2>5. Shaped(Rebuild(old), uids)
    BY <2>4, RawShaped
  <2>6. LiveDoc(c, uids)
    BY <2>5, NormalizeLive
  <2>7. SharedWords(c) = Words(old.nodes)
    BY <2>4, <2>5, NormalizeWords
  <2> HIDE DEF c
  <2>8. Follows(SharedWords(c), others)
    BY <2>3, <2>7
  <2>9. Follows(SharedWords(x), Observed(a, overlay))
    BY <1>3, <2>6, <2>8, LaidFollows
  <2> QED BY <2>2, <2>9 DEF a
<1>5. CASE Words(s.nodes) = SharedWords(overlay)
  <2>1. Follows(SharedWords(a), others)
    BY <1>2, <1>3
  <2>2. Follows(SharedWords(overlay), Observed(a, overlay))
    BY <2>1, ShownFollows
  <2> QED BY <1>5, <2>2 DEF a
<1>6. CASE s \in States /\ SharedWords(overlay) = Words(doc.nodes)
  <2>1. SharedWords(a) = SharedWords(overlay) /\ Follows(Words(s.nodes), others)
    BY <1>1, <1>3, <1>6
  <2>2. Follows(Words(s.nodes), Observed(a, overlay))
    BY <2>1, SameFollows
  <2> QED BY <2>2 DEF a
<1> QED BY <1>4, <1>5, <1>6 DEF FromMessage

LEMMA MessageKeeps ==
  ASSUME Valid, TheirsKept, Message
  PROVE  TheirsKept'
<1>1. /\ used \in SUBSET Identity /\ SessionTyped(session, used) /\ others.gone \subseteq used
  BY DEF Valid, TheirsKept
<1>2. PICK k, c, sent, left, uids :
           /\ Sends(k, c, sent, left, uids)
           /\ session' = Told(session, sent, left) /\ used' = uids
           /\ \/ UNCHANGED <<doc, undo, redo, edited, others>>
              \/ \E overlay \in AfterBatches(sent, session'.pending) :
                   Loadable(Project(overlay)) /\ Incorporate(overlay)
  BY MessageParts
<1>3. session.live /\ used \subseteq uids /\ Sends(k, c, sent, left, uids) /\ used' = uids
      /\ session' = Told(session, sent, left)
  BY <1>2 DEF Message, Sends
<1>4. /\ uids \in SUBSET Identity /\ RoomTyped(sent, uids)
      /\ left \in Seq(ToSet(left)) /\ Len(left) \in Nat
      /\ \A i \in 1 .. Len(left) : BatchTyped(left[i], uids)
  BY <1>1, <1>3, SentOf
<1>5. session'.pending = left
  <2>1. Told(session, sent, left).pending = left
    BY <1>1, <1>3, <1>4, SessionAfter
  <2> QED BY <1>3, <2>1
<1>6. CASE UNCHANGED <<doc, undo, redo, edited, others>>
  <2>1. States' = States
    BY <1>6 DEF States
  <2> QED BY <1>1, <1>3, <1>6, <2>1 DEF TheirsKept
<1>7. CASE \E overlay \in AfterBatches(sent, session'.pending) : Loadable(Project(overlay)) /\ Incorporate(overlay)
  <2>1. PICK overlay \in AfterBatches(sent, left) : Loadable(Project(overlay)) /\ Incorporate(overlay)
    BY <1>5, <1>7
  <2>2. RoomTyped(overlay, uids)
    BY <1>4, <2>1, AfterBatchesOf
  <2> DEFINE m == Merged(overlay)
  <2>3. /\ doc' = m.doc /\ undo' = m.undo /\ redo' = m.redo
        /\ others' = Observed(Normalize(doc), overlay)
    BY <2>1 DEF Incorporate
  <2>4. \A s \in StatesOf(m) : FromMessage(s, overlay)
    BY <1>3, <1>4, <2>1, <2>2, MergedWords
  <2> HIDE DEF m
  <2>5. StatesOf(m) = States'
    BY <2>3 DEF StatesOf, States
  <2>6. \A s \in States' : Follows(Words(s.nodes), Observed(Normalize(doc), overlay))
    BY <1>3, <1>4, <2>2, <2>4, <2>5, MessageFollows
  <2>7. others'.gone \subseteq used'
    <3>1. DOMAIN Normalize(doc).nodes \subseteq used
      <4>1. Sound(doc, used)
        BY DocIs
      <4> QED BY <1>1, <4>1, SoundRoom DEF Sound, Raw
    <3>2. Observed(Normalize(doc), overlay).gone
            = (others.gone \cup (DOMAIN Normalize(doc).nodes \ DOMAIN overlay.nodes)) \ DOMAIN overlay.nodes
      BY ObservedIs DEF Tells
    <3> QED BY <1>1, <1>3, <2>3, <3>1, <3>2
  <2> QED BY <2>3, <2>6, <2>7 DEF TheirsKept
<1> QED BY <1>2, <1>6, <1>7

\* Commands change words of others, and then these count no more, or leave them.
LEMMA CommandFollows ==
  ASSUME Valid, TheirsKept, NEW d, Distinct(d.nodes), IdentitiesOf(d.nodes) \cap used \subseteq IdentitiesOf(nodes)
  PROVE  /\ Follows(Words(d.nodes), StillTheirs(d))
         /\ \A s \in States : Follows(Words(s.nodes), StillTheirs(d))
         /\ StillTheirs(d).gone = others.gone
<1> DEFINE n == d.nodes
           o == StillTheirs(d)
           holds(u) == \E i \in DOMAIN n : n[i].syncId = u /\ n[i].content = others.wrote[u]
           rest == [u \in {u \in DOMAIN others.wrote : holds(u)} |-> others.wrote[u]]
<1>1. o.wrote = rest /\ o.added = others.added \cap IdentitiesOf(n) /\ o.gone = others.gone
  <2>1. o = [others EXCEPT !.wrote = rest, !.added = @ \cap IdentitiesOf(n)]
    BY DEF StillTheirs
  <2> HIDE DEF o, rest
  <2>2. others \in [wrote : {others.wrote}, added : {others.added}, gone : SUBSET Identity]
    BY DEF Valid
  <2> QED BY <2>1, <2>2
<1> HIDE DEF o
<1>2. /\ \A u \in DOMAIN rest : u \in DOMAIN others.wrote /\ holds(u) /\ rest[u] = others.wrote[u]
  OBVIOUS
<1> HIDE DEF rest
<1>3. \A s \in States : Follows(Words(s.nodes), o)
  BY <1>1, <1>2 DEF TheirsKept, Follows
<1>4. others.gone \subseteq used /\ Follows(Words(nodes), others)
  BY DEF TheirsKept, States, nodes
<1>5. others.gone \cap IdentitiesOf(nodes) = {}
  BY <1>4, NodeWords DEF Follows
<1>6. ASSUME NEW w \in Words(n)
      PROVE  w[1] \notin o.gone /\ (w[1] \in DOMAIN o.wrote => w[2] = o.wrote[w[1]])
  <2>1. PICK i \in DOMAIN n : w[1] = n[i].syncId /\ w[2] = n[i].content
    BY NodeWords
  <2>2. w[1] \in IdentitiesOf(n)
    BY <2>1 DEF IdentitiesOf
  <2>3. w[1] \notin o.gone
    BY <1>1, <1>4, <1>5, <2>2
  <2>4. ASSUME w[1] \in DOMAIN o.wrote PROVE w[2] = o.wrote[w[1]]
    <3>1. holds(w[1]) /\ o.wrote[w[1]] = others.wrote[w[1]]
      BY <1>1, <1>2, <2>4
    <3>2. PICK j \in DOMAIN n : n[j].syncId = w[1] /\ n[j].content = others.wrote[w[1]]
      BY <3>1
    <3>3. i = j
      BY <2>1, <3>2 DEF Distinct
    <3> QED BY <2>1, <3>1, <3>2, <3>3
  <2> QED BY <2>3, <2>4
<1>7. o.added \subseteq {w[1] : w \in Words(n)}
  BY <1>1, NodeWords
<1> QED BY <1>1, <1>3, <1>6, <1>7 DEF Follows, o

LEMMA WordsKept ==
  ASSUME Valid, Valid', TheirsKept, WordsStay, States' \subseteq States \cup {doc'}
  PROVE  TheirsKept'
<1>1. /\ used \subseteq used' /\ others.gone \subseteq used
      /\ \A s \in States : Follows(Words(s.nodes), others)
  BY DEF WordsStay, TheirsKept
<1>2. CASE others' = StillTheirs(doc') /\ IdentitiesOf(doc'.nodes) \cap used \subseteq IdentitiesOf(nodes)
  <2>1. Distinct(doc'.nodes)
    <3>1. doc' \in States'
      BY DEF States
    <3> QED BY <3>1 DEF Valid, StatesSound, Sound, Raw
  <2>2. /\ Follows(Words(doc'.nodes), StillTheirs(doc'))
        /\ \A s \in States : Follows(Words(s.nodes), StillTheirs(doc'))
        /\ StillTheirs(doc').gone = others.gone
    BY <1>2, <2>1, CommandFollows
  <2> QED BY <1>1, <1>2, <2>2 DEF TheirsKept
<1>3. CASE others' = others /\ \E s \in States : Words(doc'.nodes) = Words(s.nodes)
  BY <1>1, <1>3 DEF TheirsKept
<1> QED BY <1>2, <1>3 DEF WordsStay

\* A step through the history shows what a state says.
LEMMA HistoryWords ==
  ASSUME Valid, Undo \/ Redo
  PROVE  WordsStay /\ States' \subseteq States \cup {doc'}
<1>1. /\ undo \in Seq(ToSet(undo)) /\ redo \in Seq(ToSet(redo))
      /\ \A s \in States : Sound(s, used)
  BY DEF Valid, HistoryTyped, StatesSound
<1>2. PICK state \in States : Restore(state) /\ States' \subseteq States \cup {Rebuild(state)}
  <2>1. CASE Undo
    <3>1. undo # <<>> /\ undo' = Front(undo) /\ redo' = Append(redo, doc) /\ Restore(Last(undo))
      BY <2>1 DEF Undo
    <3>2. /\ ToSet(Front(undo)) \subseteq ToSet(undo) /\ ToSet(Append(redo, doc)) = ToSet(redo) \cup {doc}
          /\ Last(undo) \in ToSet(undo)
      BY <1>1, <3>1, StackStep
    <3>3. doc' = Rebuild(Last(undo))
      BY <3>1 DEF Restore, Show
    <3> QED BY <3>1, <3>2, <3>3 DEF States
  <2>2. CASE Redo
    <3>1. redo # <<>> /\ redo' = Front(redo) /\ undo' = Append(undo, doc) /\ Restore(Last(redo))
      BY <2>2 DEF Redo
    <3>2. /\ ToSet(Front(redo)) \subseteq ToSet(redo) /\ ToSet(Append(undo, doc)) = ToSet(undo) \cup {doc}
          /\ Last(redo) \in ToSet(redo)
      BY <1>1, <3>1, StackStep
    <3>3. doc' = Rebuild(Last(redo))
      BY <3>1 DEF Restore, Show
    <3> QED BY <3>1, <3>2, <3>3 DEF States
  <2> QED BY <2>1, <2>2
<1>3. doc' = Rebuild(state) /\ used' = used /\ others' = others
  BY <1>2 DEF Restore, Show
<1>4. Words(doc'.nodes) = Words(state.nodes)
  BY <1>1, <1>3, RebuiltWords DEF Sound, Raw
<1> QED BY <1>2, <1>3, <1>4 DEF WordsStay

LEMMA NobodyFollowed ==
  ASSUME others' = Nobody
  PROVE  TheirsKept'
<1>1. others'.gone = {} /\ others'.added = {} /\ DOMAIN others'.wrote = {}
  BY DEF Nobody
<1>2. \A W : Follows(W, others')
  BY <1>1 DEF Follows
<1> QED BY <1>1, <1>2 DEF TheirsKept

LEMMA FilesWords ==
  ASSUME Valid, Valid', TheirsKept, Files
  PROVE  TheirsKept'
<1>1. CASE Save
  <2>1. doc' = doc /\ undo' = undo /\ redo' = redo /\ used' = used /\ others' = others
    BY <1>1 DEF Save, Show
  <2>2. States' = States
    BY <2>1 DEF States
  <2> QED BY <2>1, <2>2 DEF TheirsKept
<1>2. CASE Open \/ Recover
  <2>1. others' = Nobody
    BY <1>2 DEF Open, Recover
  <2> QED BY <2>1, NobodyFollowed
<1> QED BY <1>1, <1>2 DEF Files

LEMMA StepKeeps ==
  ASSUME Valid, Valid', TheirsKept, [Next]_vars
  PROVE  TheirsKept'
<1>1. CASE UNCHANGED vars
  <2>1. States' = States /\ others' = others /\ used' = used
    BY <1>1 DEF vars, States
  <2> QED BY <2>1 DEF TheirsKept
<1>2. CASE Message
  BY <1>2, MessageKeeps
<1>3. CASE Nodes \/ Contents \/ Looks \/ Selections
  <2>1. Steady
    BY <1>3, NodeActionsValid, ContentsValid, LooksValid, SelectionsValid
  <2> QED BY <2>1, WordsKept DEF Steady, RootStays
<1>4. CASE Undo \/ Redo
  BY <1>4, HistoryWords, WordsKept
<1>5. CASE Files
  BY <1>5, FilesWords
<1> QED BY <1>1, <1>2, <1>3, <1>4, <1>5 DEF Next

LEMMA FirstKeeps ==
  ASSUME Init
  PROVE  TheirsKept
<1>1. others.gone = {} /\ others.added = {} /\ DOMAIN others.wrote = {}
  BY DEF Init, Nobody
<1>2. \A W : Follows(W, others)
  BY <1>1 DEF Follows
<1> QED BY <1>1, <1>2 DEF TheirsKept

\* ... so that undo and redo cannot bring back what others removed or rewrote.
LEMMA KeptGone == TheirsKept => GoneStaysGone
<1> SUFFICES ASSUME TheirsKept PROVE GoneStaysGone
  OBVIOUS
<1>1. Follows(Words(nodes), others)
  BY DEF TheirsKept, States, nodes
<1>2. \A u \in IdentitiesOf(nodes) : \E w \in Words(nodes) : w[1] = u
  BY NodeWords
<1> QED BY <1>1, <1>2 DEF Follows, GoneStaysGone

LEMMA KeptWords == TheirsKept => OthersKept
<1> SUFFICES ASSUME TheirsKept PROVE OthersKept
  OBVIOUS
<1>1. Follows(Words(nodes), others)
  BY DEF TheirsKept, States, nodes
<1>2. others.added \subseteq IdentitiesOf(nodes)
  BY <1>1, NodeWords DEF Follows
<1>3. ASSUME NEW i \in DOMAIN nodes, nodes[i].syncId \in DOMAIN others.wrote
      PROVE  nodes[i].content = others.wrote[nodes[i].syncId]
  <2> DEFINE u == nodes[i].syncId
             v == nodes[i].content
             w == <<u, v>>
  <2>1. w \in Words(nodes) /\ w[1] = u /\ w[2] = v
    BY NodeWords
  <2> HIDE DEF w
  <2> QED BY <1>1, <1>3, <2>1 DEF Follows
<1> QED BY <1>2, <1>3 DEF OthersKept

-----------------------------------------------------------------------------
(***************************************************************************)
(* The theorems.  They are about windows whose file is of no live map: to  *)
(* open a file that is attached to one joins another map with the history  *)
(* of the first, and the messages that follow may take states of it apart  *)
(* (EditorShared.cfg has TLC show how).                                    *)
(***************************************************************************)
\* The invariant that commands, files, the history and messages keep: every state
\* that the window holds is a tree that the loader accepts and rebuild has settled,
\* what is selected shows, the file is what was saved, and the pending batches
\* either leave the root of the map alone or are never laid over it again.
THEOREM WindowStaysValid == ~SharedFile => (Spec => [](Valid /\ Anchored))
<1> SUFFICES ASSUME ~SharedFile PROVE Spec => [](Valid /\ Anchored)
  OBVIOUS
<1>1. Init => Valid /\ Anchored
  BY InitValid
<1>2. Valid /\ Anchored /\ [Next]_vars => Valid' /\ Anchored'
  BY StepAnchored
<1> QED BY <1>1, <1>2, PTL DEF Spec

\* Also in a window whose file is of a live map, as long as every state of the
\* history has its root (src/engine.cpp:1108).
THEOREM RootedStaysValid == Spec /\ []HistoryRooted => []Valid
<1>1. Init => Valid
  BY InitValid
<1>2. Valid /\ HistoryRooted' /\ [Next]_vars => Valid'
  BY StepValid
<1> QED BY <1>1, <1>2, PTL DEF Spec

\* Every variable has its type, and the history is bounded.
THEOREM WindowTyped == ~SharedFile => (Spec => []TypeOK)
BY WindowStaysValid, ValidTypes, PTL

\* Whatever is edited, pasted, restored and merged, what the window shows and what
\* its history can bring back is a document that the loader accepts, and no
\* relationship outlives a node that it joins.
THEOREM HistoryOpens == ~SharedFile => (Spec => []StatesOpen)
BY WindowStaysValid, ValidOpens, PTL

\* Undo and redo restore exactly the states that were shown: there is nothing left
\* in them for rebuild to change.
THEOREM HistoryStaysSettled == ~SharedFile => (Spec => []HistorySettled)
BY WindowStaysValid, ValidSettled, PTL

\* Every state that undo or redo restores has its root at number 1, also after the
\* messages of a live session gave the nodes numbers (preserveLocalIds).
THEOREM HistoryKeepsRoot == ~SharedFile => (Spec => []HistoryRooted)
BY WindowStaysValid, ValidRooted, PTL

\* The selection is of nodes that show, and the node that keys act on belongs to it.
THEOREM SelectionStaysShown == ~SharedFile => (Spec => []SelectionShown)
BY WindowStaysValid, ValidShown, PTL

\* A window with nothing unsaved can be closed: its file holds the document.
THEOREM ClosingIsSafe == ~SharedFile => (Spec => []ClosingLosesNothing)
BY WindowStaysValid, ValidClosing, PTL

\* Across a message nodes keep the numbers that the canvas, an open text editor and
\* a drag know them by (preserveLocalIds), no other node takes one over, and the
\* selected node stays selected while it shows (preserveSelection).
THEOREM MessagesKeepPlace == ~SharedFile => (Spec => MessageKeepsPlace)
<1> SUFFICES ASSUME ~SharedFile PROVE Spec => MessageKeepsPlace
  OBVIOUS
<1>1. Spec => [](Valid /\ Anchored)
  BY WindowStaysValid
<1>2. Valid /\ Anchored /\ [Next]_vars =>
        [session.live /\ session'.live /\ session'.room # session.room /\ doc' # Loaded(file) =>
           /\ \A i \in DOMAIN nodes, j \in DOMAIN nodes' :
                i = j <=> nodes[i].syncId = nodes'[j].syncId
           /\ Selected \in DOMAIN nodes' /\ Selected \in Unfolded(nodes') => Selected' = Selected]_vars
  <2> SUFFICES ASSUME Valid, Anchored, Next, session.live, session'.live, session'.room # session.room
               PROVE  /\ \A i \in DOMAIN nodes, j \in DOMAIN nodes' :
                           i = j <=> nodes[i].syncId = nodes'[j].syncId
                      /\ Selected \in DOMAIN nodes' /\ Selected \in Unfolded(nodes') => Selected' = Selected
    OBVIOUS
  <2>1. KeepsPlace(doc')
    BY OnlyMessages, MessagePlaced
  <2>2. nodes' = doc'.nodes /\ Selected' = doc'.selected
    BY DEF nodes, Selected
  <2> HIDE DEF nodes, Selected
  <2> QED BY <2>1, <2>2 DEF KeepsPlace
<1> QED BY <1>1, <1>2, PTL DEF Spec, MessageKeepsPlace

\* What every state of the history keeps to: it holds no node that others removed,
\* has the words that others wrote last, unless the user changed them since, and the
\* nodes that they added.  (Merged lays each message over the document and over
\* every state: applyRemoteDocumentBytes, src/engine.cpp:1817.)
THEOREM HistoryKeepsTheirs == ~SharedFile => (Spec => []TheirsKept)
<1> SUFFICES ASSUME ~SharedFile PROVE Spec => []TheirsKept
  OBVIOUS
<1>1. Spec => [](Valid /\ Anchored)
  BY WindowStaysValid
<1>2. Init => TheirsKept
  BY FirstKeeps
<1>3. Valid /\ Anchored /\ TheirsKept /\ [Next]_vars => TheirsKept'
  <2> SUFFICES ASSUME Valid, Anchored, TheirsKept, [Next]_vars PROVE TheirsKept'
    OBVIOUS
  <2>1. Valid'
    BY StepAnchored
  <2> QED BY <2>1, StepKeeps
<1> QED BY <1>1, <1>2, <1>3, PTL DEF Spec

\* What others removed never comes back by undo or redo.
THEOREM RemovedStaysGone == ~SharedFile => (Spec => []GoneStaysGone)
BY HistoryKeepsTheirs, KeptGone, PTL

\* What others wrote and added stays until the user, or they, change or remove it:
\* undo and redo bring back no words from before.
THEOREM TheirWordsStay == ~SharedFile => (Spec => []OthersKept)
BY HistoryKeepsTheirs, KeptWords, PTL

=============================================================================
