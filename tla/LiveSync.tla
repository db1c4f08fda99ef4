------------------------------ MODULE LiveSync ------------------------------
(***************************************************************************)
(* The live session of the desktop clients of one map:                     *)
(* src/collaboration/sharecoordinator.cpp with its transport, session and  *)
(* local store, over WebSocket connections to the live room.               *)
(*                                                                         *)
(* The room is the one of LiveRoom seen from outside: a document that is   *)
(* the sequence of the edits merged into it, of which a prefix is durable, *)
(* and that goes back to this prefix when the server restarts.             *)
(*                                                                         *)
(* A document is the sequence of the edits in it.  An edit is what a       *)
(* client captures at a time: the difference between what it shows and     *)
(* what it showed last.                                                    *)
(***************************************************************************)
EXTENDS Integers, Sequences, SequencesExt, FiniteSets

CONSTANTS
  Client,        \* the clients, each with an account of its own
  MaxEdits,      \* bound: edits of each client
  MaxFaults      \* bound: failed writes and submissions, lost connections,
                 \* restarts of the server or a client, sessions that end

VARIABLES
  room,     \* document, durable prefix, epoch and revision of the live room
  joined,   \* clients whose connection is subscribed to the room
  up,       \* edits on their way to the room
  old,      \* edits of a connection that the server does not know to be lost
  down,     \* frames on their way to each client
  client,   \* what each client holds in memory
  outbox,   \* its durable outbox
  saved,    \* it has stored that the map is live
  made,     \* number of its edits
  captured, \* history: edits that were written to an outbox
  faults    \* faults that may still happen

vars == <<room, joined, up, old, down, client, outbox, saved, made, captured, faults>>
localVars == <<client, outbox, saved, made, captured>>

ASSUME SyncAssumption ==
  /\ MaxEdits \in [Client -> Nat]
  /\ MaxFaults \in Nat

-----------------------------------------------------------------------------
Edit == [by : Client, n : Nat]
Document == Seq(Edit)

EditsIn(doc) == ToSet(doc)
By(c, edits) == {e \in edits : e.by = c}

\* The document without the edits, which is SelectSeq.
Without(doc, edits) ==
  LET kept[n \in 0..Len(doc)] ==
        IF n = 0 THEN <<>>
        ELSE IF doc[n] \in edits THEN kept[n - 1] ELSE Append(kept[n - 1], doc[n])
  IN kept[Len(doc)]

Durable == EditsIn(SubSeq(room.doc, 1, room.durable))
Pending == EditsIn(room.doc) \ Durable

Hello(c) == [type |-> "hello", epoch |-> room.epoch, revision |-> room.revision,
             doc |-> room.doc, edits |-> By(c, Pending)]

\* applied: one edit, of whoever made it; durable: receipts.
Event(type, r, edits) == [type |-> type, epoch |-> r.epoch, revision |-> r.revision,
                          doc |-> r.doc, edits |-> edits]

NoFrame == [type |-> "none", epoch |-> 0, revision |-> 0, doc |-> <<>>, edits |-> {}]

Fresh == [conn |-> "off", signedIn |-> FALSE, live |-> FALSE,
          editor |-> <<>>, visible |-> <<>>, applied |-> {},
          epoch |-> -1, revision |-> 0, deferred |-> NoFrame]

Init ==
  /\ room = [doc |-> <<>>, durable |-> 0, epoch |-> 0, revision |-> 0]
  /\ joined = {}
  /\ up = [c \in Client |-> <<>>] /\ old = up /\ down = up
  /\ client = [c \in Client |-> [Fresh EXCEPT !.signedIn = TRUE]]
  /\ outbox = [c \in Client |-> <<>>]
  /\ saved = [c \in Client |-> FALSE]
  /\ made = [c \in Client |-> 0]
  /\ captured = {}
  /\ faults = MaxFaults

Fault == faults > 0 /\ faults' = faults - 1

-----------------------------------------------------------------------------
(***************************************************************************)
(* The room.  A room without subscribers and pending edits is evicted; the *)
(* next one has another epoch and starts at revision 0.  Epochs are        *)
(* compared with the one before at most, so two of them are enough.        *)
(***************************************************************************)
NewEpoch(r) == [r EXCEPT !.epoch = 1 - @, !.revision = 0]

\* evictIdleLocked, with the subscribers and the room after the step.
EvictIdle(peers, rest, r) ==
  IF peers = {} /\ r.durable = Len(r.doc) /\ \A c \in Client : rest[c] = <<>>
    THEN NewEpoch(r) ELSE r

Broadcast(frame) ==
  down' = [c \in Client |-> IF c \in joined THEN Append(down[c], frame) ELSE down[c]]

Reply(c, current, frame) ==
  down' = IF current /\ c \in joined THEN [down EXCEPT ![c] = Append(@, frame)] ELSE down

\* The client dials; connections that are lost are dialled again.
Dials(c) == client[c].conn = "off" /\ client[c].signedIn

Connect(c) ==
  /\ Dials(c)
  /\ client' = [client EXCEPT ![c].conn = "open"]
  /\ joined' = joined \cup {c}
  /\ down' = [down EXCEPT ![c] = <<Hello(c)>>]
  /\ UNCHANGED <<room, up, old, outbox, saved, made, captured, faults>>

(***************************************************************************)
(* SubmitTo: an edit that is pending or durable is answered to its sender, *)
(* another one is merged and sent to everybody.  Of a lost connection the  *)
(* answer is lost too.  An error does not change a document on either      *)
(* side: the client shows it and keeps the edit in its outbox.             *)
(***************************************************************************)
Merge(e) == [room EXCEPT !.doc = Append(@, e), !.revision = @ + 1]

Submit(c, e, current, next) ==
  \/ /\ e \in Pending
     /\ Reply(c, current, Event("applied", room, {e}))
     /\ next = room
     /\ UNCHANGED faults
  \/ /\ e \in Durable
     /\ Reply(c, current, Event("durable", room, {e}))
     /\ next = room
     /\ UNCHANGED faults
  \/ /\ e \notin EditsIn(room.doc)
     /\ next = Merge(e)
     /\ Broadcast(Event("applied", next, {e}))
     /\ UNCHANGED faults
  \/ /\ Fault
     /\ next = room
     /\ UNCHANGED down

ServerReceives(c) ==
  /\ up[c] # <<>> /\ c \in joined
  /\ \E next \in {room, Merge(Head(up[c]))} :
       Submit(c, Head(up[c]), TRUE, next) /\ room' = next
  /\ up' = [up EXCEPT ![c] = Tail(@)]
  /\ UNCHANGED <<joined, old, localVars>>

ServerReceivesOld(c) ==
  /\ old[c] # <<>>
  /\ old' = [old EXCEPT ![c] = Tail(@)]
  /\ \E next \in {room, Merge(Head(old[c]))} :
       /\ Submit(c, Head(old[c]), FALSE, next)
       /\ room' = EvictIdle(joined, old', next)
  /\ UNCHANGED <<joined, up, localVars>>

\* The server notices that a connection is lost.
ServerDropsOld(c) ==
  /\ old[c] # <<>>
  /\ old' = [old EXCEPT ![c] = <<>>]
  /\ room' = EvictIdle(joined, old', room)
  /\ UNCHANGED <<joined, up, down, localVars, faults>>

(***************************************************************************)
(* Flush, or the recovery of a flush whose answer was lost: the first n    *)
(* edits of the document are durable.                                      *)
(***************************************************************************)
Flush(n) ==
  LET flushed == [room EXCEPT !.durable = n] IN
  /\ n > room.durable /\ n <= Len(room.doc)
  /\ room' = EvictIdle(joined, old, flushed)
  /\ Broadcast(Event("durable", flushed, EditsIn(SubSeq(room.doc, room.durable + 1, n))))
  /\ UNCHANGED <<joined, up, old, localVars, faults>>

\* The server restarts: edits that are not durable and all connections are gone.
ServerRestarts ==
  /\ Fault
  /\ room' = NewEpoch([room EXCEPT !.doc = SubSeq(@, 1, room.durable)])
  /\ joined' = {}
  /\ old' = [c \in Client |-> <<>>]
  /\ UNCHANGED <<up, down, localVars>>

-----------------------------------------------------------------------------
(***************************************************************************)
(* The client.  Engine::changed and every frame capture the difference     *)
(* between the document and what the coordinator knows of it: an edit that *)
(* is written to the outbox, then sent if the protocol is negotiated.  An  *)
(* operation enqueues at most one edit; Sent is what it sends.             *)
(***************************************************************************)
Uncaptured(s) == s.editor # s.visible

Live(c) == client[c].live /\ client[c].signedIn

Negotiated(s) == s.conn = "live"

\* The edit that the difference of the document stands for.
Change(c) == [by |-> c, n |-> made[c]]

Send(c, edits) == up' = [up EXCEPT ![c] = @ \o edits]

\* Mutant: captures without looking for a difference.
CapturedAlways(c) == Append(outbox[c], Change(c))

\* captureLiveChanges succeeds: the outbox with the difference.
CapturedOutbox(c) ==
  IF Uncaptured(client[c]) THEN Append(outbox[c], Change(c)) ELSE outbox[c]

CapturedEdits(c) == IF Uncaptured(client[c]) THEN <<Change(c)>> ELSE <<>>

(***************************************************************************)
(* The user edits the map.  While a difference is not captured a further   *)
(* edit only makes it another difference.  Nothing is captured before the  *)
(* map is known to be live, or while the user is not signed in.            *)
(***************************************************************************)
UserEdits(c) ==
  LET e == [by |-> c, n |-> made[c] + 1]
      edited == [client[c] EXCEPT !.editor = Append(@, e)] IN
  /\ ~Uncaptured(client[c]) /\ made[c] < MaxEdits[c]
  /\ made' = [made EXCEPT ![c] = @ + 1]
  /\ \/ /\ Live(c)
        /\ client' = [client EXCEPT ![c] = [edited EXCEPT !.visible = edited.editor]]
        /\ outbox' = [outbox EXCEPT ![c] = Append(@, e)]
        /\ captured' = captured \cup {e}
        /\ IF Negotiated(client[c]) THEN Send(c, <<e>>) ELSE UNCHANGED up
        /\ UNCHANGED faults
     \/ /\ IF Live(c) THEN Fault ELSE UNCHANGED faults
        /\ client' = [client EXCEPT ![c] = edited]
        /\ UNCHANGED <<outbox, captured, up>>
  /\ UNCHANGED <<room, joined, old, down, saved>>

(***************************************************************************)
(* handleLiveMessage.  s is the state after a successful capture, box the  *)
(* outbox with what it captured.                                           *)
(***************************************************************************)
\* Mutant: the handshake that was put off is forgotten.
NotAdopted(s, frame) == s

\* The negotiation metadata of a hello that came while the capture failed.
Adopted(s, frame) ==
  IF frame.type # "hello" /\ s.deferred # NoFrame
    THEN [s EXCEPT !.epoch = s.deferred.epoch, !.revision = s.deferred.revision,
                   !.applied = s.deferred.edits]
    ELSE s

Outdated(s, frame) ==
  frame.type # "hello" /\ (frame.epoch # s.epoch \/ frame.revision < s.revision)

\* Mutant: the room's acceptance is taken for a receipt.
ClearedEarly(c, box, frame) ==
  IF frame.type # "hello" THEN Without(box, By(c, frame.edits)) ELSE box

\* Receipts clear the outbox.
Cleared(c, box, frame) ==
  IF frame.type = "durable" THEN Without(box, By(c, frame.edits)) ELSE box

\* Mutant: what a former room had applied counts for the next one.
EverApplied(c, s, frame) ==
  IF frame.type = "durable" THEN s.applied ELSE s.applied \cup By(c, frame.edits)

NowApplied(c, s, frame) ==
  CASE frame.type = "hello"   -> frame.edits
    [] frame.type = "applied" -> s.applied \cup By(c, frame.edits)
    [] OTHER                  -> s.applied

\* The server's document with the edits of the outbox that it does not have.
Overlay(doc, box, applied) == doc \o Without(box, applied)

Shown(c, s, box, frame) ==
  LET applied == NowApplied(c, s, frame)
      doc == Overlay(frame.doc, box, applied) IN
  [s EXCEPT !.epoch = IF frame.type = "hello" THEN frame.epoch ELSE @,
            !.revision = frame.revision,
            !.applied = applied,
            !.editor = doc, !.visible = doc]

\* After the capture, for every frame.
Handled(c, s0, box, frame) ==
  LET s == [Adopted(s0, frame) EXCEPT !.deferred = NoFrame] IN
  IF Outdated(s, frame) THEN s ELSE Shown(c, s, Cleared(c, box, frame), frame)

\* Mutant: a new connection does not submit what waits.
NotDrained(frame, box) == <<>>

\* handleJoined after a hello: the outbox is submitted, oldest first.
Drained(frame, box) == IF frame.type = "hello" THEN box ELSE <<>>

ClientReceives(c) ==
  LET frame == Head(down[c])
      s == [client[c] EXCEPT !.live = TRUE, !.visible = client[c].editor,
                             !.conn = "live"]
      box == CapturedOutbox(c)
      left == Cleared(c, box, frame) IN
  /\ client[c].conn # "off" /\ down[c] # <<>>
  /\ frame.type = "hello" \/ Negotiated(client[c])
  /\ client' = [client EXCEPT ![c] = Handled(c, s, box, frame)]
  /\ outbox' = [outbox EXCEPT ![c] = left]
  /\ captured' = captured \cup EditsIn(CapturedEdits(c))
  /\ saved' = [saved EXCEPT ![c] = @ \/ ~Outdated(Adopted(s, frame), frame)]
  /\ Send(c, CapturedEdits(c) \o Drained(frame, left))
  /\ down' = [down EXCEPT ![c] = Tail(@)]
  /\ UNCHANGED <<room, joined, old, made, faults>>

\* The outbox cannot be written: the frame does not touch the document.
ClientDefers(c) ==
  LET frame == Head(down[c]) IN
  /\ client[c].conn # "off" /\ down[c] # <<>>
  /\ frame.type = "hello" \/ Negotiated(client[c])
  /\ Uncaptured(client[c]) /\ Fault
  /\ client' = [client EXCEPT ![c].live = TRUE, ![c].conn = "live",
                  ![c].deferred = IF frame.type = "hello" THEN frame ELSE @]
  /\ Send(c, Drained(frame, outbox[c]))
  /\ down' = [down EXCEPT ![c] = Tail(@)]
  /\ UNCHANGED <<room, joined, old, outbox, saved, made, captured>>

\* The document changes again, and now the difference can be captured.
Recapture(c) ==
  /\ Uncaptured(client[c]) /\ Live(c)
  /\ client' = [client EXCEPT ![c].visible = client[c].editor]
  /\ outbox' = [outbox EXCEPT ![c] = CapturedOutbox(c)]
  /\ captured' = captured \cup {Change(c)}
  /\ IF Negotiated(client[c]) THEN Send(c, CapturedEdits(c)) ELSE UNCHANGED up
  /\ UNCHANGED <<room, joined, old, down, saved, made, faults>>

-----------------------------------------------------------------------------
(***************************************************************************)
(* Connections and sessions end.  What the server has not read yet of a    *)
(* lost connection it may still read; frames to the client are lost.       *)
(***************************************************************************)
Disconnect(c) ==
  /\ joined' = joined \ {c}
  /\ old' = [old EXCEPT ![c] = IF c \in joined THEN up[c] ELSE <<>>]
  /\ room' = IF c \in joined THEN EvictIdle(joined', old', room) ELSE room
  /\ up' = [up EXCEPT ![c] = <<>>]
  /\ down' = [down EXCEPT ![c] = <<>>]

\* The network, the server's bounded queue, or the restart of the server.
Cut(c) ==
  /\ client[c].conn # "off"
  /\ IF c \in joined THEN Fault ELSE UNCHANGED faults
  /\ Disconnect(c)
  /\ client' = [client EXCEPT ![c].conn = "off"]
  /\ UNCHANGED <<outbox, saved, made, captured>>

(***************************************************************************)
(* sessionRenewed, each five minutes: leave and join.  All that is on its  *)
(* way has arrived by then.  A room that refuses an edit with              *)
(* resync_required makes the client do the same.                           *)
(***************************************************************************)
Renew(c) ==
  /\ client[c].conn = "live" /\ up[c] = <<>> /\ down[c] = <<>>
  /\ Disconnect(c)
  /\ client' = [client EXCEPT ![c].conn = "off"]
  /\ UNCHANGED <<outbox, saved, made, captured, faults>>

SignOut(c) ==
  /\ client[c].signedIn /\ Fault
  /\ Disconnect(c)
  /\ client' = [client EXCEPT ![c].conn = "off", ![c].signedIn = FALSE]
  /\ UNCHANGED <<outbox, saved, made, captured>>

\* handleSignedIn, ensureSession: the document as it is becomes the known one.
SignIn(c) ==
  /\ ~client[c].signedIn
  /\ client' = [client EXCEPT ![c].signedIn = TRUE,
                  ![c].visible = client[c].editor,
                  ![c].live = @ \/ saved[c]]
  /\ UNCHANGED <<room, joined, up, old, down, outbox, saved, made, captured, faults>>

\* The program ends and opens the document again, as it was saved or not.
ClientRestarts(c) ==
  /\ Fault
  /\ Disconnect(c)
  /\ \E doc \in {<<>>, client[c].editor} :
       client' = [client EXCEPT ![c] = [Fresh EXCEPT !.editor = doc, !.visible = doc]]
  /\ UNCHANGED <<outbox, saved, made, captured>>

-----------------------------------------------------------------------------
ServerStep(c) ==
  ServerReceives(c) \/ ServerReceivesOld(c) \/ ServerDropsOld(c)

ClientStep(c) ==
  UserEdits(c) \/ ClientReceives(c) \/ ClientDefers(c) \/ Recapture(c)

SessionStep(c) ==
  Connect(c) \/ Cut(c) \/ Renew(c) \/ SignOut(c) \/ SignIn(c) \/ ClientRestarts(c)

Next ==
  \/ \E c \in Client : ServerStep(c) \/ ClientStep(c) \/ SessionStep(c)
  \/ \E n \in 1..Len(room.doc) : Flush(n)
  \/ ServerRestarts

(***************************************************************************)
(* Frames arrive, the room flushes, and a client that is signed in         *)
(* reconnects with a bounded backoff and renews its session each five      *)
(* minutes, which also ends a connection that the server has forgotten.    *)
(* Nobody has to edit, to sign in or to start the program again.           *)
(***************************************************************************)
Fairness ==
  /\ WF_vars(\E n \in 1..Len(room.doc) : Flush(n))
  /\ \A c \in Client :
       /\ WF_vars(ServerReceives(c)) /\ WF_vars(ClientReceives(c))
       /\ WF_vars(Connect(c)) /\ WF_vars(Renew(c))
       /\ WF_vars(Cut(c) /\ c \notin joined)

Spec == Init /\ [][Next]_vars /\ Fairness

-----------------------------------------------------------------------------
\* Every field has its type, and the outbox is ordered by its counter.
TypeOK ==
  /\ room.doc \in Document /\ room.durable \in 0..Len(room.doc)
  /\ room.epoch \in {0, 1} /\ room.revision \in Nat
  /\ joined \subseteq Client
  /\ \A c \in Client :
       /\ up[c] \in Document /\ old[c] \in Document
       /\ outbox[c] \in Document
       /\ \A i, j \in 1..Len(outbox[c]) : i < j => outbox[c][i].n < outbox[c][j].n
       /\ client[c].editor \in Document /\ client[c].visible \in Document
       /\ client[c].applied \subseteq Edit
       /\ client[c].conn \in {"off", "open", "live"}

(***************************************************************************)
(* An edit that was written to the outbox stays there until it is durable: *)
(* no frame, in whatever order, epoch or revision it comes, clears it      *)
(* before, and no restart of the server takes a cleared edit back          *)
(* (collaboration-scaling.md:46).                                          *)
(***************************************************************************)
CapturedSurvives ==
  \A e \in captured : e \in EditsIn(outbox[e.by]) \cup Durable

(***************************************************************************)
(* A connected client shows its own edits that wait in the outbox: a state *)
(* of the server that does not have them yet, or has lost them by a        *)
(* restart, does not erase them (2026-09-22-live-v2-contract.md:20).       *)
(***************************************************************************)
PendingShown ==
  \A c \in Client : LET s == client[c] IN
    Negotiated(s) /\ s.deferred = NoFrame /\ ~Uncaptured(s) =>
      EditsIn(outbox[c]) \subseteq EditsIn(s.editor)

(***************************************************************************)
(* When nothing is on its way and nothing waits, every connected client    *)
(* shows the document of the room, whatever deferred handshakes, retries   *)
(* and overlays it went through.                                           *)
(***************************************************************************)
Settled(c) ==
  /\ Negotiated(client[c]) /\ c \in joined
  /\ up[c] = <<>> /\ down[c] = <<>> /\ old[c] = <<>>
  /\ outbox[c] = <<>> /\ ~Uncaptured(client[c])

Converged ==
  \A c \in Client : Settled(c) => client[c].editor = room.doc

(***************************************************************************)
(* The outbox of a client that stays signed in becomes empty: what was     *)
(* captured offline, refused by a failing store, or lost with a connection *)
(* or by a restart is submitted until it is durable.                       *)
(***************************************************************************)
OutboxDrains ==
  \A c \in Client : []<>(outbox[c] = <<>> \/ ~client[c].signedIn)

(***************************************************************************)
(* The outbox drains in order (2026-09-20-client-sharing-endtoend-design   *)
(* .md:47): the room merges the edits of a client in the order in which    *)
(* the user made them.                                                     *)
(***************************************************************************)
OwnEditsInOrder ==
  \A i, j \in 1..Len(room.doc) :
    i < j /\ room.doc[i].by = room.doc[j].by => room.doc[i].n < room.doc[j].n

(***************************************************************************)
(* "A live state may only replace the editor after every local edit is     *)
(* durable in the outbox" (sharecoordinator.cpp:526): what a frame takes   *)
(* out of the editor of the user's own edits is in the outbox or in the    *)
(* room.                                                                   *)
(***************************************************************************)
ReceivedFrame(c) == down[c] # <<>> /\ down'[c] = Tail(down[c]) /\ client'[c].conn = "live"

EditsNotReplaced ==
  [][\A c \in Client : ReceivedFrame(c) =>
       By(c, EditsIn(client[c].editor)) \subseteq
         EditsIn(client'[c].editor) \cup EditsIn(outbox'[c]) \cup EditsIn(room.doc)]_vars
=============================================================================
