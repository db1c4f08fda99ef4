------------------------- MODULE LiveRoomInductive -------------------------
(***************************************************************************)
(* The inductive invariant of LiveRoom: what every step of a room relies   *)
(* on, whatever the bounds.  The idea: a head write is only ever applied   *)
(* to the head it was computed from, so whatever was true of that head and *)
(* its history when a task looked is still true when its write lands; and  *)
(* every identifier in the history is receipted, or is among the room's    *)
(* recent receipts, or is in a batch whose commit the room does not know   *)
(* of yet, which holds its own first pending operations.                   *)
(***************************************************************************)
EXTENDS LiveRoom

\* The name of the last of the first k committed batches.
NameOf(k) == IF k = 0 THEN NoBatch ELSE log[k]

SeqOf(n) == IF n = NoBatch THEN 0 ELSE batches[n].seq

\* The identifier id occurs in the batch named n.
OccursIn(id, n) == \E m \in 1..Len(OpsOf(n)) : OpsOf(n)[m].id = id

UsedUpTo(id, k) == \E i \in 1..k : OccursIn(id, log[i])

NoRepeat(ops) == \A i, j \in 1..Len(ops) : ops[i].id = ops[j].id => i = j

Covered(i) == ReceiptsOf(log[i]) \subseteq receipts

-----------------------------------------------------------------------------
\* The head names the end of a chain of stored batches.
Chain ==
  /\ head.rev # 0 /\ head.seq = Len(log) /\ head.batch = NameOf(Len(log))
  /\ \A i \in 1..Len(log) :
       /\ log[i] \in 1..Len(batches)
       /\ batches[log[i]].seq = i
       /\ batches[log[i]].parent = NameOf(i - 1)

\* A write of the head that keeps its batch ...
SoundMark(req) ==
  /\ req.seq = head.seq /\ req.batch = head.batch
  /\ head.indexed => req.indexed
  /\ req.indexed => \A i \in 1..(Len(log) - 1) : Covered(i)

\* ... or commits a new one, with fresh identifiers, over an indexed history.
SoundCommit(req) ==
  /\ req.seq = Len(log) + 1 /\ head.indexed /\ req.indexed
  /\ req.batch \in 1..Len(batches)
  /\ batches[req.batch].parent = head.batch
  /\ batches[req.batch].seq = Len(log) + 1
  /\ NoRepeat(OpsOf(req.batch))
  /\ \A m \in 1..Len(OpsOf(req.batch)) : ~UsedUpTo(OpsOf(req.batch)[m].id, Len(log))
  /\ Len(log) # 0 => Covered(Len(log))

\* A head write that could still be applied is one of these.
Sound(req) ==
  /\ req.rev <= head.rev
  /\ Current(req) => SoundMark(req) \/ SoundCommit(req)

InflightSound == \A req \in inflight : Sound(req)

\* What the room remembers of the head was once true, and its queue is new.
RoomSound ==
  /\ NoRepeat(pending)
  /\ pending # <<>> => open
  /\ \A a \in Account : peer[a] \in {"opened", "joined"} => open
  /\ open =>
       /\ head.indexed
       /\ rhead.seq \in 0..Len(log) /\ rhead.batch = NameOf(rhead.seq)
       /\ recent \subseteq ReceiptsOf(rhead.batch)
       /\ \A r \in ReceiptsOf(rhead.batch) : r.id \in OpId => r \in recent
       /\ \A i \in 1..Len(pending) : ~UsedUpTo(pending[i].id, rhead.seq)

\* The head a task loaded is the present one unless its revision is older.
TaskHeadSound ==
  /\ task.head.rev <= head.rev
  /\ Current(task.head) => task.head = head
  /\ task.head.seq \in 0..Len(log) /\ task.head.batch = NameOf(task.head.seq)
  /\ task.head.indexed => head.indexed

\* The walk over unindexed batches has covered all of them above its cursor.
WalkSound ==
  task.at = "index" =>
    /\ task.kind \in {"open", "flush"}
    /\ task.cursor # NoBatch => \E k \in 1..task.head.seq : task.cursor = log[k]
    /\ IF task.head.indexed
         THEN \/ task.cursor = task.head.batch
              \/ task.cursor = NoBatch /\ ReceiptsOf(task.head.batch) \subseteq receipts
         ELSE \A i \in 1..task.head.seq : i > SeqOf(task.cursor) => Covered(i)

\* Where a task is, and what it has done by then.
TaskSound ==
  /\ task.at = "idle" => task.kind = "idle"
  /\ task.at = "decide" => task.kind = "submit"
  /\ task.at \in {"recover", "put", "commit"} => task.kind = "flush"
  /\ task.at = "promote" => task.kind = "open"
  /\ task.kind = "open" => ~open
  /\ task.kind = "submit" => open /\ task.edit \in Edit
  /\ task.kind = "flush" =>
       /\ open /\ pending # <<>>
       /\ task.at \in {"index", "put", "commit"} => rhead = Known(task.head)
  /\ task.at = "recover" => task.cursor = task.head.batch
  /\ task.at \in {"promote", "put", "commit"} =>
       /\ task.head.indexed
       /\ ReceiptsOf(task.head.batch) \subseteq receipts
  /\ task.at = "commit" =>
       task.cursor \in 1..Len(batches) /\ batches[task.cursor] = NextBatch

Inductive ==
  /\ TypeOK
  /\ Chain /\ ExactlyOnce /\ ReceiptsCoverHistory /\ InflightSound
  /\ RoomSound
  /\ TaskHeadSound /\ WalkSound /\ TaskSound
  /\ AckedDurable

-----------------------------------------------------------------------------
(***************************************************************************)
(* The documents on top of it.  A stored batch holds the document of its   *)
(* parent with its own operations merged, also when the head never gets to *)
(* name it; the room's document is that of the batch it knows with its     *)
(* queue; the head's has every operation of the history, once.             *)
(***************************************************************************)
BatchesSound ==
  \A n \in 1..Len(batches) :
    /\ batches[n].parent \in 0..Len(batches)
    /\ ChangesOf(n) = ChangesOf(batches[n].parent) \o OpsOf(n)

RoomDocument == open => doc = ChangesOf(rhead.batch) \o pending

HeadDocument ==
  /\ NoRepeat(ChangesOf(head.batch))
  /\ \A k \in 1..Len(ChangesOf(head.batch)) :
       UsedUpTo(ChangesOf(head.batch)[k].id, Len(log))
  /\ \A i \in 1..Len(log) : \A m \in 1..Len(OpsOf(log[i])) :
       \E k \in 1..Len(ChangesOf(head.batch)) :
         ChangesOf(head.batch)[k] = OpsOf(log[i])[m]

DocumentSound == BatchesSound /\ RoomDocument /\ HeadDocument
=============================================================================
