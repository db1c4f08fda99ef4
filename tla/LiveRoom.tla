------------------------------ MODULE LiveRoom ------------------------------
(***************************************************************************)
(* The live room of one map: backend/internal/rooms/live.go with the       *)
(* receipt indexing of receipts.go and the store of MapStore.              *)
(*                                                                         *)
(* Every room operation holds the map's lock while it talks to CouchDB, so *)
(* at most one of them, the task, is under way; but other writers of the   *)
(* head (an accepted invitation, a late write) and a crash of the server   *)
(* come between any two of its store calls.  A task therefore has one      *)
(* action per store call, and carries the head it loaded.                  *)
(***************************************************************************)
EXTENDS MapStore

CONSTANTS
  Author,       \* the account that wrote each edit
  None,         \* no account, no edit
  MaxPending,   \* liveMaxPending
  MaxFaults,    \* bound: store calls that fail or lose their answer
  MaxCrashes,   \* bound: crashes of the server
  MaxGrants     \* bound: changes of the access list by other code

VARIABLES
  peer,      \* each account's connection to the live endpoint
  open,      \* the manager has a live room that is not closed
  rhead,     \* the room's copy of the head: last batch and sequence it knows
  doc,       \* the operations merged into the room's document, in order
  pending,   \* operations applied in memory and not yet durable
  recent,    \* receipts of the last batch the room knows
  timer,     \* a flush is scheduled
  task,      \* the operation that holds the room's lock
  acked,     \* history: receipts announced to clients as durable
  budget     \* what is left of the bounds

roomVars == <<peer, open, rhead, doc, pending, recent, timer>>
vars == <<storeVars, roomVars, task, acked, budget>>

ASSUME RoomAssumption ==
  /\ Author \in [OpId -> Account]
  /\ None \notin Account /\ None \notin Edit
  /\ MaxPending \in Nat \ {0}
  /\ MaxFaults \in Nat /\ MaxCrashes \in Nat /\ MaxGrants \in Nat

-----------------------------------------------------------------------------
(***************************************************************************)
(* Connections.  A connection has opened when its request got hold of a    *)
(* room, and joined when it subscribed to it; between the two it upgrades  *)
(* to a WebSocket without the lock.  It is astray when that room has been  *)
(* closed in the meantime: the object it holds is no longer the map's.     *)
(***************************************************************************)
PeerState == {"out", "opened", "joined", "openedAstray", "joinedAstray"}

Subscribers == {a \in Account : peer[a] = "joined"}

Astray(state) == IF state = "opened" THEN "openedAstray" ELSE state

NoHead == [rev |-> 0, batch |-> NoBatch, seq |-> 0, indexed |-> FALSE,
           live |-> 1, writers |-> {}]

Idle == [kind |-> "idle", at |-> "idle", who |-> None, edit |-> None,
         head |-> NoHead, cursor |-> NoBatch]

Start(kind, at, who, edit) ==
  task' = [kind |-> kind, at |-> at, who |-> who, edit |-> edit,
           head |-> head, cursor |-> head.batch]

At(kind, at) == task.kind = kind /\ task.at = at

Init ==
  /\ InitStore
  /\ peer = [a \in Account |-> "out"]
  /\ open = FALSE
  /\ rhead = [batch |-> NoBatch, seq |-> 0]
  /\ doc = <<>> /\ pending = <<>> /\ recent = {}
  /\ timer = FALSE
  /\ task = Idle
  /\ acked = {}
  /\ budget = [faults |-> MaxFaults, crashes |-> MaxCrashes, grants |-> MaxGrants]

\* Mutant: a failed flush is not scheduled again.
NotRescheduled == timer

\* A flush that failed is tried again.
Rescheduled == timer \/ task.kind = "flush"

\* The task gives up the lock.
Abandon ==
  /\ task' = Idle
  /\ timer' = Rescheduled
  /\ UNCHANGED <<peer, open, rhead, doc, pending, recent>>

SpendFault ==
  /\ budget.faults > 0
  /\ budget' = [budget EXCEPT !.faults = @ - 1]

(***************************************************************************)
(* evictIdleLocked: a room without subscribers and without pending         *)
(* operations is closed and forgotten.  joined and left are the peers and  *)
(* the pending operations after the step that calls it.                    *)
(***************************************************************************)
EvictIdle(peers, left) ==
  IF left = <<>> /\ \A a \in Account : peers[a] # "joined"
    THEN /\ open' = FALSE
         /\ timer' = FALSE
         /\ rhead' = [batch |-> NoBatch, seq |-> 0]
         /\ doc' = <<>> /\ recent' = {}
         /\ peer' = [a \in Account |-> Astray(peers[a])]
    ELSE /\ peer' = peers
         /\ UNCHANGED <<open, timer, rhead, doc, recent>>

(***************************************************************************)
(* recoverCommit: the head moved although no answer told the room so.  The *)
(* move is the room's own if the new batch follows the one it knows and    *)
(* holds exactly the first pending operations.                             *)
(***************************************************************************)
Moved(h) == h.seq # rhead.seq \/ h.batch # rhead.batch

OwnCommit(h) ==
  LET ops == OpsOf(h.batch) IN
  /\ h.seq = rhead.seq + 1
  /\ h.batch # NoBatch
  /\ batches[h.batch].parent = rhead.batch
  /\ batches[h.batch].seq = h.seq
  /\ Len(ops) \in 1..Len(pending)
  /\ \A i \in 1..Len(ops) : ops[i] = pending[i]

\* Mutant: a recovered commit is taken to hold the whole queue.
CompletedAll(h) == <<>>

\* Mutant: the last operation of a recovered commit stays.
CompletedShort(h) == SubSeq(pending, Len(OpsOf(h.batch)), Len(pending))

\* complete: the operations of the batch of h leave the queue as durable.
Completed(h) == SubSeq(pending, Len(OpsOf(h.batch)) + 1, Len(pending))

Announce(h) == acked' = acked \cup ReceiptsOf(h.batch)

(***************************************************************************)
(* indexCommittedReceipts: write the receipts of the batch at the cursor;  *)
(* once a head says that its history is indexed only its last batch needs  *)
(* it, otherwise the walk goes on to the first batch.  The bulk write is   *)
(* not atomic: a failure leaves any part of it behind.                     *)
(***************************************************************************)
Indexing == task.at = "index" /\ task.cursor # NoBatch

\* Mutant: only the last batch is indexed, whatever the head says.
NoWalk == NoBatch

NextCursor == IF task.head.indexed THEN NoBatch ELSE batches[task.cursor].parent

IndexBatch ==
  /\ Indexing
  /\ ~Conflicting(ReceiptsOf(task.cursor))
  /\ receipts' = receipts \cup ReceiptsOf(task.cursor)
  /\ task' = [task EXCEPT !.cursor = NextCursor]
  /\ UNCHANGED <<head, batches, inflight, log, roomVars, acked, budget>>

IndexFails ==
  /\ Indexing
  /\ \E part \in SUBSET ReceiptsOf(task.cursor) :
       /\ ~Conflicting(part)
       /\ receipts' = receipts \cup part
  /\ IF Conflicting(ReceiptsOf(task.cursor)) THEN UNCHANGED budget ELSE SpendFault
  /\ Abandon
  /\ UNCHANGED <<head, batches, inflight, log, acked>>

AfterIndex == IF task.kind = "open" THEN "promote" ELSE "put"

IndexDone ==
  /\ task.at = "index" /\ task.cursor = NoBatch /\ task.head.indexed
  /\ task' = [task EXCEPT !.at = AfterIndex]
  /\ UNCHANGED <<storeVars, roomVars, acked, budget>>

(***************************************************************************)
(* The head writes of a task: the mark that the history is indexed, the    *)
(* promotion of the map to the live protocol, and the commit of a batch.   *)
(***************************************************************************)
Request ==
  CASE task.at = "index" /\ task.cursor = NoBatch /\ ~task.head.indexed ->
         [task.head EXCEPT !.indexed = TRUE]
    [] task.at = "promote" /\ task.head.live = 1 ->
         [task.head EXCEPT !.live = 2]
    [] task.at = "commit" ->
         [task.head EXCEPT !.batch = task.cursor, !.seq = @ + 1]
    [] OTHER -> NoHead

MarkIndexed ==
  /\ task.at = "index" /\ Request # NoHead
  /\ Current(Request)
  /\ Install(Request)
  /\ task' = [task EXCEPT !.at = AfterIndex, !.head = Stamped(Request)]
  /\ UNCHANGED <<batches, receipts, inflight, roomVars, acked, budget>>

Promote ==
  /\ task.at = "promote" /\ Request # NoHead
  /\ Current(Request)
  /\ Install(Request)
  /\ task' = [task EXCEPT !.head = Stamped(Request)]
  /\ UNCHANGED <<batches, receipts, inflight, roomVars, acked, budget>>

\* The head changed since the task loaded it.
HeadConflict ==
  /\ Request # NoHead
  /\ ~Current(Request)
  /\ Abandon
  /\ UNCHANGED <<storeVars, acked, budget>>

\* The answer does not arrive in time; the write may still be applied.
HeadAmbiguous ==
  /\ Request # NoHead
  /\ SpendFault
  /\ inflight' = inflight \cup {Request}
  /\ Abandon
  /\ UNCHANGED <<head, batches, receipts, log, acked>>

\* A read of the store, or a write that changes nothing, fails.
StoreFails ==
  /\ task.at \in {"index", "recover", "decide", "put"}
  /\ SpendFault
  /\ Abandon
  /\ UNCHANGED <<storeVars, acked>>

-----------------------------------------------------------------------------
(***************************************************************************)
(* OpenLive and Subscribe.                                                 *)
(***************************************************************************)
OpenExisting(a) ==
  /\ task = Idle /\ peer[a] = "out" /\ open
  /\ peer' = [peer EXCEPT ![a] = "opened"]
  /\ UNCHANGED <<storeVars, open, rhead, doc, pending, recent, timer, task, acked, budget>>

OpenLoad(a) ==
  /\ task = Idle /\ peer[a] = "out" /\ ~open
  /\ Start("open", "index", a, None)
  /\ UNCHANGED <<storeVars, roomVars, acked, budget>>

\* The document and the recent receipts are those of the head's last batch.
OpenDone ==
  /\ At("open", "promote") /\ task.head.live = 2
  /\ open' = TRUE
  /\ rhead' = [batch |-> task.head.batch, seq |-> task.head.seq]
  /\ doc' = ChangesOf(task.head.batch)
  /\ recent' = {r \in ReceiptsOf(task.head.batch) : r.id \in OpId}
  /\ pending' = <<>> /\ timer' = FALSE
  /\ peer' = [peer EXCEPT ![task.who] = "opened"]
  /\ task' = Idle
  /\ UNCHANGED <<storeVars, acked, budget>>

Subscribe(a) ==
  /\ task = Idle
  /\ peer[a] \in {"opened", "openedAstray"}
  /\ peer' = [peer EXCEPT ![a] = IF @ = "opened" THEN "joined" ELSE "joinedAstray"]
  /\ UNCHANGED <<storeVars, open, rhead, doc, pending, recent, timer, task, acked, budget>>

\* The connection ends: by the client, by a slow reader, or before the upgrade.
Leave(a) ==
  /\ task = Idle
  /\ peer[a] # "out"
  /\ LET peers == [peer EXCEPT ![a] = "out"] IN
     IF peer[a] = "joined"
       THEN EvictIdle(peers, pending)
       ELSE peer' = peers /\ UNCHANGED <<open, timer, rhead, doc, recent>>
  /\ UNCHANGED <<storeVars, pending, task, acked, budget>>

-----------------------------------------------------------------------------
(***************************************************************************)
(* SubmitTo.                                                               *)
(***************************************************************************)
\* A closed room answers resync_required and the client reconnects.
SubmitAstray(a) ==
  /\ task = Idle /\ peer[a] = "joinedAstray"
  /\ peer' = [peer EXCEPT ![a] = "out"]
  /\ UNCHANGED <<storeVars, open, rhead, doc, pending, recent, timer, task, acked, budget>>

SubmitLoad(a, e) ==
  /\ task = Idle /\ peer[a] = "joined" /\ Author[e.id] = a
  /\ Start("submit", "decide", a, e)
  /\ UNCHANGED <<storeVars, roomVars, acked, budget>>

Known(h) == [batch |-> h.batch, seq |-> h.seq]

\* access_revoked, or resync_required because the head moved by another hand.
SubmitRefused ==
  /\ At("submit", "decide")
  /\ \/ task.who \notin task.head.writers
     \/ Moved(task.head) /\ ~OwnCommit(task.head)
  /\ task' = Idle
  /\ UNCHANGED <<storeVars, roomVars, acked, budget>>

\* The loaded head shows that an earlier commit of this room succeeded.
SubmitRecovers ==
  /\ At("submit", "decide")
  /\ task.who \in task.head.writers
  /\ Moved(task.head) /\ OwnCommit(task.head)
  /\ rhead' = Known(task.head)
  /\ recent' = ReceiptsOf(task.head.batch)
  /\ pending' = Completed(task.head)
  /\ Announce(task.head)
  /\ UNCHANGED <<storeVars, peer, open, doc, timer, task, budget>>

\* The room is up to date with the loaded head and looks at the edit.
Deciding ==
  /\ At("submit", "decide")
  /\ task.who \in task.head.writers
  /\ ~Moved(task.head)

IsPending(id) == \E i \in 1..Len(pending) : pending[i].id = id

\* Mutant: the receipts of batches before the last are not looked up.
RecentlyReceipted(id) == {r \in recent : r.id = id}

Receipted(id) == {r \in recent \cup receipts : r.id = id}

\* Mutant: the payload of a used identifier is not compared.
AnswerUnseen(r) == acked \cup {[r EXCEPT !.hash = task.edit.hash]}

\* Another payload under a used identifier is refused (counter_reuse).
Answer(r) == IF r.hash = task.edit.hash THEN acked \cup {r} ELSE acked

\* A retry: of an edit that is pending, or of one that is durable already.
SubmitDuplicate ==
  /\ Deciding
  /\ \/ IsPending(task.edit.id) /\ UNCHANGED acked
     \/ /\ ~IsPending(task.edit.id)
        /\ \E r \in Receipted(task.edit.id) : acked' = Answer(r)
  /\ task' = Idle
  /\ UNCHANGED <<storeVars, roomVars, budget>>

Fresh(id) == ~IsPending(id) /\ Receipted(id) = {}

\* quota_exceeded, or invalid_message when the document refuses the operations.
SubmitRejected ==
  /\ Deciding /\ Fresh(task.edit.id)
  /\ task' = Idle
  /\ UNCHANGED <<storeVars, roomVars, acked, budget>>

\* Mutant: the quota is off by one.
QuotaExceededByOne == Len(pending) <= MaxPending

QuotaLeft == Len(pending) < MaxPending

SubmitApplied ==
  /\ Deciding /\ Fresh(task.edit.id) /\ QuotaLeft
  /\ doc' = Append(doc, task.edit)
  /\ pending' = Append(pending, task.edit)
  /\ timer' = TRUE
  /\ task' = Idle
  /\ UNCHANGED <<storeVars, peer, open, rhead, recent, acked, budget>>

-----------------------------------------------------------------------------
(***************************************************************************)
(* Flush and flushLocked, run by the timer.                                *)
(***************************************************************************)
FlushNothing ==
  /\ task = Idle /\ timer /\ pending = <<>>
  /\ timer' = FALSE
  /\ UNCHANGED <<storeVars, peer, open, rhead, doc, pending, recent, task, acked, budget>>

FlushLoad ==
  /\ task = Idle /\ timer /\ pending # <<>>
  /\ timer' = FALSE
  /\ Start("flush", "recover", None, None)
  /\ UNCHANGED <<storeVars, peer, open, rhead, doc, pending, recent, acked, budget>>

\* The head moved by another hand: the flush fails, and is tried again.
FlushStuck ==
  /\ At("flush", "recover")
  /\ Moved(task.head) /\ ~OwnCommit(task.head)
  /\ Abandon
  /\ UNCHANGED <<storeVars, acked, budget>>

\* Mutant: a revoked author holds up the flush.
FlushProceedsIfWriters ==
  /\ At("flush", "recover")
  /\ ~Moved(task.head)
  /\ \A i \in 1..Len(pending) : Author[pending[i].id] \in task.head.writers
  /\ task' = [task EXCEPT !.at = "index"]
  /\ UNCHANGED <<storeVars, roomVars, acked, budget>>

FlushProceeds ==
  /\ At("flush", "recover")
  /\ ~Moved(task.head)
  /\ task' = [task EXCEPT !.at = "index"]
  /\ UNCHANGED <<storeVars, roomVars, acked, budget>>

\* The previous flush had committed; what it did not hold is flushed now.
FlushRecovers ==
  /\ At("flush", "recover")
  /\ Moved(task.head) /\ OwnCommit(task.head)
  /\ pending' = Completed(task.head)
  /\ Announce(task.head)
  /\ IF pending' = <<>> /\ Subscribers = {}
       THEN /\ EvictIdle(peer, <<>>)
            /\ task' = Idle
       ELSE /\ rhead' = Known(task.head)
            /\ recent' = ReceiptsOf(task.head.batch)
            /\ task' = IF pending' = <<>> THEN Idle ELSE [task EXCEPT !.at = "index"]
            /\ UNCHANGED <<peer, open, doc, timer>>
  /\ UNCHANGED <<storeVars, budget>>

\* Mutant: a batch holds the changes since the last one only.
NextDelta == [parent |-> task.head.batch, seq |-> task.head.seq + 1,
              ops |-> pending, changes |-> pending]

NextBatch == [parent |-> task.head.batch, seq |-> task.head.seq + 1,
              ops |-> pending, changes |-> doc]

FlushPut ==
  /\ At("flush", "put")
  /\ \E n \in 1..(Len(batches) + 1) :
       /\ PutBatch(NextBatch, n)
       /\ \/ /\ task' = [task EXCEPT !.at = "commit", !.cursor = n]
             /\ UNCHANGED <<roomVars, budget>>
          \* The batch is written, and the answer is lost.
          \/ SpendFault /\ Abandon
  /\ UNCHANGED <<head, receipts, inflight, log, acked>>

\* The compare-and-swap is the commit point.
FlushCommit ==
  /\ At("flush", "commit")
  /\ Current(Request)
  /\ Install(Request)
  /\ pending' = <<>>
  /\ acked' = acked \cup ReceiptsOf(task.cursor)
  /\ IF Subscribers = {}
       THEN EvictIdle(peer, <<>>)
       ELSE /\ rhead' = Known(Request)
            /\ recent' = ReceiptsOf(task.cursor)
            /\ UNCHANGED <<peer, open, doc, timer>>
  /\ task' = Idle
  /\ UNCHANGED <<batches, receipts, inflight, budget>>

-----------------------------------------------------------------------------
(***************************************************************************)
(* The rest of the world.  An accepted invitation and the administrator    *)
(* rewrite the access list; late writes land; the server process ends,     *)
(* orderly after a last flush (CloseLive) or not, and restarts empty.      *)
(***************************************************************************)
ChangeAccess ==
  /\ budget.grants > 0
  /\ budget' = [budget EXCEPT !.grants = @ - 1]
  /\ \E w \in SUBSET Account :
       head' = [head EXCEPT !.rev = @ + 1, !.writers = w]
  /\ UNCHANGED <<batches, receipts, inflight, log, roomVars, task, acked>>

LateWrite ==
  /\ \E req \in inflight : Land(req) \/ Vanish(req)
  /\ UNCHANGED <<roomVars, task, acked, budget>>

Crash ==
  /\ budget.crashes > 0
  /\ budget' = [budget EXCEPT !.crashes = @ - 1]
  /\ peer' = [a \in Account |-> "out"]
  /\ open' = FALSE
  /\ rhead' = [batch |-> NoBatch, seq |-> 0]
  /\ doc' = <<>> /\ pending' = <<>> /\ recent' = {} /\ timer' = FALSE
  /\ task' = Idle
  /\ UNCHANGED <<storeVars, acked>>

Open == OpenDone \/ \E a \in Account : OpenExisting(a) \/ OpenLoad(a)

Submit ==
  \/ \E a \in Account : SubmitAstray(a) \/ \E e \in Edit : SubmitLoad(a, e)
  \/ SubmitRefused \/ SubmitRecovers \/ SubmitDuplicate
  \/ SubmitRejected \/ SubmitApplied

Index == IndexBatch \/ IndexFails \/ IndexDone \/ MarkIndexed

Flush ==
  \/ FlushNothing \/ FlushLoad \/ FlushStuck \/ FlushProceeds
  \/ FlushRecovers \/ FlushPut \/ FlushCommit

Next ==
  \/ Open \/ Submit \/ Index \/ Flush
  \/ Promote \/ HeadConflict \/ HeadAmbiguous \/ StoreFails
  \/ \E a \in Account : Subscribe(a) \/ Leave(a)
  \/ ChangeAccess \/ LateWrite \/ Crash

Spec == Init /\ [][Next]_vars

(***************************************************************************)
(* Fairness.  A store call ends, by an answer or by its deadline, so a     *)
(* task under way goes on.  The callback of an armed timer runs and queues *)
(* for the room's mutex, which Go hands to a waiter that starves: SF.      *)
(***************************************************************************)
TaskStep ==
  \/ OpenDone \/ Promote \/ HeadConflict
  \/ IndexBatch \/ IndexDone \/ MarkIndexed
  \/ SubmitRefused \/ SubmitRecovers \/ SubmitDuplicate \/ SubmitRejected \/ SubmitApplied
  \/ FlushStuck \/ FlushProceeds \/ FlushRecovers \/ FlushPut \/ FlushCommit

FairSpec == Spec /\ WF_vars(TaskStep) /\ SF_vars(FlushLoad)

-----------------------------------------------------------------------------
(***************************************************************************)
(* Properties.                                                             *)
(***************************************************************************)
TaskType ==
  [kind : {"idle", "open", "submit", "flush"},
   at : {"idle", "index", "promote", "recover", "decide", "put", "commit"},
   who : Account \cup {None}, edit : Edit \cup {None},
   head : HeadDoc, cursor : Nat]

StoreTypeOK ==
  /\ head \in HeadDoc
  /\ batches \in Seq(Batch)
  /\ receipts \subseteq Receipt
  /\ inflight \subseteq HeadDoc
  /\ log \in Seq(Nat)

RoomTypeOK ==
  /\ peer \in [Account -> PeerState]
  /\ open \in BOOLEAN /\ timer \in BOOLEAN
  /\ rhead \in [batch : Nat, seq : Nat]
  /\ doc \in Seq(Operation)
  /\ pending \in Seq(Edit) /\ Len(pending) <= MaxPending
  /\ recent \subseteq Receipt

BudgetType == [faults : Nat, crashes : Nat, grants : Nat]

\* Every variable has the type of the field or document it stands for: the queue
\* is a sequence that is no longer than its quota (liveMaxPending).
TypeOK ==
  /\ StoreTypeOK /\ RoomTypeOK
  /\ task \in TaskType
  /\ acked \subseteq Receipt
  /\ budget \in BudgetType

(***************************************************************************)
(* The queue keeps its quota (liveMaxPending, SubmitTo) while edits are    *)
(* retried and commits recovered, and no place in it is wasted: an edit    *)
(* has one at most, and none once a batch that the room knows of holds it. *)
(***************************************************************************)
QueueBounded ==
  /\ Len(pending) <= MaxPending
  /\ \A i, j \in 1..Len(pending) : pending[i].id = pending[j].id => i = j
  /\ \A i \in 1..Len(pending), k \in 1..rhead.seq : \A m \in 1..Len(OpsOf(log[k])) :
       OpsOf(log[k])[m].id # pending[i].id

(***************************************************************************)
(* However often an edit is retried, across lost answers, late writes and  *)
(* restarts, its identifier is committed at most once (SubmitTo,           *)
(* recoverCommit and the compare-and-swap of flushLocked together).        *)
(***************************************************************************)
ExactlyOnce ==
  \A i, j \in 1..Len(log) :
    \A m \in 1..Len(OpsOf(log[i])), n \in 1..Len(OpsOf(log[j])) :
      OpsOf(log[i])[m].id = OpsOf(log[j])[n].id => i = j /\ m = n

(***************************************************************************)
(* A client is told that an edit is durable, with its hash and sequence    *)
(* number, only if a batch reachable from the head holds exactly that.     *)
(***************************************************************************)
AckedDurable == acked \subseteq Committed

(***************************************************************************)
(* indexCommittedReceipts: once a map is indexed, the receipts of every    *)
(* batch but the last exist, and no batch outside of the history has left  *)
(* one.  The last batch is its own receipt, which the room keeps in recent.*)
(***************************************************************************)
ReceiptsCoverHistory ==
  /\ head.indexed => \A i \in 1..(Len(log) - 1) : ReceiptsOf(log[i]) \subseteq receipts
  /\ receipts \subseteq Committed

(***************************************************************************)
(* Every batch holds the full document: its parent's with its operations   *)
(* merged, nothing lost and nothing twice; and the document of the room is *)
(* the one of the batch it knows, with the pending operations merged.      *)
(***************************************************************************)
DocumentIsHistory ==
  /\ \A i \in 1..Len(log) :
       /\ batches[log[i]].parent = (IF i = 1 THEN NoBatch ELSE log[i - 1])
       /\ batches[log[i]].seq = i
       /\ ChangesOf(log[i]) = ChangesOf(batches[log[i]].parent) \o OpsOf(log[i])
  /\ open => doc = ChangesOf(rhead.batch) \o pending

(***************************************************************************)
(* No accepted edit waits without a flush: a room with pending operations  *)
(* has its timer armed, or the flush is running (SubmitTo and the retry    *)
(* after a failed Flush).                                                  *)
(***************************************************************************)
FlushScheduled == pending # <<>> => open /\ (timer \/ task.kind = "flush")

(***************************************************************************)
(* An accepted edit leaves the queue only by being announced as durable,   *)
(* or with the whole process: neither the eviction of a room, nor a failed *)
(* flush, nor the recovery of a commit drops it.                           *)
(***************************************************************************)
AcceptedNotDropped ==
  [][\A i \in 1..Len(pending) :
       \/ \E j \in 1..Len(pending') : pending'[j] = pending[i]
       \/ \E r \in acked' : r.id = pending[i].id /\ r.hash = pending[i].hash
       \/ budget'.crashes < budget.crashes]_vars

(***************************************************************************)
(* Refinement: whatever the room, the store and their failures do, the     *)
(* document of the head's last batch is an append-only sequence of         *)
(* operations without repetition, and only its operations are announced.   *)
(***************************************************************************)
Durable == INSTANCE DurableLog WITH
  Initially <- Legacy,
  durable   <- ChangesOf(head.batch),
  announced <- {[id |-> r.id, hash |-> r.hash] : r \in acked}

ImplementsDurableLog == Durable!Spec

(***************************************************************************)
(* An accepted edit becomes durable, whatever else clients do, whether or  *)
(* not its author keeps access, as long as failures are finitely many      *)
(* (Flush, its retry and recoverCommit), unless the process dies.          *)
(***************************************************************************)
AcceptedBecomesDurable ==
  \A id \in OpId :
    IsPending(id) ~> (\E r \in acked : r.id = id) \/ budget.crashes < MaxCrashes

(***************************************************************************)
(* The same with restarts, where an edit may also be lost with the process *)
(* and come back by a retry: it does not stay pending for ever.            *)
(***************************************************************************)
PendingIsTransient == \A id \in OpId : IsPending(id) ~> ~IsPending(id)

(***************************************************************************)
(* When an edit is applied, everybody who joined the map is in the room    *)
(* that broadcasts it (OpenLive, Subscribe and evictIdleLocked).           *)
(***************************************************************************)
AppliedReachesEveryone ==
  [][Len(pending') > Len(pending) => \A a \in Account : peer[a] # "joinedAstray"]_vars
=============================================================================
