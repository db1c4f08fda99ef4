------------------------- MODULE LiveRoomLogProofs -------------------------
(***************************************************************************)
(* The documents of a room and of its map: every batch holds the document  *)
(* of its parent with its operations merged, the room shows the head's     *)
(* document with its queue, the live room implements DurableLog, and its   *)
(* queue loses nothing.                                                    *)
(***************************************************************************)
EXTENDS LiveRoomProofs, SequenceTheorems

(***************************************************************************)
(* What a step does to the history: nothing, or it writes a batch that no  *)
(* head names yet, or it commits one.                                      *)
(***************************************************************************)
Stays == UNCHANGED <<batches, log>> /\ head'.batch = head.batch

Puts ==
  /\ At("flush", "put")
  /\ UNCHANGED <<head, log>>
  /\ \E n \in 1..(Len(batches) + 1) : PutBatch(NextBatch, n)

Commits == \E req \in HeadDoc : SoundCommit(req) /\ Install(req) /\ UNCHANGED batches

LEMMA WriteKind ==
  ASSUME NEW req \in HeadDoc, Sound(req), Current(req), Install(req), UNCHANGED batches
  PROVE  Stays \/ Commits
<1>1. CASE SoundMark(req)
  <2>1. req.batch = head.batch
    BY <1>1 DEF SoundMark
  <2>2. log' = log /\ head'.batch = head.batch
    BY <2>1 DEF Install, Stamped, HeadDoc
  <2> QED BY <2>2 DEF Stays
<1>2. CASE SoundCommit(req)
  BY <1>2 DEF Commits
<1> QED BY <1>1, <1>2 DEF Sound

LEMMA RequestKind ==
  ASSUME Inductive, Request # NoHead, Current(Request), Install(Request), UNCHANGED batches
  PROVE  Stays \/ Commits
BY RequestSound, RequestType, WriteKind DEF Inductive

LEMMA StoreSteps ==
  ASSUME Inductive, [Next]_vars
  PROVE  Stays \/ Puts \/ Commits
<1>1. CASE UNCHANGED storeVars
  BY <1>1 DEF storeVars, Stays
<1>2. CASE UNCHANGED <<head, batches, log>>
  BY <1>2 DEF Stays
<1>3. CASE UNCHANGED vars
  BY <1>2, <1>3 DEF vars, storeVars
<1>4. CASE \E a \in Account : \/ OpenExisting(a) \/ OpenLoad(a) \/ Subscribe(a) \/ Leave(a)
                              \/ SubmitAstray(a) \/ \E e \in Edit : SubmitLoad(a, e)
  BY <1>1, <1>4 DEF OpenExisting, OpenLoad, Subscribe, Leave, SubmitAstray, SubmitLoad
<1>5. CASE OpenDone \/ SubmitRefused \/ SubmitRecovers \/ SubmitDuplicate \/ SubmitRejected
           \/ SubmitApplied
  BY <1>1, <1>5 DEF OpenDone, SubmitRefused, SubmitRecovers, SubmitDuplicate, SubmitRejected,
                    SubmitApplied
<1>6. CASE IndexBatch \/ IndexFails \/ IndexDone \/ HeadConflict \/ HeadAmbiguous \/ StoreFails
  BY <1>1, <1>2, <1>6 DEF IndexBatch, IndexFails, IndexDone, HeadConflict, HeadAmbiguous,
                          StoreFails
<1>7. CASE MarkIndexed \/ Promote
  BY <1>7, RequestKind DEF MarkIndexed, Promote
<1>8. CASE FlushNothing \/ FlushLoad \/ FlushStuck \/ FlushProceeds \/ FlushRecovers
  BY <1>1, <1>8 DEF FlushNothing, FlushLoad, FlushStuck, FlushProceeds, FlushRecovers
<1>9. CASE FlushPut
  BY <1>9 DEF FlushPut, Puts
<1>10. CASE FlushCommit
  <2>1. Request # NoHead
    BY <1>10, CommitRequest DEF FlushCommit, At, Inductive
  <2> QED BY <1>10, <2>1, RequestKind DEF FlushCommit
<1>11. CASE ChangeAccess
  <2>1. head'.batch = head.batch
    BY <1>11 DEF ChangeAccess, Inductive, TypeOK, StoreTypeOK, HeadDoc
  <2> QED BY <1>11, <2>1 DEF ChangeAccess, Stays
<1>12. CASE LateWrite
  <2>1. PICK req \in inflight : Land(req) \/ Vanish(req)
    BY <1>12 DEF LateWrite
  <2>2. req \in HeadDoc /\ Sound(req)
    BY DEF Inductive, TypeOK, StoreTypeOK, InflightSound
  <2>3. CASE Land(req) /\ Current(req)
    BY <2>2, <2>3, WriteKind DEF Land
  <2>4. CASE (Land(req) /\ ~Current(req)) \/ Vanish(req)
    BY <1>2, <2>4 DEF Land, Vanish
  <2> QED BY <2>1, <2>3, <2>4
<1>13. CASE Crash
  BY <1>1, <1>13 DEF Crash
<1> QED BY <1>3, <1>4, <1>5, <1>6, <1>7, <1>8, <1>9, <1>10, <1>11, <1>12, <1>13
        DEF Next, Open, Submit, Index, Flush

\* Stored batches are not changed.
LEMMA BatchesStay ==
  ASSUME Inductive, TypeOK', Stays \/ Puts \/ Commits
  PROVE  /\ Len(batches) <= Len(batches')
         /\ \A n \in 1..Len(batches) : batches'[n] = batches[n]
         /\ \A n \in 0..Len(batches) : /\ OpsOf(n)' = OpsOf(n)
                                       /\ ChangesOf(n)' = ChangesOf(n)
<1>1. batches \in Seq(Batch) /\ batches' \in Seq(Batch) /\ NextBatch \in Batch
  BY NextBatchType DEF Inductive, TypeOK, StoreTypeOK
<1>2. batches' = batches \/ batches' = Append(batches, NextBatch)
  BY DEF Stays, Puts, Commits, PutBatch
<1>3. Len(batches) <= Len(batches') /\ \A n \in 1..Len(batches) : batches'[n] = batches[n]
  BY <1>1, <1>2
<1> QED BY <1>1, <1>3, StoredStays

-----------------------------------------------------------------------------
(***************************************************************************)
(* BatchesSound, RoomDocument and HeadDocument, step by step.              *)
(***************************************************************************)
LEMMA TypeFacts ==
  ASSUME Inductive
  PROVE  /\ batches \in Seq(Batch) /\ log \in Seq(Nat)
         /\ doc \in Seq(Operation) /\ pending \in Seq(Operation)
         /\ \A n \in 0..Len(batches) : /\ OpsOf(n) \in Seq(Operation)
                                       /\ ChangesOf(n) \in Seq(Operation)
<1>1. pending \in Seq(Operation)
  BY SeqMonotonic DEF Inductive, TypeOK, RoomTypeOK, Operation
<1> QED BY <1>1, StoredType DEF Inductive, TypeOK, StoreTypeOK, RoomTypeOK

LEMMA HeadIsStored ==
  ASSUME Inductive
  PROVE  /\ head.batch \in 0..Len(batches)
         /\ task.head.batch \in 0..Len(batches)
         /\ open => rhead.batch \in 0..Len(batches)
<1>1. head.batch \in 0..Len(batches) /\ task.head.batch \in 0..Len(batches)
  BY HeadStored DEF Inductive
<1>2. \A k \in 1..Len(log) : log[k] \in 0..Len(batches)
  BY HeadStored DEF Inductive
<1>3. ASSUME open PROVE rhead.batch \in 0..Len(batches)
  <2>1. rhead.seq \in 0..Len(log) /\ rhead.batch = NameOf(rhead.seq)
    BY <1>3 DEF Inductive, RoomSound
  <2>2. Len(log) \in Nat /\ Len(batches) \in Nat
    BY TypeFacts
  <2>3. rhead.seq = 0 \/ rhead.seq \in 1..Len(log)
    BY <2>1, <2>2
  <2> QED BY <1>2, <2>1, <2>2, <2>3 DEF NameOf, NoBatch
<1> QED BY <1>1, <1>3

\* The batch that a flush writes holds the document of the room.
LEMMA NewBatchSound ==
  ASSUME Inductive, RoomDocument, At("flush", "put")
  PROVE  /\ NextBatch.parent \in 0..Len(batches)
         /\ NextBatch.changes = ChangesOf(NextBatch.parent) \o NextBatch.ops
<1>1. open /\ rhead = Known(task.head)
  BY DEF At, Inductive, TaskSound
<1>2. rhead.batch = task.head.batch
  BY <1>1 DEF Known
<1> QED BY <1>1, <1>2, HeadIsStored DEF RoomDocument, NextBatch

LEMMA BatchesStep ==
  ASSUME Inductive, TypeOK', BatchesSound, RoomDocument, Stays \/ Puts \/ Commits
  PROVE  BatchesSound'
<1>1. /\ Len(batches) \in Nat /\ Len(batches') \in Nat
      /\ Len(batches) <= Len(batches')
      /\ \A n \in 1..Len(batches) : batches'[n] = batches[n]
      /\ \A n \in 0..Len(batches) : OpsOf(n)' = OpsOf(n) /\ ChangesOf(n)' = ChangesOf(n)
  BY TypeFacts, BatchesStay DEF TypeOK, StoreTypeOK
<1> SUFFICES ASSUME NEW n \in 1..Len(batches')
             PROVE  /\ batches'[n].parent \in 0..Len(batches')
                    /\ ChangesOf(n)' = ChangesOf(batches[n].parent)' \o OpsOf(n)'
  BY DEF BatchesSound
<1>2. CASE n \in 1..Len(batches)
  <2>1. PICK p \in 0..Len(batches) :
          p = batches[n].parent /\ ChangesOf(n) = ChangesOf(p) \o OpsOf(n)
    BY <1>2 DEF BatchesSound
  <2>2. batches'[n].parent = p /\ n \in 0..Len(batches) /\ p \in 0..Len(batches')
    BY <1>1, <1>2, <2>1
  <2>3. ChangesOf(batches[n].parent)' = ChangesOf(p)'
    BY <2>2 DEF ChangesOf
  <2> QED BY <1>1, <2>1, <2>2, <2>3
<1>3. CASE n \notin 1..Len(batches)
  <2>1. Puts /\ batches' = Append(batches, NextBatch)
    BY <1>3 DEF Stays, Puts, Commits, PutBatch
  <2>2. n = Len(batches) + 1 /\ batches'[n] = NextBatch
    <3>1. batches \in Seq(Batch)
      BY TypeFacts
    <3> QED BY <1>3, <2>1, <3>1
  <2>3. PICK p \in 0..Len(batches) :
          p = NextBatch.parent /\ NextBatch.changes = ChangesOf(p) \o NextBatch.ops
    BY <2>1, NewBatchSound DEF Puts
  <2>4. OpsOf(n)' = NextBatch.ops /\ ChangesOf(n)' = NextBatch.changes
    BY <1>1, <2>2 DEF OpsOf, ChangesOf, NoBatch
  <2>5. batches'[n].parent = p /\ p \in 0..Len(batches')
    BY <1>1, <2>2, <2>3
  <2>6. ChangesOf(batches[n].parent)' = ChangesOf(p)'
    BY <2>5 DEF ChangesOf
  <2> QED BY <1>1, <2>3, <2>4, <2>5, <2>6
<1> QED BY <1>2, <1>3

-----------------------------------------------------------------------------
\* The document of the batch that the room knows of after a step.
LEMMA KnownDocument ==
  ASSUME Inductive, TypeOK', Stays \/ Puts \/ Commits,
         NEW b \in 0..Len(batches), rhead'.batch = b
  PROVE  ChangesOf(rhead.batch)' = ChangesOf(b)
<1>1. ChangesOf(rhead.batch)' = ChangesOf(b)'
  BY DEF ChangesOf
<1> QED BY <1>1, BatchesStay

LEMMA SameRoomDocument ==
  ASSUME Inductive, TypeOK', Stays \/ Puts \/ Commits, RoomDocument,
         ~open' \/ UNCHANGED <<open, rhead, doc, pending>>
  PROVE  RoomDocument'
<1> SUFFICES ASSUME open' PROVE doc' = ChangesOf(rhead.batch)' \o pending'
  BY DEF RoomDocument
<1>1. PICK b \in 0..Len(batches) : b = rhead.batch
  BY HeadIsStored
<1>2. ChangesOf(rhead.batch)' = ChangesOf(rhead.batch)
  BY <1>1, KnownDocument
<1> QED BY <1>2 DEF RoomDocument

\* A recovered commit takes its operations from the queue to the known batch.
LEMMA RecoveredDocument ==
  ASSUME Inductive, BatchesSound, RoomDocument, open, OwnCommit(task.head)
  PROVE  doc = ChangesOf(task.head.batch) \o Completed(task.head)
<1> DEFINE b    == task.head.batch
           ops  == OpsOf(b)
           rest == Completed(task.head)
           old  == ChangesOf(rhead.batch)
<1>1. b \in 1..Len(batches) /\ batches[b].parent = rhead.batch
  BY HeadIsStored, TypeFacts DEF OwnCommit, NoBatch
<1>2. ChangesOf(b) = old \o ops
  BY <1>1 DEF BatchesSound
<1>3. ops \in Seq(Operation) /\ old \in Seq(Operation) /\ pending \in Seq(Operation)
  BY <1>1, HeadIsStored, TypeFacts
<1>4. Len(ops) \in 1..Len(pending) /\ \A i \in 1..Len(ops) : ops[i] = pending[i]
  BY DEF OwnCommit
<1>5. rest = SubSeq(pending, Len(ops) + 1, Len(pending))
  BY DEF Completed
<1> HIDE DEF b, ops, rest, old
<1>6. ops = SubSeq(pending, 1, Len(ops))
  <2>1. Len(pending) \in Nat /\ Len(ops) \in Nat
    BY <1>3
  <2>2. /\ SubSeq(pending, 1, Len(ops)) \in Seq(Operation)
        /\ Len(SubSeq(pending, 1, Len(ops))) = Len(ops)
        /\ \A i \in 1..Len(ops) : SubSeq(pending, 1, Len(ops))[i] = pending[i]
    BY <1>3, <1>4, <2>1
  <2> QED BY <1>3, <1>4, <2>2, SeqEqual
<1>7. pending = ops \o rest /\ rest \in Seq(Operation)
  <2>1. Len(pending) \in Nat /\ Len(ops) \in Nat
    BY <1>3
  <2>2. SubSeq(pending, 1, Len(ops)) \o SubSeq(pending, Len(ops) + 1, Len(pending))
          = SubSeq(pending, 1, Len(pending))
    BY <1>3, <1>4, <2>1, ConcatAdjacentSubSeq
  <2>3. SubSeq(pending, 1, Len(pending)) = pending
    BY <1>3, SubSeqFull
  <2>4. rest \in Seq(Operation)
    BY <1>3, <1>4, <1>5, <2>1
  <2> QED BY <1>5, <1>6, <2>2, <2>3, <2>4
<1>8. doc = old \o pending
  BY DEF RoomDocument, old
<1>9. (old \o ops) \o rest = old \o (ops \o rest)
  BY <1>3, <1>7, ConcatAssociative, SMTT(20)
<1> QED BY <1>2, <1>7, <1>8, <1>9 DEF b, rest

LEMMA AppliedDocument ==
  ASSUME Inductive, TypeOK', Stays, RoomDocument, SubmitApplied
  PROVE  RoomDocument'
<1> DEFINE old == ChangesOf(rhead.batch)
<1>1. open /\ task.edit \in Operation
  BY DEF SubmitApplied, Deciding, At, Inductive, TaskSound, Operation
<1>2. PICK b \in 0..Len(batches) : b = rhead.batch
  BY <1>1, HeadIsStored
<1>3. old' = old
  <2>1. rhead' = rhead
    BY DEF SubmitApplied
  <2> QED BY <1>2, <2>1, KnownDocument
<1>4. old \in Seq(Operation) /\ pending \in Seq(Operation) /\ doc = old \o pending
  BY <1>1, <1>2, TypeFacts DEF RoomDocument
<1>5. doc' = Append(doc, task.edit) /\ pending' = Append(pending, task.edit)
  BY DEF SubmitApplied
<1> HIDE DEF old
<1>6. Append(old \o pending, task.edit) = old \o Append(pending, task.edit)
  <2> DEFINE e == <<task.edit>>
  <2>1. e \in Seq(Operation) /\ old \o pending \in Seq(Operation)
    BY <1>1, <1>4
  <2>2. Append(old \o pending, task.edit) = (old \o pending) \o e
    BY <1>1, <2>1, AppendIsConcat
  <2>3. Append(pending, task.edit) = pending \o e
    BY <1>1, <1>4, AppendIsConcat
  <2> HIDE DEF e
  <2>4. (old \o pending) \o e = old \o (pending \o e)
    BY <1>4, <2>1, ConcatAssociative, SMTT(20)
  <2> QED BY <2>2, <2>3, <2>4
<1>7. doc' = old' \o pending'
  BY <1>3, <1>4, <1>5, <1>6
<1> QED BY <1>7 DEF RoomDocument, old

\* The room knows a stored batch, and its document is that batch's and the queue.
LEMMA NewRoomDocument ==
  ASSUME Inductive, TypeOK', Stays \/ Puts \/ Commits,
         NEW b \in 0..Len(batches), rhead'.batch = b, doc' = ChangesOf(b) \o pending'
  PROVE  RoomDocument'
BY KnownDocument DEF RoomDocument

LEMMA OpenDocument ==
  ASSUME Inductive, TypeOK', Stays, OpenDone
  PROVE  RoomDocument'
<1>1. PICK b \in 0..Len(batches) : b = task.head.batch
  BY HeadIsStored
<1>2. rhead'.batch = b /\ doc' = ChangesOf(b) /\ pending' = <<>>
  BY <1>1 DEF OpenDone
<1>3. doc' = ChangesOf(b) \o pending'
  BY <1>2, TypeFacts, ConcatEmptySeq
<1> QED BY <1>2, <1>3, NewRoomDocument

LEMMA RecoversDocument ==
  ASSUME Inductive, TypeOK', Stays, BatchesSound, RoomDocument, open,
         OwnCommit(task.head), pending' = Completed(task.head),
         rhead' = Known(task.head), doc' = doc
  PROVE  RoomDocument'
<1>1. PICK b \in 0..Len(batches) : b = task.head.batch
  BY HeadIsStored
<1>2. rhead'.batch = b
  BY <1>1 DEF Known
<1>3. doc' = ChangesOf(b) \o pending'
  BY <1>1, RecoveredDocument
<1> QED BY <1>2, <1>3, NewRoomDocument

LEMMA CommitDocument ==
  ASSUME Inductive, TypeOK', Stays \/ Puts \/ Commits, RoomDocument, FlushCommit
  PROVE  RoomDocument'
<1>1. CASE Subscribers = {}
  <2>1. EvictIdle(peer, <<>>) /\ \A a \in Account : peer[a] # "joined"
    BY <1>1 DEF FlushCommit, Subscribers
  <2>2. ~open'
    BY <2>1 DEF EvictIdle
  <2> QED BY <2>2, SameRoomDocument
<1>2. CASE Subscribers # {}
  <2>1. task.cursor \in 1..Len(batches) /\ batches[task.cursor] = NextBatch
    BY DEF FlushCommit, At, Inductive, TaskSound
  <2>2. PICK b \in 1..Len(batches) : b = task.cursor
    BY <2>1
  <2>3. ChangesOf(b) = doc
    BY <2>1, <2>2 DEF ChangesOf, NoBatch, NextBatch
  <2>4. Request.batch = b
    BY <2>2, CommitRequest DEF FlushCommit, At, Inductive
  <2>5. rhead'.batch = b /\ doc' = doc /\ pending' = <<>>
    BY <1>2, <2>4 DEF FlushCommit, Known
  <2>6. b \in 0..Len(batches)
    BY TypeFacts
  <2>7. doc' = ChangesOf(b) \o pending'
    BY <2>3, <2>5, TypeFacts, ConcatEmptySeq
  <2> QED BY <2>5, <2>6, <2>7, NewRoomDocument
<1> QED BY <1>1, <1>2

LEMMA RoomDocumentStep ==
  ASSUME Inductive, TypeOK', BatchesSound, RoomDocument, [Next]_vars
  PROVE  RoomDocument'
<1>0. Stays \/ Puts \/ Commits
  BY StoreSteps
<1>1. CASE ~open' \/ UNCHANGED <<open, rhead, doc, pending>>
  BY <1>0, <1>1, SameRoomDocument
<1>2. CASE OpenDone
  BY <1>2, OpenDocument DEF OpenDone, storeVars, Stays
<1>3. CASE SubmitRecovers
  <2>1. open /\ Stays
    BY <1>3 DEF SubmitRecovers, At, Inductive, TaskSound, storeVars, Stays
  <2> QED BY <1>3, <2>1, RecoversDocument DEF SubmitRecovers
<1>4. CASE SubmitApplied
  BY <1>4, AppliedDocument DEF SubmitApplied, storeVars, Stays
<1>5. CASE FlushRecovers
  <2>1. open /\ Stays
    BY <1>5 DEF FlushRecovers, At, Inductive, TaskSound, storeVars, Stays
  <2>2. CASE pending' = <<>> /\ Subscribers = {}
    <3>1. EvictIdle(peer, <<>>) /\ \A a \in Account : peer[a] # "joined"
      BY <1>5, <2>2 DEF FlushRecovers, Subscribers
    <3> QED BY <1>1, <3>1 DEF EvictIdle
  <2>3. CASE ~(pending' = <<>> /\ Subscribers = {})
    <3>1. rhead' = Known(task.head) /\ doc' = doc
      BY <1>5, <2>3 DEF FlushRecovers
    <3> QED BY <1>5, <2>1, <3>1, RecoversDocument DEF FlushRecovers
  <2> QED BY <2>2, <2>3
<1>6. CASE FlushCommit
  BY <1>0, <1>6, CommitDocument
<1>7. CASE \E a \in Account : Leave(a)
  <2>1. PICK a \in Account : Leave(a)
    BY <1>7
  <2>2. pending' = pending /\ (~open' \/ UNCHANGED <<open, rhead, doc>>)
    BY <2>1 DEF Leave, EvictIdle
  <2> QED BY <1>1, <2>2
<1>8. CASE \E a \in Account : \/ OpenExisting(a) \/ OpenLoad(a) \/ Subscribe(a)
                              \/ SubmitAstray(a) \/ \E e \in Edit : SubmitLoad(a, e)
  BY <1>1, <1>8 DEF OpenExisting, OpenLoad, Subscribe, SubmitAstray, SubmitLoad, roomVars
<1>9. CASE SubmitRefused \/ SubmitDuplicate \/ SubmitRejected
  BY <1>1, <1>9 DEF SubmitRefused, SubmitDuplicate, SubmitRejected, roomVars
<1>10. CASE Abandon
  BY <1>1, <1>10 DEF Abandon
<1>11. CASE IndexFails \/ HeadConflict \/ HeadAmbiguous \/ StoreFails \/ FlushStuck
  BY <1>10, <1>11 DEF IndexFails, HeadConflict, HeadAmbiguous, StoreFails, FlushStuck
<1>12. CASE IndexBatch \/ IndexDone \/ MarkIndexed \/ Promote
  BY <1>1, <1>12 DEF IndexBatch, IndexDone, MarkIndexed, Promote, roomVars
<1>13. CASE FlushNothing \/ FlushLoad \/ FlushProceeds
  BY <1>1, <1>13 DEF FlushNothing, FlushLoad, FlushProceeds, roomVars
<1>14. CASE FlushPut
  BY <1>1, <1>10, <1>14 DEF FlushPut, roomVars
<1>15. CASE ChangeAccess \/ LateWrite \/ UNCHANGED vars
  BY <1>1, <1>15 DEF ChangeAccess, LateWrite, vars, roomVars
<1>16. CASE Crash
  BY <1>1, <1>16 DEF Crash
<1> QED BY <1>2, <1>3, <1>4, <1>5, <1>6, <1>7, <1>8, <1>9, <1>11, <1>12, <1>13, <1>14,
           <1>15, <1>16 DEF Next, Open, Submit, Index, Flush

-----------------------------------------------------------------------------
\* The committed batches keep their operations, and stay used.
LEMMA LoggedStays ==
  ASSUME Inductive, TypeOK', Stays \/ Puts \/ Commits,
         NEW i \in 1..Len(log), log'[i] = log[i]
  PROVE  OpsOf(log[i])' = OpsOf(log[i])
<1>1. PICK n \in 0..Len(batches) : n = log[i]
  BY HeadStored DEF Inductive
<1>2. OpsOf(log[i])' = OpsOf(n)'
  BY <1>1 DEF OpsOf
<1> QED BY <1>1, <1>2, BatchesStay

LEMMA StillUsed ==
  ASSUME Inductive, TypeOK', Stays \/ Puts \/ Commits,
         NEW id, UsedUpTo(id, Len(log)),
         Len(log) <= Len(log'), \A i \in 1..Len(log) : log'[i] = log[i]
  PROVE  UsedUpTo(id, Len(log))'
<1>1. PICK i \in 1..Len(log) : OccursIn(id, log[i])
  BY DEF UsedUpTo
<1>2. PICK m \in 1..Len(OpsOf(log[i])) : OpsOf(log[i])[m].id = id
  BY <1>1 DEF OccursIn
<1>3. OpsOf(log[i])' = OpsOf(log[i])
  BY LoggedStays
<1>4. Len(log) \in Nat /\ Len(log') \in Nat
  BY DEF Inductive, TypeOK, StoreTypeOK
<1>5. i \in 1..Len(log')
  BY <1>4
<1>6. \E k \in 1..Len(OpsOf(log[i])') : OpsOf(log[i])'[k].id = id
  BY <1>2, <1>3
<1>7. OccursIn(id, log[i])'
  BY <1>6 DEF OccursIn
<1> QED BY <1>5, <1>7 DEF UsedUpTo

\* The document of the head after a commit.
LEMMA CommittedDocument ==
  ASSUME Inductive, TypeOK', BatchesSound,
         NEW req \in HeadDoc, SoundCommit(req), Install(req), UNCHANGED batches
  PROVE  /\ req.batch \in 1..Len(batches)
         /\ ChangesOf(head.batch)' = ChangesOf(head.batch) \o OpsOf(req.batch)
<1>1. PICK b \in 1..Len(batches) : b = req.batch
  BY DEF SoundCommit
<1>2. batches[b].parent = head.batch
  BY <1>1 DEF SoundCommit
<1>3. ChangesOf(b) = ChangesOf(head.batch) \o OpsOf(b)
  BY <1>1, <1>2 DEF BatchesSound
<1>4. head'.batch = b
  BY <1>1, StampedFields DEF Inductive
<1>5. ChangesOf(head.batch)' = ChangesOf(b)
  BY <1>4 DEF ChangesOf
<1> QED BY <1>1, <1>3, <1>5

LEMMA SameHeadDocument ==
  ASSUME Inductive, TypeOK', HeadDocument, Stays \/ Puts
  PROVE  ChangesOf(head.batch)' = ChangesOf(head.batch) /\ HeadDocument'
<1>1. log' = log /\ head'.batch = head.batch
  BY DEF Stays, Puts
<1>2. ChangesOf(head.batch)' = ChangesOf(head.batch)
  <2>1. PICK b \in 0..Len(batches) : b = head.batch
    BY HeadIsStored
  <2>2. ChangesOf(head.batch)' = ChangesOf(b)'
    BY <1>1, <2>1 DEF ChangesOf
  <2> QED BY <2>1, <2>2, BatchesStay
<1> DEFINE whole == ChangesOf(head.batch)
<1>3. whole' = whole
  BY <1>2
<1>4. ASSUME NEW k \in 1..Len(whole)
      PROVE  UsedUpTo(whole[k].id, Len(log))'
  <2>1. PICK id : id = whole[k].id
    OBVIOUS
  <2>2. UsedUpTo(id, Len(log))
    BY <2>1 DEF HeadDocument
  <2>3. UsedUpTo(id, Len(log))'
    BY <1>1, <2>2, StillUsed DEF Inductive, TypeOK, StoreTypeOK
  <2> QED BY <1>3, <2>1, <2>3
<1>5. ASSUME NEW i \in 1..Len(log)
      PROVE  OpsOf(log[i])' = OpsOf(log[i])
  BY <1>1, LoggedStays
<1>6. NoRepeat(whole)'
  BY <1>3 DEF HeadDocument, NoRepeat
<1>7. \A k \in 1..Len(whole') : UsedUpTo(whole[k].id, Len(log))'
  BY <1>3, <1>4
<1>8. \A i \in 1..Len(log') : \A m \in 1..Len(OpsOf(log[i])') :
        \E k \in 1..Len(whole') : whole'[k] = OpsOf(log[i])'[m]
  BY <1>1, <1>3, <1>5 DEF HeadDocument
<1> QED BY <1>2, <1>6, <1>7, <1>8 DEF HeadDocument

\* Two sequences without repetition and without a common identifier.
LEMMA ConcatNoRepeat ==
  ASSUME NEW S, NEW s \in Seq(S), NEW t \in Seq(S), NoRepeat(s), NoRepeat(t),
         \A i \in 1..Len(s), j \in 1..Len(t) : s[i].id # t[j].id
  PROVE  NoRepeat(s \o t)
<1> DEFINE u == s \o t
<1>1. /\ Len(s) \in Nat /\ Len(t) \in Nat /\ Len(u) = Len(s) + Len(t)
      /\ \A i \in 1..Len(u) : u[i] = IF i <= Len(s) THEN s[i] ELSE t[i - Len(s)]
  BY ConcatProperties
<1> HIDE DEF u
<1>2. SUFFICES ASSUME NEW i \in 1..Len(u), NEW j \in 1..Len(u), u[i].id = u[j].id
               PROVE  i = j
  BY DEF NoRepeat, u
<1>3. CASE i <= Len(s) /\ j <= Len(s)
  BY <1>1, <1>2, <1>3 DEF NoRepeat
<1>4. CASE i > Len(s) /\ j > Len(s)
  <2> DEFINE p == i - Len(s)
             q == j - Len(s)
  <2>1. p \in 1..Len(t) /\ q \in 1..Len(t) /\ u[i] = t[p] /\ u[j] = t[q]
    BY <1>1, <1>4
  <2>2. p = q => i = j
    BY <1>1
  <2> HIDE DEF p, q
  <2> QED BY <1>2, <2>1, <2>2 DEF NoRepeat
<1>5. CASE i <= Len(s) /\ j > Len(s)
  <2> DEFINE q == j - Len(s)
  <2>1. i \in 1..Len(s) /\ q \in 1..Len(t) /\ u[i] = s[i] /\ u[j] = t[q]
    BY <1>1, <1>5
  <2> HIDE DEF q
  <2> QED BY <1>2, <2>1
<1>6. CASE i > Len(s) /\ j <= Len(s)
  <2> DEFINE p == i - Len(s)
  <2>1. j \in 1..Len(s) /\ p \in 1..Len(t) /\ u[j] = s[j] /\ u[i] = t[p]
    BY <1>1, <1>6
  <2> HIDE DEF p
  <2> QED BY <1>2, <2>1
<1>7. Len(s) \in Int /\ i \in Int /\ j \in Int
  BY <1>1
<1> QED BY <1>3, <1>4, <1>5, <1>6, <1>7

LEMMA CommitHeadDocument ==
  ASSUME Inductive, TypeOK', BatchesSound, HeadDocument, Commits
  PROVE  HeadDocument'
<1>1. PICK req \in HeadDoc : SoundCommit(req) /\ Install(req) /\ UNCHANGED batches
  BY DEF Commits
<1>2. PICK b \in 1..Len(batches) : b = req.batch
  BY <1>1 DEF SoundCommit
<1> DEFINE whole == ChangesOf(head.batch)
           ops   == OpsOf(b)
           n     == Len(log)
<1>3. whole' = whole \o ops /\ ops' = ops
  <2>1. whole' = whole \o ops
    BY <1>1, <1>2, CommittedDocument
  <2> QED BY <1>1, <2>1 DEF OpsOf
<1>4. whole \in Seq(Operation) /\ ops \in Seq(Operation) /\ Len(batches) \in Nat
  BY HeadIsStored, TypeFacts
<1>5. /\ n \in Nat /\ Len(log') = n + 1
      /\ \A i \in 1..n : log'[i] = log[i]
      /\ log'[n + 1] = b
  BY <1>1, <1>2, CommitAppends DEF Inductive, TypeOK, StoreTypeOK
<1>6. NoRepeat(ops) /\ \A m \in 1..Len(ops) : ~UsedUpTo(ops[m].id, n)
  BY <1>1, <1>2 DEF SoundCommit
<1>7. NoRepeat(whole) /\ \A k \in 1..Len(whole) : UsedUpTo(whole[k].id, n)
  BY DEF HeadDocument
<1>8. \A i \in 1..n : OpsOf(log[i])' = OpsOf(log[i])
  BY <1>1, <1>5, LoggedStays DEF Commits
<1>9. /\ Len(whole) \in Nat /\ Len(ops) \in Nat /\ Len(whole') = Len(whole) + Len(ops)
      /\ \A k \in 1..Len(whole') :
           whole'[k] = IF k <= Len(whole) THEN whole[k] ELSE ops[k - Len(whole)]
  BY <1>3, <1>4, ConcatProperties
<1>10. ASSUME NEW i \in 1..Len(log'), i \notin 1..n PROVE OpsOf(log[i])' = ops
  <2>1. log'[i] = b
    BY <1>5, <1>10
  <2>2. OpsOf(log[i])' = ops'
    BY <2>1 DEF OpsOf
  <2> QED BY <1>3, <2>2
<1>11. NoRepeat(whole)'
  <2>1. \A i \in 1..Len(whole), j \in 1..Len(ops) : whole[i].id # ops[j].id
    BY <1>6, <1>7
  <2>2. NoRepeat(whole \o ops)
    BY <1>4, <1>6, <1>7, <2>1, ConcatNoRepeat
  <2> QED BY <1>3, <2>2 DEF NoRepeat
<1>12. ASSUME NEW k \in 1..Len(whole') PROVE UsedUpTo(whole[k].id, Len(log))'
  <2>1. PICK id : id = whole'[k].id
    OBVIOUS
  <2>2. CASE k <= Len(whole)
    <3>1. k \in 1..Len(whole) /\ whole'[k] = whole[k]
      BY <1>9, <2>2
    <3>2. UsedUpTo(id, n)
      BY <1>7, <2>1, <3>1
    <3>3. UsedUpTo(id, Len(log))'
      BY <1>1, <1>5, <3>2, StillUsed DEF Commits
    <3> QED BY <2>1, <3>3
  <2>3. CASE k > Len(whole)
    <3> DEFINE m == k - Len(whole)
    <3>1. m \in 1..Len(ops) /\ whole'[k] = ops[m]
      BY <1>9, <2>3
    <3> HIDE DEF m, whole, ops
    <3>2. \E j \in 1..Len(ops) : ops[j].id = id
      BY <2>1, <3>1
    <3>3. OccursIn(id, b)'
      BY <1>3, <3>2 DEF OccursIn, ops
    <3>4. log'[Len(log')] = b /\ Len(log') \in 1..Len(log')
      BY <1>5
    <3>5. \E i \in 1..Len(log') : log'[i] = b
      BY <3>4
    <3>6. UsedUpTo(id, Len(log))'
      BY <3>3, <3>5 DEF UsedUpTo, OccursIn, OpsOf
    <3> QED BY <2>1, <3>6 DEF whole
  <2>4. k \in Int /\ Len(whole) \in Int
    BY <1>9
  <2> QED BY <2>2, <2>3, <2>4
<1>13. ASSUME NEW i \in 1..Len(log'), NEW m \in 1..Len(OpsOf(log[i])')
       PROVE  \E k \in 1..Len(whole') : whole'[k] = OpsOf(log[i])'[m]
  <2>1. CASE i \in 1..n
    <3>1. OpsOf(log[i])' = OpsOf(log[i])
      BY <1>8, <2>1
    <3>2. PICK k \in 1..Len(whole) : whole[k] = OpsOf(log[i])[m]
      BY <2>1, <3>1 DEF HeadDocument
    <3>3. k \in 1..Len(whole') /\ whole'[k] = whole[k]
      BY <1>9
    <3> QED BY <3>1, <3>2, <3>3
  <2>2. CASE i \notin 1..n
    <3>1. OpsOf(log[i])' = ops
      BY <1>10, <2>2
    <3> DEFINE k == Len(whole) + m
    <3>2. k \in 1..Len(whole') /\ whole'[k] = ops[m]
      BY <1>9, <3>1
    <3> QED BY <3>1, <3>2
  <2> QED BY <2>1, <2>2
<1> QED BY <1>11, <1>12, <1>13 DEF HeadDocument

-----------------------------------------------------------------------------
LEMMA DocumentStep ==
  ASSUME Inductive, TypeOK', DocumentSound, [Next]_vars
  PROVE  DocumentSound'
<1>1. Stays \/ Puts \/ Commits
  BY StoreSteps
<1>2. BatchesSound'
  BY <1>1, BatchesStep DEF DocumentSound
<1>3. RoomDocument'
  BY RoomDocumentStep DEF DocumentSound
<1>4. HeadDocument'
  BY <1>1, SameHeadDocument, CommitHeadDocument DEF DocumentSound
<1> QED BY <1>2, <1>3, <1>4 DEF DocumentSound

\* The batches of a map that older servers wrote.
LEMMA LegacyDocuments ==
  ASSUME LegacyAssumption, InitStore
  PROVE  /\ Legacy \in Seq(Operation)
         /\ \A i \in 0..Len(Legacy) : ChangesOf(i) = SubSeq(Legacy, 1, i)
<1>1. Legacy \in Seq(Operation) /\ Len(Legacy) \in Nat
  <2>1. Legacy \in [1..Len(Legacy) -> Operation] /\ Len(Legacy) \in Nat
    BY DEF LegacyAssumption, Operation
  <2> QED BY <2>1
<1>2. ASSUME NEW i \in 1..Len(Legacy) PROVE ChangesOf(i) = SubSeq(Legacy, 1, i)
  <2>1. i # 0
    BY <1>1
  <2>2. batches[i].changes = SubSeq(Legacy, 1, i)
    BY <1>1 DEF InitStore
  <2> QED BY <2>1, <2>2 DEF ChangesOf, NoBatch
<1>3. ChangesOf(0) = SubSeq(Legacy, 1, 0)
  <2>1. SubSeq(Legacy, 1, 0) = <<>>
    BY SubSeqEmpty
  <2> QED BY <2>1 DEF ChangesOf, NoBatch
<1>4. \A i \in 0..Len(Legacy) : i = 0 \/ i \in 1..Len(Legacy)
  BY <1>1
<1> QED BY <1>1, <1>2, <1>3, <1>4

LEMMA DocumentInit ==
  ASSUME LegacyAssumption, Init
  PROVE  DocumentSound /\ ChangesOf(head.batch) = Legacy
<1> DEFINE n == Len(Legacy)
<1>1. /\ n \in Nat /\ Len(batches) = n /\ Len(log) = n
      /\ \A i \in 1..n : /\ log[i] = i /\ batches[i].parent = i - 1
                         /\ OpsOf(i) = <<Legacy[i]>>
  BY LegacyBatches DEF Init
<1>2. /\ Legacy \in Seq(Operation)
      /\ \A i \in 0..n : ChangesOf(i) = SubSeq(Legacy, 1, i)
  BY LegacyDocuments DEF Init
<1>3. ChangesOf(head.batch) = Legacy
  <2>1. head.batch = n
    BY DEF Init, InitStore
  <2>2. SubSeq(Legacy, 1, n) = Legacy
    BY <1>2, SubSeqFull
  <2> QED BY <1>1, <1>2, <2>1, <2>2
<1>4. BatchesSound
  <2> SUFFICES ASSUME NEW i \in 1..n
               PROVE  /\ batches[i].parent \in 0..n
                      /\ ChangesOf(i) = ChangesOf(batches[i].parent) \o OpsOf(i)
    BY <1>1 DEF BatchesSound
  <2>1. i - 1 \in 0..n /\ i \in 0..n
    BY <1>1
  <2>2. batches[i].parent = i - 1 /\ OpsOf(i) = <<Legacy[i]>>
    BY <1>1
  <2>3. SubSeq(Legacy, 1, i) = SubSeq(Legacy, 1, i - 1) \o <<Legacy[i]>>
    <3>1. 1 \in 1..n /\ i \in 1..n
      BY <1>1
    <3> QED BY <1>2, <3>1, SubSeqRecursiveSecond
  <2> QED BY <1>2, <2>1, <2>2, <2>3
<1>5. HeadDocument
  <2>1. NoRepeat(Legacy)
    BY DEF LegacyAssumption, NoRepeat
  <2>2. ASSUME NEW k \in 1..n PROVE UsedUpTo(Legacy[k].id, n)
    <3>1. OpsOf(log[k]) = <<Legacy[k]>>
      BY <1>1
    <3>2. OccursIn(Legacy[k].id, log[k])
      BY <3>1 DEF OccursIn
    <3> QED BY <3>2 DEF UsedUpTo
  <2>3. ASSUME NEW i \in 1..n, NEW m \in 1..Len(OpsOf(log[i]))
        PROVE  \E k \in 1..n : Legacy[k] = OpsOf(log[i])[m]
    <3>1. OpsOf(log[i]) = <<Legacy[i]>>
      BY <1>1
    <3>2. m = 1
      BY <3>1
    <3> QED BY <3>1, <3>2
  <2> QED BY <1>1, <1>3, <2>1, <2>2, <2>3 DEF HeadDocument
<1>6. RoomDocument
  BY DEF Init, RoomDocument
<1> QED BY <1>3, <1>4, <1>5, <1>6 DEF DocumentSound

\* The documents of all batches, of the room and of the head, on every step.
THEOREM DocumentsInvariant == Spec => []DocumentSound
<1>1. Init => DocumentSound
  BY LegacyAssumption, DocumentInit
<1>2. Inductive /\ DocumentSound /\ [Next]_vars => DocumentSound'
  BY RoomAssumption, TypeStep, DocumentStep
<1> QED BY <1>1, <1>2, InductiveInvariant, PTL DEF Spec

\* Every batch of the history holds its parent's document with its operations
\* merged, nothing lost and nothing twice, and the room shows the document of
\* the batch it knows with its queue (flushLocked, recoverCommit, loadLive).
THEOREM DocumentsAreHistory == Spec => []DocumentIsHistory
<1>1. ASSUME Inductive, DocumentSound PROVE DocumentIsHistory
  <2>1. ASSUME NEW i \in 1..Len(log)
        PROVE  /\ batches[log[i]].parent = (IF i = 1 THEN NoBatch ELSE log[i - 1])
               /\ batches[log[i]].seq = i
               /\ ChangesOf(log[i]) = ChangesOf(batches[log[i]].parent) \o OpsOf(log[i])
    <3>1. /\ log[i] \in 1..Len(batches) /\ batches[log[i]].seq = i
          /\ batches[log[i]].parent = NameOf(i - 1)
      BY <1>1 DEF Inductive, Chain
    <3>2. i - 1 = 0 <=> i = 1
      BY <1>1, TypeFacts
    <3> QED BY <1>1, <3>1, <3>2 DEF NameOf, DocumentSound, BatchesSound
  <2> QED BY <1>1, <2>1 DEF DocumentIsHistory, DocumentSound, RoomDocument
<1> QED BY <1>1, InductiveInvariant, DocumentsInvariant, PTL

-----------------------------------------------------------------------------
(***************************************************************************)
(* The refinement of DurableLog.                                           *)
(***************************************************************************)
Whole == ChangesOf(head.batch)

Told == {[id |-> r.id, hash |-> r.hash] : r \in acked}

LEMMA AckedGrows ==
  ASSUME [Next]_vars
  PROVE  acked \subseteq acked'
<1>1. CASE UNCHANGED acked
  BY <1>1
<1>2. CASE SubmitRecovers \/ FlushRecovers \/ FlushCommit
  BY <1>2 DEF SubmitRecovers, FlushRecovers, FlushCommit, Announce
<1>3. CASE SubmitDuplicate
  <2>1. acked' = acked \/ \E r \in Receipted(task.edit.id) : acked' = Answer(r)
    BY <1>3 DEF SubmitDuplicate
  <2> QED BY <2>1 DEF Answer
<1>4. CASE UNCHANGED vars
  BY <1>1, <1>4 DEF vars
<1>5. CASE \E a \in Account : \/ OpenExisting(a) \/ OpenLoad(a) \/ Subscribe(a) \/ Leave(a)
                              \/ SubmitAstray(a) \/ \E e \in Edit : SubmitLoad(a, e)
  BY <1>1, <1>5 DEF OpenExisting, OpenLoad, Subscribe, Leave, SubmitAstray, SubmitLoad
<1>6. CASE OpenDone \/ SubmitRefused \/ SubmitRejected \/ SubmitApplied
  BY <1>1, <1>6 DEF OpenDone, SubmitRefused, SubmitRejected, SubmitApplied
<1>7. CASE Index \/ Promote \/ HeadConflict \/ HeadAmbiguous \/ StoreFails
  BY <1>1, <1>7 DEF Index, IndexBatch, IndexFails, IndexDone, MarkIndexed, Promote,
                    HeadConflict, HeadAmbiguous, StoreFails
<1>8. CASE FlushNothing \/ FlushLoad \/ FlushStuck \/ FlushProceeds \/ FlushPut
  BY <1>1, <1>8 DEF FlushNothing, FlushLoad, FlushStuck, FlushProceeds, FlushPut
<1>9. CASE ChangeAccess \/ LateWrite \/ Crash
  BY <1>1, <1>9 DEF ChangeAccess, LateWrite, Crash
<1> QED BY <1>2, <1>3, <1>4, <1>5, <1>6, <1>7, <1>8, <1>9 DEF Next, Open, Submit, Flush

\* Operations have an identifier and a hash, and nothing else.
LEMMA OperationFields ==
  ASSUME LegacyAssumption, NEW o \in Operation
  PROVE  o = [id |-> o.id, hash |-> o.hash]
<1>1. CASE o \in Edit
  BY <1>1 DEF Edit
<1>2. CASE o \notin Edit
  <2>1. PICK i \in 1..Len(Legacy) : o = Legacy[i]
    BY <1>2 DEF Operation
  <2>2. Legacy[i] \in [id : STRING, hash : STRING]
    BY ElementOfSeq DEF LegacyAssumption
  <2> QED BY <2>1, <2>2
<1> QED BY <1>1, <1>2

\* What a client was told is in the document of the head.
LEMMA ToldIsThere ==
  ASSUME LegacyAssumption, Inductive, DocumentSound
  PROVE  Told \subseteq {Whole[k] : k \in 1..Len(Whole)}
<1> SUFFICES ASSUME NEW r \in acked
             PROVE  \E k \in 1..Len(Whole) : Whole[k] = [id |-> r.id, hash |-> r.hash]
  BY DEF Told
<1>1. PICK i \in 1..Len(log) : r \in ReceiptsOf(log[i])
  BY DEF Inductive, AckedDurable, Committed
<1>2. PICK m \in 1..Len(OpsOf(log[i])) :
        r = [id |-> OpsOf(log[i])[m].id, hash |-> OpsOf(log[i])[m].hash,
             seq |-> batches[log[i]].seq]
  BY <1>1 DEF ReceiptsOf
<1>3. PICK o : o = OpsOf(log[i])[m]
  OBVIOUS
<1>4. r.id = o.id /\ r.hash = o.hash
  BY <1>2, <1>3
<1>5. o \in Operation
  <2>1. log[i] \in 0..Len(batches)
    BY HeadStored DEF Inductive
  <2>2. OpsOf(log[i]) \in Seq(Operation)
    BY <2>1, TypeFacts
  <2> QED BY <1>3, <2>2
<1>6. o = [id |-> r.id, hash |-> r.hash]
  BY <1>4, <1>5, OperationFields
<1>7. PICK k \in 1..Len(Whole) : Whole[k] = o
  BY <1>3 DEF DocumentSound, HeadDocument, Whole
<1> QED BY <1>6, <1>7

\* A commit extends the document of the head; every other step leaves it alone.
LEMMA WholeGrows ==
  ASSUME Inductive, TypeOK', DocumentSound, [Next]_vars
  PROVE  \E ops \in Seq(Operation) : Whole' = Whole \o ops
<1>1. Whole \in Seq(Operation)
  BY HeadIsStored, TypeFacts DEF Whole
<1>2. CASE Stays \/ Puts
  <2>1. Whole' = Whole
    BY <1>2, SameHeadDocument DEF DocumentSound, Whole
  <2>2. Whole \o <<>> = Whole /\ <<>> \in Seq(Operation)
    BY <1>1, ConcatEmptySeq
  <2> QED BY <2>1, <2>2
<1>3. CASE Commits
  <2>1. PICK req \in HeadDoc : SoundCommit(req) /\ Install(req) /\ UNCHANGED batches
    BY <1>3 DEF Commits
  <2>2. req.batch \in 1..Len(batches) /\ Whole' = Whole \o OpsOf(req.batch)
    BY <2>1, CommittedDocument DEF DocumentSound, Whole
  <2>3. req.batch \in 0..Len(batches)
    BY <2>2, TypeFacts
  <2> QED BY <2>2, <2>3, TypeFacts
<1> QED BY <1>2, <1>3, StoreSteps

LEMMA DurableStep ==
  ASSUME LegacyAssumption, RoomAssumption, Inductive, Inductive',
         DocumentSound, DocumentSound', [Next]_vars
  PROVE  Durable!Next
<1>1. PICK ops \in Seq(Operation) : Whole' = Whole \o ops
  BY WholeGrows DEF Inductive
<1>2. Whole \in Seq(Operation)
  BY HeadIsStored, TypeFacts DEF Whole
<1>3. /\ Len(Whole) \in Nat /\ Len(ops) \in Nat /\ Len(Whole') = Len(Whole) + Len(ops)
      /\ \A i \in 1..Len(Whole) : Whole'[i] = Whole[i]
  BY <1>1, <1>2, ConcatProperties
<1>4. Len(Whole') > Len(Whole) \/ Whole' = Whole
  <2>1. CASE ops = <<>>
    BY <1>1, <1>2, <2>1, ConcatEmptySeq
  <2>2. CASE ops # <<>>
    BY <1>3, <2>2
  <2> QED BY <2>1, <2>2
<1>5. SubSeq(Whole', 1, Len(Whole)) = Whole
  <2>1. Whole' \in Seq(Operation)
    BY <1>1, <1>2, ConcatProperties
  <2> DEFINE part == SubSeq(Whole', 1, Len(Whole))
  <2>2. part \in Seq(Operation) /\ Len(part) = Len(Whole)
        /\ \A i \in 1..Len(Whole) : part[i] = Whole'[i]
    BY <1>3, <2>1
  <2> HIDE DEF part
  <2>3. part = Whole
    BY <1>2, <1>3, <2>2, SeqEqual
  <2> QED BY <2>3 DEF part
<1>6. \A i, j \in 1..Len(Whole') : Whole'[i].id = Whole'[j].id => i = j
  BY DEF DocumentSound, HeadDocument, NoRepeat, Whole
<1>7. Told \subseteq Told'
  BY AckedGrows DEF Told
<1>8. Told' \subseteq {Whole'[i] : i \in 1..Len(Whole')}
  <2>1. (Told \subseteq {Whole[k] : k \in 1..Len(Whole)})'
    BY ToldIsThere, PTL
  <2> QED BY <2>1
<1> QED BY <1>4, <1>5, <1>6, <1>7, <1>8
        DEF Durable!Next, Durable!Commit, Durable!Tell, Durable!NoRepeats, Durable!Elements,
            Whole, Told

\* Whatever the room, the store and their failures do, the document of the
\* head is an append-only sequence without repetition, and clients are told of
\* its operations only: every step is a step of DurableLog, or none.
THEOREM DurableLogImplemented == Spec => ImplementsDurableLog
<1>1. Init => Durable!Init
  <2> SUFFICES ASSUME Init PROVE Durable!Init
    OBVIOUS
  <2>1. ChangesOf(head.batch) = Legacy
    BY LegacyAssumption, DocumentInit
  <2>2. acked = {}
    BY DEF Init
  <2> QED BY <2>1, <2>2 DEF Durable!Init
<1>2. Inductive /\ Inductive' /\ DocumentSound /\ DocumentSound' /\ [Next]_vars
        => [Durable!Next]_(Durable!dvars)
  BY LegacyAssumption, RoomAssumption, DurableStep
<1> QED BY <1>1, <1>2, InductiveInvariant, DocumentsInvariant, PTL
        DEF Spec, ImplementsDurableLog, Durable!Spec

-----------------------------------------------------------------------------
(***************************************************************************)
(* The room's queue of accepted edits: it always has a flush to come, and  *)
(* an edit leaves it by being announced as durable, or with the process.   *)
(***************************************************************************)
\* An operation of a stored batch has a receipt.
LEMMA OperationsReceipted ==
  ASSUME NEW n, NEW i \in 1..Len(OpsOf(n))
  PROVE  \E r \in ReceiptsOf(n) : r.id = OpsOf(n)[i].id /\ r.hash = OpsOf(n)[i].hash
<1> DEFINE r == [id |-> OpsOf(n)[i].id, hash |-> OpsOf(n)[i].hash, seq |-> batches[n].seq]
<1>1. r \in ReceiptsOf(n)
  BY DEF ReceiptsOf
<1>2. r.id = OpsOf(n)[i].id /\ r.hash = OpsOf(n)[i].hash
  OBVIOUS
<1> QED BY <1>1, <1>2

\* What a room that recovers a commit takes off its queue is what it announces.
LEMMA RecoveryTakesPrefix ==
  ASSUME TypeOK, OwnCommit(task.head)
  PROVE  \E k \in 1..Len(pending) :
           /\ Completed(task.head) = SubSeq(pending, k + 1, Len(pending))
           /\ \A i \in 1..k : \E r \in ReceiptsOf(task.head.batch) :
                r.id = pending[i].id /\ r.hash = pending[i].hash
<1> DEFINE ops == OpsOf(task.head.batch)
           k   == Len(ops)
<1>1. k \in 1..Len(pending) /\ \A i \in 1..k : ops[i] = pending[i]
  BY DEF OwnCommit
<1>2. Completed(task.head) = SubSeq(pending, k + 1, Len(pending))
  BY DEF Completed
<1>3. \A i \in 1..k : \E r \in ReceiptsOf(task.head.batch) :
        r.id = ops[i].id /\ r.hash = ops[i].hash
  BY OperationsReceipted
<1>4. \A i \in 1..k : \E r \in ReceiptsOf(task.head.batch) :
        r.id = pending[i].id /\ r.hash = pending[i].hash
  <2> SUFFICES ASSUME NEW i \in 1..k
               PROVE  \E r \in ReceiptsOf(task.head.batch) :
                        r.id = pending[i].id /\ r.hash = pending[i].hash
    OBVIOUS
  <2>1. ops[i] = pending[i]
    BY <1>1
  <2>2. PICK r \in ReceiptsOf(task.head.batch) : r.id = ops[i].id /\ r.hash = ops[i].hash
    BY <1>3
  <2> HIDE DEF ops, k
  <2> QED BY <2>1, <2>2
<1> HIDE DEF ops, k
<1> QED BY <1>1, <1>2, <1>4

-----------------------------------------------------------------------------
(***************************************************************************)
(* FlushScheduled, step by step.                                           *)
(***************************************************************************)
Wakeup == pending # <<>> => timer \/ task.kind = "flush"

LEMMA ConnectionWakes ==
  ASSUME Inductive, Wakeup, NEW a \in Account,
         OpenExisting(a) \/ OpenLoad(a) \/ Subscribe(a) \/ Leave(a) \/ SubmitAstray(a)
  PROVE  Wakeup'
<1>1. task.kind = "idle"
  BY DEF OpenExisting, OpenLoad, Subscribe, Leave, SubmitAstray, Idle
<1>2. CASE OpenExisting(a) \/ OpenLoad(a) \/ Subscribe(a) \/ SubmitAstray(a)
  BY <1>1, <1>2 DEF Wakeup, OpenExisting, OpenLoad, Subscribe, SubmitAstray, roomVars
<1>3. CASE Leave(a)
  <2>1. pending' = pending
    BY <1>3 DEF Leave
  <2>2. pending = <<>> \/ timer' = timer
    BY <1>3 DEF Leave, EvictIdle
  <2> QED BY <1>1, <2>1, <2>2 DEF Wakeup
<1> QED BY <1>2, <1>3

LEMMA SubmitWakes ==
  ASSUME Inductive, Wakeup,
         \/ \E a \in Account, e \in Edit : SubmitLoad(a, e)
         \/ SubmitRefused \/ SubmitRecovers \/ SubmitDuplicate
         \/ SubmitRejected \/ SubmitApplied
  PROVE  Wakeup'
<1>1. ASSUME NEW a \in Account, NEW e \in Edit, SubmitLoad(a, e) PROVE Wakeup'
  BY <1>1 DEF SubmitLoad, Idle, Wakeup, roomVars
<1>2. CASE SubmitRefused \/ SubmitDuplicate \/ SubmitRejected
  BY <1>2 DEF SubmitRefused, SubmitDuplicate, SubmitRejected, Deciding, At, Wakeup, roomVars
<1>3. CASE SubmitRecovers
  <2>1. task.kind = "submit" /\ timer' = timer /\ OwnCommit(task.head)
    BY <1>3 DEF SubmitRecovers, At
  <2>2. pending # <<>>
    <3>1. Len(pending) # 0
      BY <2>1, RecoveryTakesPrefix DEF Inductive, TypeOK, RoomTypeOK
    <3> QED BY <3>1
  <2> QED BY <2>1, <2>2 DEF Wakeup
<1>4. CASE SubmitApplied
  BY <1>4 DEF SubmitApplied, Wakeup
<1> QED BY <1>1, <1>2, <1>3, <1>4

LEMMA TaskWakes ==
  ASSUME Inductive, Wakeup,
         OpenDone \/ Index \/ Promote \/ HeadConflict \/ HeadAmbiguous \/ StoreFails
  PROVE  Wakeup'
<1>1. CASE OpenDone
  BY <1>1 DEF OpenDone, Wakeup
<1>2. CASE Abandon
  BY <1>2 DEF Abandon, Rescheduled, Wakeup
<1>3. CASE UNCHANGED roomVars /\ task'.kind = task.kind
  BY <1>3 DEF Wakeup, roomVars
<1>4. task \in TaskType
  BY DEF Inductive, TypeOK
<1>5. CASE IndexBatch \/ IndexDone \/ MarkIndexed \/ Promote
  <2>1. task'.kind = task.kind
    BY <1>4, <1>5 DEF IndexBatch, IndexDone, MarkIndexed, Promote, TaskType
  <2> QED BY <1>3, <1>5, <2>1 DEF IndexBatch, IndexDone, MarkIndexed, Promote
<1> QED BY <1>1, <1>2, <1>5 DEF Index, IndexFails, HeadConflict, HeadAmbiguous, StoreFails

LEMMA FlushWakes ==
  ASSUME Inductive, Wakeup, Flush
  PROVE  Wakeup'
<1>1. task \in TaskType
  BY DEF Inductive, TypeOK
<1>2. CASE FlushNothing \/ FlushCommit
  BY <1>2 DEF FlushNothing, FlushCommit, Wakeup
<1>3. CASE FlushLoad
  BY <1>3 DEF FlushLoad, Start, Wakeup
<1>4. CASE Abandon
  BY <1>4 DEF Abandon, Rescheduled, Wakeup
<1>5. CASE FlushProceeds
  <2>1. task'.kind = task.kind
    BY <1>1, <1>5 DEF FlushProceeds, TaskType
  <2> QED BY <1>5, <2>1 DEF FlushProceeds, Wakeup, roomVars
<1>6. CASE FlushRecovers
  <2>1. pending' = <<>> \/ task' = [task EXCEPT !.at = "index"]
    BY <1>6 DEF FlushRecovers
  <2>2. task.kind = "flush"
    BY <1>6 DEF FlushRecovers, At
  <2> QED BY <1>1, <2>1, <2>2 DEF Wakeup, TaskType
<1>7. CASE FlushPut
  <2>1. \/ \E n \in 1..(Len(batches) + 1) : task' = [task EXCEPT !.at = "commit", !.cursor = n]
        \/ Abandon
    BY <1>7 DEF FlushPut
  <2>2. task.kind = "flush"
    BY <1>7 DEF FlushPut, At
  <2> QED BY <1>1, <1>4, <2>1, <2>2 DEF Wakeup, TaskType
<1> QED BY <1>2, <1>3, <1>4, <1>5, <1>6, <1>7 DEF Flush, FlushStuck

LEMMA WorldWakes ==
  ASSUME Wakeup, ChangeAccess \/ LateWrite \/ Crash \/ UNCHANGED vars
  PROVE  Wakeup'
<1>1. CASE Crash
  BY <1>1 DEF Crash, Wakeup
<1>2. CASE UNCHANGED <<roomVars, task>>
  BY <1>2 DEF Wakeup, roomVars
<1> QED BY <1>1, <1>2 DEF ChangeAccess, LateWrite, vars

\* An edit that was accepted always has a flush to come: the timer is armed,
\* or the flush that will arm it again if it fails is running.
THEOREM PendingHasFlush == Spec => []FlushScheduled
<1>1. Init => Wakeup
  BY DEF Init, Wakeup
<1>2. Inductive /\ Wakeup /\ [Next]_vars => Wakeup'
  BY ConnectionWakes, SubmitWakes, TaskWakes, FlushWakes, WorldWakes
     DEF Next, Open, Submit
<1>3. Inductive /\ Wakeup => FlushScheduled
  BY DEF Inductive, RoomSound, Wakeup, FlushScheduled
<1> QED BY <1>1, <1>2, <1>3, InductiveInvariant, PTL DEF Spec

-----------------------------------------------------------------------------
(***************************************************************************)
(* AcceptedNotDropped, step by step.                                       *)
(***************************************************************************)
Kept ==
  \A i \in 1..Len(pending) :
    \/ \E j \in 1..Len(pending') : pending'[j] = pending[i]
    \/ \E r \in acked' : r.id = pending[i].id /\ r.hash = pending[i].hash
    \/ budget'.crashes < budget.crashes

LEMMA AppendKeeps ==
  ASSUME Inductive, NEW e \in Edit, pending' = Append(pending, e)
  PROVE  Kept
<1>1. pending \in Seq(Edit)
  BY DEF Inductive, TypeOK, RoomTypeOK
<1>2. \A i \in 1..Len(pending) : i \in 1..Len(pending') /\ pending'[i] = pending[i]
  BY <1>1
<1> QED BY <1>2 DEF Kept

LEMMA RecoveryKeeps ==
  ASSUME Inductive, OwnCommit(task.head), pending' = Completed(task.head), Announce(task.head)
  PROVE  Kept
<1> SUFFICES ASSUME NEW i \in 1..Len(pending)
             PROVE  \/ \E j \in 1..Len(pending') : pending'[j] = pending[i]
                    \/ \E r \in acked' : r.id = pending[i].id /\ r.hash = pending[i].hash
  BY DEF Kept
<1>1. PICK k \in 1..Len(pending) :
        /\ Completed(task.head) = SubSeq(pending, k + 1, Len(pending))
        /\ \A m \in 1..k : \E r \in ReceiptsOf(task.head.batch) :
             r.id = pending[m].id /\ r.hash = pending[m].hash
  BY RecoveryTakesPrefix DEF Inductive
<1>2. CASE i \in 1..k
  BY <1>1, <1>2 DEF Announce
<1>3. CASE i \notin 1..k
  <2>1. pending \in Seq(Edit)
    BY DEF Inductive, TypeOK, RoomTypeOK
  <2> DEFINE n == Len(pending)
             left == SubSeq(pending, k + 1, n)
  <2>2. n \in Nat /\ i \in k + 1 .. n /\ i - k \in 1..n - k
    BY <1>3, <2>1
  <2>3. Len(left) = n - k /\ left[i - k] = pending[i]
    BY <2>1, <2>2
  <2>4. pending' = left
    BY <1>1
  <2> HIDE DEF left
  <2> QED BY <2>2, <2>3, <2>4
<1> QED BY <1>2, <1>3

LEMMA CommitKeeps ==
  ASSUME Inductive, FlushCommit
  PROVE  Kept
<1> SUFFICES ASSUME NEW i \in 1..Len(pending)
             PROVE  \E r \in acked' : r.id = pending[i].id /\ r.hash = pending[i].hash
  BY DEF Kept
<1>1. OpsOf(task.cursor) = pending
  <2>1. task.cursor \in 1..Len(batches) /\ batches[task.cursor] = NextBatch
    BY DEF FlushCommit, At, Inductive, TaskSound
  <2>2. task.cursor # NoBatch
    BY <2>1 DEF NoBatch
  <2> QED BY <2>1, <2>2 DEF OpsOf, NextBatch
<1>2. acked' = acked \cup ReceiptsOf(task.cursor)
  BY DEF FlushCommit
<1> QED BY <1>1, <1>2, OperationsReceipted

LEMMA StepKeeps ==
  ASSUME Inductive, [Next]_vars
  PROVE  Kept
<1>1. CASE pending' = pending
  BY <1>1 DEF Kept
<1>2. CASE OpenDone
  <2>1. pending = <<>>
    BY <1>2 DEF OpenDone, At, Inductive, TaskSound, RoomSound
  <2> QED BY <2>1 DEF Kept
<1>3. CASE SubmitRecovers
  BY <1>3, RecoveryKeeps DEF SubmitRecovers
<1>4. CASE SubmitApplied
  <2>1. task.edit \in Edit
    BY <1>4 DEF SubmitApplied, Deciding, At, Inductive, TaskSound
  <2> QED BY <1>4, <2>1, AppendKeeps DEF SubmitApplied
<1>5. CASE FlushRecovers
  BY <1>5, RecoveryKeeps DEF FlushRecovers
<1>6. CASE FlushCommit
  BY <1>6, CommitKeeps
<1>7. CASE Crash
  <2>1. budget'.crashes < budget.crashes
    BY <1>7 DEF Crash, Inductive, TypeOK, BudgetType
  <2> QED BY <2>1 DEF Kept
<1>8. CASE UNCHANGED vars
  BY <1>1, <1>8 DEF vars, roomVars
<1>9. CASE \E a \in Account : \/ OpenExisting(a) \/ OpenLoad(a) \/ Subscribe(a) \/ Leave(a)
                              \/ SubmitAstray(a) \/ \E e \in Edit : SubmitLoad(a, e)
  BY <1>1, <1>9 DEF OpenExisting, OpenLoad, Subscribe, Leave, SubmitAstray, SubmitLoad, roomVars
<1>10. CASE SubmitRefused \/ SubmitDuplicate \/ SubmitRejected
  BY <1>1, <1>10 DEF SubmitRefused, SubmitDuplicate, SubmitRejected, roomVars
<1>11. CASE Abandon
  BY <1>1, <1>11 DEF Abandon
<1>12. CASE IndexBatch \/ IndexDone \/ MarkIndexed \/ Promote
  BY <1>1, <1>12 DEF IndexBatch, IndexDone, MarkIndexed, Promote, roomVars
<1>13. CASE FlushNothing \/ FlushLoad \/ FlushProceeds
  BY <1>1, <1>13 DEF FlushNothing, FlushLoad, FlushProceeds, roomVars
<1>14. CASE FlushPut
  BY <1>1, <1>11, <1>14 DEF FlushPut, roomVars
<1>15. CASE ChangeAccess \/ LateWrite
  BY <1>1, <1>15 DEF ChangeAccess, LateWrite, roomVars
<1>16. CASE IndexFails \/ HeadConflict \/ HeadAmbiguous \/ StoreFails \/ FlushStuck
  BY <1>11, <1>16 DEF IndexFails, HeadConflict, HeadAmbiguous, StoreFails, FlushStuck
<1> QED BY <1>2, <1>3, <1>4, <1>5, <1>6, <1>7, <1>8, <1>9, <1>10, <1>12, <1>13, <1>14,
           <1>15, <1>16 DEF Next, Open, Submit, Index, Flush

\* An accepted edit leaves the queue only by being announced as durable, or
\* with the process: eviction, failures and recovery do not drop it.
THEOREM QueueLosesNothing == Spec => AcceptedNotDropped
<1>1. Inductive /\ [Next]_vars => [Kept]_vars
  BY StepKeeps
<1> QED BY <1>1, InductiveInvariant, PTL DEF Spec, AcceptedNotDropped, Kept
=============================================================================
