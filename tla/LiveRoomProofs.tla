--------------------------- MODULE LiveRoomProofs ---------------------------
(***************************************************************************)
(* Proofs about LiveRoom for every number of accounts, edits, faults,      *)
(* crashes and changes of access, and every history a map starts with.     *)
(***************************************************************************)
EXTENDS LiveRoomInductive, TLAPS

-----------------------------------------------------------------------------
(***************************************************************************)
(* The operators of MapStore.                                              *)
(***************************************************************************)
LEMMA OperationType ==
  \A o \in Operation :
    /\ o.id \in OpId \cup LegacyId
    /\ o.hash \in {p.hash : p \in Operation}
BY DEF Operation, Edit, LegacyId

\* The operations and receipts of a stored batch, or of no batch.
LEMMA StoredType ==
  ASSUME batches \in Seq(Batch), NEW n \in 0..Len(batches)
  PROVE  /\ OpsOf(n) \in Seq(Operation)
         /\ ChangesOf(n) \in Seq(Operation)
         /\ ReceiptsOf(n) \subseteq Receipt
         /\ n # NoBatch => batches[n] \in Batch
<1>1. n # NoBatch => batches[n] \in Batch
  BY DEF NoBatch
<1>2. OpsOf(n) \in Seq(Operation) /\ ChangesOf(n) \in Seq(Operation)
  BY <1>1 DEF OpsOf, ChangesOf, Batch
<1>3. ReceiptsOf(n) \subseteq Receipt
  <2> SUFFICES ASSUME NEW r \in ReceiptsOf(n) PROVE r \in Receipt
    OBVIOUS
  <2>1. PICK i \in 1..Len(OpsOf(n)) :
          r = [id |-> OpsOf(n)[i].id, hash |-> OpsOf(n)[i].hash, seq |-> batches[n].seq]
    BY DEF ReceiptsOf
  <2>2. n # NoBatch
    BY <2>1 DEF OpsOf
  <2>3. OpsOf(n)[i] \in Operation
    BY <1>2
  <2> QED BY <1>1, <2>1, <2>2, <2>3, OperationType DEF Receipt, Batch
<1> QED BY <1>1, <1>2, <1>3

\* Writing batches never changes one that is stored.
LEMMA StoredStays ==
  ASSUME batches \in Seq(Batch), batches' \in Seq(Batch),
         Len(batches) <= Len(batches'),
         \A m \in 1..Len(batches) : batches'[m] = batches[m],
         NEW n \in 0..Len(batches)
  PROVE  /\ OpsOf(n)' = OpsOf(n)
         /\ ChangesOf(n)' = ChangesOf(n)
         /\ ReceiptsOf(n)' = ReceiptsOf(n)
         /\ SeqOf(n)' = SeqOf(n)
<1>1. n # NoBatch => batches'[n] = batches[n]
  BY DEF NoBatch
<1>2. OpsOf(n)' = OpsOf(n) /\ ChangesOf(n)' = ChangesOf(n) /\ SeqOf(n)' = SeqOf(n)
  BY <1>1 DEF OpsOf, ChangesOf, SeqOf
<1>3. ReceiptsOf(n)' = ReceiptsOf(n)
  <2>1. CASE n = NoBatch
    BY <2>1, <1>2 DEF ReceiptsOf, OpsOf
  <2>2. CASE n # NoBatch
    BY <2>2, <1>1, <1>2 DEF ReceiptsOf
  <2> QED BY <2>1, <2>2
<1> QED BY <1>2, <1>3

-----------------------------------------------------------------------------
(***************************************************************************)
(* Types.  TypeOK alone is not inductive: a receipt is well formed because *)
(* its batch is stored, which Chain and TaskSound say.                     *)
(***************************************************************************)
LEMMA HeadStored ==
  ASSUME TypeOK, Chain, TaskHeadSound
  PROVE  /\ head.batch \in 0..Len(batches)
         /\ task.head.batch \in 0..Len(batches)
         /\ \A i \in 1..Len(log) : log[i] \in 0..Len(batches)
<1>1. \A k \in 0..Len(log) : NameOf(k) \in 0..Len(batches)
  <2> SUFFICES ASSUME NEW k \in 0..Len(log) PROVE NameOf(k) \in 0..Len(batches)
    OBVIOUS
  <2>1. CASE k = 0
    BY <2>1 DEF NameOf, NoBatch, TypeOK, StoreTypeOK
  <2>2. CASE k # 0
    BY <2>2 DEF NameOf, Chain, TypeOK, StoreTypeOK
  <2> QED BY <2>1, <2>2
<1>2. Len(log) \in 0..Len(log)
  BY DEF TypeOK, StoreTypeOK
<1> QED BY <1>1, <1>2 DEF Chain, TaskHeadSound

LEMMA RequestType ==
  ASSUME TypeOK, Request # NoHead
  PROVE  /\ Request \in HeadDoc
         /\ Stamped(Request) \in HeadDoc
         /\ Request.rev = task.head.rev
<1>1. \/ /\ task.at = "index" /\ task.cursor = NoBatch /\ ~task.head.indexed
         /\ Request = [task.head EXCEPT !.indexed = TRUE]
      \/ /\ task.at = "promote" /\ task.head.live = 1
         /\ Request = [task.head EXCEPT !.live = 2]
      \/ /\ task.at = "commit"
         /\ Request = [task.head EXCEPT !.batch = task.cursor, !.seq = @ + 1]
  <2>1. CASE task.at = "index"
    BY <2>1 DEF Request
  <2>2. CASE task.at = "promote"
    BY <2>2 DEF Request
  <2>3. CASE task.at = "commit"
    BY <2>3 DEF Request
  <2>4. CASE task.at # "index" /\ task.at # "promote" /\ task.at # "commit"
    BY <2>4 DEF Request
  <2> QED BY <2>1, <2>2, <2>3, <2>4
<1>2. task.head \in HeadDoc /\ task.cursor \in Nat /\ head.rev \in Nat
  BY DEF TypeOK, StoreTypeOK, TaskType, HeadDoc
<1>3. Request \in HeadDoc /\ Request.rev = task.head.rev
  <2>1. CASE Request = [task.head EXCEPT !.indexed = TRUE]
    BY <2>1, <1>2 DEF HeadDoc
  <2>2. CASE Request = [task.head EXCEPT !.live = 2]
    BY <2>2, <1>2 DEF HeadDoc
  <2>3. CASE Request = [task.head EXCEPT !.batch = task.cursor, !.seq = @ + 1]
    <3> DEFINE n == task.head.seq + 1
    <3>1. n \in Nat
      BY <1>2 DEF HeadDoc
    <3>2. Request = [task.head EXCEPT !.batch = task.cursor, !.seq = n]
      BY <2>3
    <3> HIDE DEF n
    <3> QED BY <3>1, <3>2, <1>2 DEF HeadDoc
  <2> QED BY <1>1, <2>1, <2>2, <2>3
<1> QED BY <1>2, <1>3 DEF HeadDoc, Stamped

LEMMA CommitRequest ==
  ASSUME TypeOK, task.at = "commit"
  PROVE  /\ Request # NoHead
         /\ Request.rev = task.head.rev
         /\ Request.batch = task.cursor
         /\ Request.seq = task.head.seq + 1
         /\ Request.indexed = task.head.indexed
<1> DEFINE n == task.head.seq + 1
<1>1. Request = [task.head EXCEPT !.batch = task.cursor, !.seq = n]
  BY DEF Request
<1>2. task.head \in HeadDoc /\ n \in Nat \ {0}
  BY DEF TypeOK, TaskType, HeadDoc
<1> HIDE DEF n
<1>3. /\ Request.seq = n /\ Request.rev = task.head.rev
      /\ Request.batch = task.cursor /\ Request.indexed = task.head.indexed
  BY <1>1, <1>2 DEF HeadDoc
<1>4. NoHead.seq = 0
  BY DEF NoHead
<1> QED BY <1>2, <1>3, <1>4 DEF n

LEMMA InstallType ==
  ASSUME TypeOK, NEW req \in HeadDoc, Install(req)
  PROVE  head' \in HeadDoc /\ log' \in Seq(Nat)
<1>1. head.rev \in Nat /\ req.batch \in Nat
  BY DEF TypeOK, StoreTypeOK, HeadDoc
<1>2. Stamped(req) \in HeadDoc
  BY <1>1 DEF HeadDoc, Stamped
<1> QED BY <1>1, <1>2 DEF Install, TypeOK, StoreTypeOK

LEMMA IdleType == ASSUME RoomAssumption PROVE Idle \in TaskType
BY DEF RoomAssumption, Idle, NoHead, NoBatch, TaskType, HeadDoc

LEMMA StartType ==
  ASSUME TypeOK,
         NEW kind \in {"open", "submit", "flush"},
         NEW at \in {"index", "decide", "recover"},
         NEW who \in Account \cup {None}, NEW edit \in Edit \cup {None},
         Start(kind, at, who, edit)
  PROVE  task' \in TaskType
BY DEF TypeOK, StoreTypeOK, HeadDoc, TaskType, Start

LEMMA AbandonType ==
  ASSUME RoomAssumption, TypeOK, Abandon
  PROVE  RoomTypeOK' /\ task' \in TaskType
BY IdleType DEF TypeOK, RoomTypeOK, Abandon, Rescheduled

LEMMA SpendType ==
  ASSUME TypeOK, SpendFault
  PROVE  budget' \in BudgetType
BY DEF TypeOK, BudgetType, SpendFault

LEMMA EvictType ==
  ASSUME TypeOK, NEW peers \in [Account -> PeerState], NEW left \in Seq(Edit),
         EvictIdle(peers, left)
  PROVE  /\ peer' \in [Account -> PeerState]
         /\ open' \in BOOLEAN /\ timer' \in BOOLEAN
         /\ rhead' \in [batch : Nat, seq : Nat]
         /\ doc' \in Seq(Operation)
         /\ recent' \subseteq Receipt
<1>1. CASE left = <<>> /\ \A a \in Account : peers[a] # "joined"
  <2>1. \A a \in Account : Astray(peers[a]) \in PeerState
    BY DEF Astray, PeerState
  <2>2. [a \in Account |-> Astray(peers[a])] \in [Account -> PeerState]
    BY <2>1
  <2>3. [batch |-> NoBatch, seq |-> 0] \in [batch : Nat, seq : Nat]
    BY DEF NoBatch
  <2>4. /\ peer' = [a \in Account |-> Astray(peers[a])]
        /\ open' = FALSE /\ timer' = FALSE
        /\ rhead' = [batch |-> NoBatch, seq |-> 0]
        /\ doc' = <<>> /\ recent' = {}
    BY <1>1 DEF EvictIdle
  <2>5. <<>> \in Seq(Operation)
    OBVIOUS
  <2>6. peer' \in [Account -> PeerState] /\ rhead' \in [batch : Nat, seq : Nat]
    BY <2>2, <2>3, <2>4
  <2>7. open' \in BOOLEAN /\ timer' \in BOOLEAN /\ recent' \subseteq Receipt
    BY <2>4
  <2> QED BY <2>4, <2>5, <2>6, <2>7
<1>2. CASE ~(left = <<>> /\ \A a \in Account : peers[a] # "joined")
  BY <1>2 DEF EvictIdle, TypeOK, RoomTypeOK
<1> QED BY <1>1, <1>2

LEMMA SpentGrant ==
  ASSUME TypeOK, budget.grants > 0, budget' = [budget EXCEPT !.grants = @ - 1]
  PROVE  budget' \in BudgetType
BY DEF TypeOK, BudgetType

LEMMA SpentCrash ==
  ASSUME TypeOK, budget.crashes > 0, budget' = [budget EXCEPT !.crashes = @ - 1]
  PROVE  budget' \in BudgetType
BY DEF TypeOK, BudgetType

LEMMA UnchangedType ==
  ASSUME TypeOK
  PROVE  /\ UNCHANGED storeVars => StoreTypeOK'
         /\ UNCHANGED roomVars => RoomTypeOK'
BY DEF TypeOK, StoreTypeOK, RoomTypeOK, storeVars, roomVars

LEMMA OpenType ==
  ASSUME RoomAssumption, Inductive,
         OpenDone \/ \E a \in Account : OpenExisting(a) \/ OpenLoad(a)
  PROVE  TypeOK'
<1>1. ASSUME NEW a \in Account, OpenExisting(a) PROVE TypeOK'
  <2>1. [peer EXCEPT ![a] = "opened"] \in [Account -> PeerState]
    BY DEF Inductive, TypeOK, RoomTypeOK, PeerState
  <2> QED BY <1>1, <2>1, UnchangedType DEF OpenExisting, Inductive, TypeOK, RoomTypeOK
<1>2. ASSUME NEW a \in Account, OpenLoad(a) PROVE TypeOK'
  <2>1. task' \in TaskType
    BY <1>2, StartType DEF OpenLoad, Inductive
  <2> QED BY <1>2, <2>1, UnchangedType DEF OpenLoad, Inductive, TypeOK
<1>3. CASE OpenDone
  <2>1. task.head.batch \in 0..Len(batches) /\ task.head.batch \in Nat /\ task.head.seq \in Nat
    BY HeadStored DEF Inductive, TypeOK, StoreTypeOK, TaskType, HeadDoc
  <2>2. doc' \in Seq(Operation) /\ recent' \subseteq Receipt
    BY <1>3, <2>1, StoredType DEF OpenDone, Inductive, TypeOK, StoreTypeOK
  <2>3. pending' \in Seq(Edit) /\ Len(pending') <= MaxPending
    BY <1>3 DEF OpenDone, RoomAssumption
  <2>4. peer' \in [Account -> PeerState]
    BY <1>3 DEF OpenDone, Inductive, TypeOK, RoomTypeOK, PeerState
  <2>5. rhead' \in [batch : Nat, seq : Nat]
    BY <1>3, <2>1 DEF OpenDone
  <2>6. open' \in BOOLEAN /\ timer' \in BOOLEAN
    BY <1>3 DEF OpenDone
  <2>7. RoomTypeOK'
    BY <2>2, <2>3, <2>4, <2>5, <2>6 DEF RoomTypeOK
  <2> QED BY <1>3, <2>7, IdleType, UnchangedType DEF OpenDone, Inductive, TypeOK
<1> QED BY <1>1, <1>2, <1>3

\* Announced receipts are those of a stored batch.
LEMMA AnnounceType ==
  ASSUME TypeOK, Chain, TaskHeadSound
  PROVE  ReceiptsOf(task.head.batch) \subseteq Receipt
BY HeadStored, StoredType DEF TypeOK, StoreTypeOK

LEMMA CompletedType ==
  ASSUME TypeOK, Moved(task.head), OwnCommit(task.head)
  PROVE  /\ Completed(task.head) \in Seq(Edit)
         /\ Len(Completed(task.head)) < Len(pending)
<1> DEFINE k == Len(OpsOf(task.head.batch))
<1>1. k \in 1..Len(pending)
  BY DEF OwnCommit
<1>2. pending \in Seq(Edit) /\ Len(pending) \in Nat
  BY DEF TypeOK, RoomTypeOK
<1>3. Completed(task.head) = SubSeq(pending, k + 1, Len(pending))
  BY DEF Completed
<1> HIDE DEF k
<1>4. /\ SubSeq(pending, k + 1, Len(pending)) \in Seq(Edit)
      /\ Len(SubSeq(pending, k + 1, Len(pending))) = Len(pending) - k
  BY <1>1, <1>2
<1> QED BY <1>1, <1>2, <1>3, <1>4

LEMMA SubmitType ==
  ASSUME RoomAssumption, Inductive, Submit
  PROVE  TypeOK'
<1> USE DEF Inductive
<1>1. ASSUME NEW a \in Account, SubmitAstray(a) PROVE TypeOK'
  <2>1. [peer EXCEPT ![a] = "out"] \in [Account -> PeerState]
    BY DEF TypeOK, RoomTypeOK, PeerState
  <2> QED BY <1>1, <2>1, UnchangedType DEF SubmitAstray, TypeOK, RoomTypeOK
<1>2. ASSUME NEW a \in Account, NEW e \in Edit, SubmitLoad(a, e) PROVE TypeOK'
  <2>1. task' \in TaskType
    BY <1>2, StartType DEF SubmitLoad
  <2> QED BY <1>2, <2>1, UnchangedType DEF SubmitLoad, TypeOK
<1>3. CASE SubmitRefused
  BY <1>3, IdleType, UnchangedType DEF SubmitRefused, TypeOK
<1>4. CASE SubmitRecovers
  <2>1. rhead' \in [batch : Nat, seq : Nat]
    BY <1>4 DEF SubmitRecovers, TypeOK, TaskType, HeadDoc, Known
  <2>2. recent' \subseteq Receipt /\ acked' \subseteq Receipt
    BY <1>4, AnnounceType DEF SubmitRecovers, Announce, TypeOK
  <2>3. pending' \in Seq(Edit) /\ Len(pending') < Len(pending)
    BY <1>4, CompletedType DEF SubmitRecovers
  <2>4. Len(pending') <= MaxPending
    BY <2>3 DEF TypeOK, RoomTypeOK, RoomAssumption
  <2> QED BY <1>4, <2>1, <2>2, <2>3, <2>4, UnchangedType
        DEF SubmitRecovers, TypeOK, RoomTypeOK
<1>5. CASE SubmitDuplicate
  <2>1. acked' \subseteq Receipt
    BY <1>5 DEF SubmitDuplicate, Answer, Receipted, TypeOK, RoomTypeOK, StoreTypeOK
  <2> QED BY <1>5, <2>1, IdleType, UnchangedType DEF SubmitDuplicate, TypeOK
<1>6. CASE SubmitRejected
  BY <1>6, IdleType, UnchangedType DEF SubmitRejected, TypeOK
<1>7. CASE SubmitApplied
  <2>1. task.edit \in Edit /\ task.edit \in Operation
    BY <1>7 DEF SubmitApplied, Deciding, At, TaskSound, Operation
  <2> QED BY <1>7, <2>1, IdleType, UnchangedType
        DEF SubmitApplied, QuotaLeft, TypeOK, RoomTypeOK, RoomAssumption
<1> QED BY <1>1, <1>2, <1>3, <1>4, <1>5, <1>6, <1>7 DEF Submit

LEMMA IndexType ==
  ASSUME RoomAssumption, Inductive, Index
  PROVE  TypeOK'
<1> USE DEF Inductive
<1>1. task.at = "index" => task.cursor \in 0..Len(batches)
  <2> SUFFICES ASSUME task.at = "index", task.cursor # NoBatch
               PROVE  task.cursor \in 0..Len(batches)
    BY DEF NoBatch, TypeOK, StoreTypeOK
  <2>1. PICK k \in 1..task.head.seq : task.cursor = log[k]
    BY DEF WalkSound
  <2>2. k \in 1..Len(log)
    BY <2>1 DEF TaskHeadSound, TypeOK, StoreTypeOK
  <2> QED BY <2>1, <2>2, HeadStored
<1>2. task.at = "index" => ReceiptsOf(task.cursor) \subseteq Receipt
  BY <1>1, StoredType DEF TypeOK, StoreTypeOK
<1>3. CASE IndexBatch
  <2>1. NextCursor \in Nat
    BY <1>1, <1>3, StoredType
       DEF IndexBatch, Indexing, NextCursor, NoBatch, TypeOK, StoreTypeOK, Batch
  <2>2. task' \in TaskType
    BY <1>3, <2>1 DEF IndexBatch, TypeOK, TaskType
  <2>3. receipts' \subseteq Receipt
    BY <1>2, <1>3 DEF IndexBatch, Indexing, TypeOK, StoreTypeOK
  <2> QED BY <1>3, <2>2, <2>3, UnchangedType DEF IndexBatch, TypeOK, StoreTypeOK
<1>4. CASE IndexFails
  <2>1. receipts' \subseteq Receipt
    BY <1>2, <1>4 DEF IndexFails, Indexing, TypeOK, StoreTypeOK
  <2>2. budget' \in BudgetType
    BY <1>4, SpendType DEF IndexFails, TypeOK
  <2> QED BY <1>4, <2>1, <2>2, AbandonType DEF IndexFails, TypeOK, StoreTypeOK
<1>5. CASE IndexDone
  <2>1. task' \in TaskType
    BY <1>5 DEF IndexDone, AfterIndex, TypeOK, TaskType
  <2> QED BY <1>5, <2>1, UnchangedType DEF IndexDone, TypeOK
<1>6. CASE MarkIndexed
  <2>1. Request \in HeadDoc /\ Stamped(Request) \in HeadDoc
    BY <1>6, RequestType DEF MarkIndexed
  <2>2. task' \in TaskType
    BY <1>6, <2>1 DEF MarkIndexed, AfterIndex, TypeOK, TaskType
  <2>3. head' \in HeadDoc /\ log' \in Seq(Nat)
    BY <1>6, <2>1, InstallType DEF MarkIndexed
  <2> QED BY <1>6, <2>2, <2>3, UnchangedType DEF MarkIndexed, TypeOK, StoreTypeOK
<1> QED BY <1>3, <1>4, <1>5, <1>6 DEF Index

LEMMA NextBatchType == ASSUME TypeOK PROVE NextBatch \in Batch
<1>1. pending \in Seq(Operation) /\ doc \in Seq(Operation)
  <2>1. pending \in Seq(Edit) /\ \A e \in Edit : e \in Operation
    BY DEF TypeOK, RoomTypeOK, Operation
  <2>2. pending \in [1..Len(pending) -> Operation] /\ Len(pending) \in Nat
    BY <2>1
  <2> QED BY <2>2 DEF TypeOK, RoomTypeOK
<1>2. task.head.batch \in Nat /\ task.head.seq + 1 \in Nat
  BY DEF TypeOK, TaskType, HeadDoc
<1> QED BY <1>1, <1>2 DEF NextBatch, Batch

LEMMA FlushType ==
  ASSUME RoomAssumption, Inductive, Flush
  PROVE  TypeOK'
<1> USE DEF Inductive
<1>1. CASE FlushNothing
  BY <1>1, UnchangedType DEF FlushNothing, TypeOK, RoomTypeOK
<1>2. CASE FlushLoad
  <2>1. task' \in TaskType
    BY <1>2, StartType DEF FlushLoad
  <2> QED BY <1>2, <2>1, UnchangedType DEF FlushLoad, TypeOK, RoomTypeOK
<1>3. CASE FlushStuck
  BY <1>3, AbandonType, UnchangedType DEF FlushStuck, TypeOK
<1>4. CASE FlushProceeds
  <2>1. task' \in TaskType
    BY <1>4 DEF FlushProceeds, TypeOK, TaskType
  <2> QED BY <1>4, <2>1, UnchangedType DEF FlushProceeds, TypeOK
<1>5. CASE FlushRecovers
  <2>1. pending' \in Seq(Edit) /\ Len(pending') <= MaxPending
    BY <1>5, CompletedType DEF FlushRecovers, TypeOK, RoomTypeOK, RoomAssumption
  <2>2. acked' \subseteq Receipt
    BY <1>5, AnnounceType DEF FlushRecovers, Announce, TypeOK
  <2>3. RoomTypeOK' /\ task' \in TaskType
    <3>1. CASE pending' = <<>> /\ Subscribers = {}
      <4>1. EvictIdle(peer, <<>>) /\ task' = Idle
        BY <1>5, <3>1 DEF FlushRecovers
      <4>2. peer \in [Account -> PeerState] /\ <<>> \in Seq(Edit)
        BY DEF TypeOK, RoomTypeOK
      <4> QED BY <2>1, <4>1, <4>2, EvictType, IdleType DEF RoomTypeOK
    <3>2. CASE ~(pending' = <<>> /\ Subscribers = {})
      <4>1. /\ rhead' = Known(task.head)
            /\ recent' = ReceiptsOf(task.head.batch)
            /\ task' = IF pending' = <<>> THEN Idle ELSE [task EXCEPT !.at = "index"]
            /\ UNCHANGED <<peer, open, doc, timer>>
        BY <1>5, <3>2 DEF FlushRecovers
      <4>2. rhead' \in [batch : Nat, seq : Nat]
        BY <4>1 DEF TypeOK, TaskType, HeadDoc, Known
      <4>3. task' \in TaskType
        <5>1. [task EXCEPT !.at = "index"] \in TaskType
          BY DEF TypeOK, TaskType
        <5> QED BY <4>1, <5>1, IdleType
      <4>4. recent' \subseteq Receipt
        BY <4>1, AnnounceType
      <4> QED BY <2>1, <4>1, <4>2, <4>3, <4>4 DEF TypeOK, RoomTypeOK
    <3> QED BY <3>1, <3>2
  <2> QED BY <1>5, <2>2, <2>3, UnchangedType DEF FlushRecovers, TypeOK
<1>6. CASE FlushPut
  <2>1. PICK n \in 1..(Len(batches) + 1) :
          /\ PutBatch(NextBatch, n)
          /\ \/ /\ task' = [task EXCEPT !.at = "commit", !.cursor = n]
                /\ UNCHANGED <<roomVars, budget>>
             \/ SpendFault /\ Abandon
    BY <1>6 DEF FlushPut
  <2>2. batches' \in Seq(Batch)
    <3>1. batches' = batches \/ batches' = Append(batches, NextBatch)
      BY <2>1 DEF PutBatch
    <3>2. NextBatch \in Batch /\ batches \in Seq(Batch)
      BY NextBatchType DEF TypeOK, StoreTypeOK
    <3> QED BY <3>1, <3>2
  <2>3. StoreTypeOK' /\ acked' \subseteq Receipt
    BY <1>6, <2>2 DEF FlushPut, TypeOK, StoreTypeOK
  <2>4. CASE task' = [task EXCEPT !.at = "commit", !.cursor = n] /\ UNCHANGED <<roomVars, budget>>
    <3>1. n \in Nat
      BY DEF TypeOK, StoreTypeOK
    <3>2. task' \in TaskType
      BY <2>4, <3>1 DEF TypeOK, TaskType
    <3> QED BY <2>3, <2>4, <3>2, UnchangedType DEF TypeOK
  <2>5. CASE SpendFault /\ Abandon
    BY <2>3, <2>5, SpendType, AbandonType DEF TypeOK
  <2> QED BY <2>1, <2>4, <2>5
<1>7. CASE FlushCommit
  <2>1. Request # NoHead /\ Request.batch = task.cursor
    BY <1>7, CommitRequest DEF FlushCommit, At
  <2>2. Request \in HeadDoc
    BY <2>1, RequestType
  <2>3. head' \in HeadDoc /\ log' \in Seq(Nat)
    BY <1>7, <2>2, InstallType DEF FlushCommit
  <2>4. ReceiptsOf(task.cursor) \subseteq Receipt
    <3>1. task.cursor \in 0..Len(batches)
      BY <1>7 DEF FlushCommit, At, TaskSound, TypeOK, StoreTypeOK
    <3> QED BY <3>1, StoredType DEF TypeOK, StoreTypeOK
  <2>5. pending' \in Seq(Edit) /\ Len(pending') <= MaxPending
    BY <1>7 DEF FlushCommit, RoomAssumption
  <2>6. RoomTypeOK'
    <3>1. CASE Subscribers = {}
      <4>1. EvictIdle(peer, <<>>)
        BY <1>7, <3>1 DEF FlushCommit
      <4>2. peer \in [Account -> PeerState] /\ <<>> \in Seq(Edit)
        BY DEF TypeOK, RoomTypeOK
      <4> QED BY <2>5, <4>1, <4>2, EvictType DEF RoomTypeOK
    <3>2. CASE Subscribers # {}
      <4>1. /\ rhead' = Known(Request)
            /\ recent' = ReceiptsOf(task.cursor)
            /\ UNCHANGED <<peer, open, doc, timer>>
        BY <1>7, <3>2 DEF FlushCommit
      <4>2. rhead' \in [batch : Nat, seq : Nat]
        BY <2>2, <4>1 DEF HeadDoc, Known
      <4> QED BY <2>4, <2>5, <4>1, <4>2 DEF TypeOK, RoomTypeOK
    <3> QED BY <3>1, <3>2
  <2>7. acked' \subseteq Receipt
    BY <1>7, <2>4 DEF FlushCommit, TypeOK
  <2> QED BY <1>7, <2>3, <2>6, <2>7, IdleType DEF FlushCommit, TypeOK, StoreTypeOK
<1> QED BY <1>1, <1>2, <1>3, <1>4, <1>5, <1>6, <1>7 DEF Flush

LEMMA TypeStep ==
  ASSUME RoomAssumption, Inductive, [Next]_vars
  PROVE  TypeOK'
<1> USE DEF Inductive
<1>1. CASE UNCHANGED vars
  BY <1>1, UnchangedType DEF vars, TypeOK
<1>2. CASE Open
  BY <1>2, OpenType DEF Open
<1>3. CASE Submit
  BY <1>3, SubmitType
<1>4. CASE Index
  BY <1>4, IndexType
<1>5. CASE Flush
  BY <1>5, FlushType
<1>6. CASE Promote
  <2>1. Request \in HeadDoc /\ Stamped(Request) \in HeadDoc
    BY <1>6, RequestType DEF Promote
  <2>2. task' \in TaskType
    BY <1>6, <2>1 DEF Promote, TypeOK, TaskType
  <2>3. head' \in HeadDoc /\ log' \in Seq(Nat)
    BY <1>6, <2>1, InstallType DEF Promote
  <2> QED BY <1>6, <2>2, <2>3, UnchangedType DEF Promote, TypeOK, StoreTypeOK
<1>7. CASE HeadConflict
  BY <1>7, AbandonType, UnchangedType DEF HeadConflict, TypeOK
<1>8. CASE HeadAmbiguous
  <2>1. inflight' \subseteq HeadDoc
    BY <1>8, RequestType DEF HeadAmbiguous, TypeOK, StoreTypeOK
  <2> QED BY <1>8, <2>1, AbandonType, SpendType DEF HeadAmbiguous, TypeOK, StoreTypeOK
<1>9. CASE StoreFails
  BY <1>9, AbandonType, SpendType, UnchangedType DEF StoreFails, TypeOK
<1>10. ASSUME NEW a \in Account, Subscribe(a) PROVE TypeOK'
  <2>1. [peer EXCEPT ![a] = IF @ = "opened" THEN "joined" ELSE "joinedAstray"]
          \in [Account -> PeerState]
    BY DEF TypeOK, RoomTypeOK, PeerState
  <2> QED BY <1>10, <2>1, UnchangedType DEF Subscribe, TypeOK, RoomTypeOK
<1>11. ASSUME NEW a \in Account, Leave(a) PROVE TypeOK'
  <2> DEFINE peers == [peer EXCEPT ![a] = "out"]
  <2>1. peers \in [Account -> PeerState] /\ pending \in Seq(Edit)
    BY DEF TypeOK, RoomTypeOK, PeerState
  <2>2. \/ EvictIdle(peers, pending)
        \/ peer' = peers /\ UNCHANGED <<open, timer, rhead, doc, recent>>
    BY <1>11 DEF Leave
  <2> HIDE DEF peers
  <2>3. RoomTypeOK'
    BY <1>11, <2>1, <2>2, EvictType DEF Leave, TypeOK, RoomTypeOK
  <2> QED BY <1>11, <2>3, UnchangedType DEF Leave, TypeOK
<1>12. CASE ChangeAccess
  <2>1. head' \in HeadDoc
    <3>1. PICK w \in SUBSET Account : head' = [head EXCEPT !.rev = @ + 1, !.writers = w]
      BY <1>12 DEF ChangeAccess
    <3> DEFINE n == head.rev + 1
    <3>2. n \in Nat /\ head \in HeadDoc
      BY DEF TypeOK, StoreTypeOK, HeadDoc
    <3>3. head' = [head EXCEPT !.rev = n, !.writers = w]
      BY <3>1
    <3> HIDE DEF n
    <3> QED BY <3>2, <3>3 DEF HeadDoc
  <2>2. budget' \in BudgetType
    BY <1>12, SpentGrant DEF ChangeAccess
  <2> QED BY <1>12, <2>1, <2>2, UnchangedType DEF ChangeAccess, TypeOK, StoreTypeOK
<1>13. CASE LateWrite
  <2>1. PICK req \in inflight : Land(req) \/ Vanish(req)
    BY <1>13 DEF LateWrite
  <2>2. req \in HeadDoc
    BY DEF TypeOK, StoreTypeOK
  <2>3. StoreTypeOK'
    BY <2>1, <2>2, InstallType DEF Land, Vanish, TypeOK, StoreTypeOK
  <2> QED BY <1>13, <2>3, UnchangedType DEF LateWrite, TypeOK
<1>14. CASE Crash
  <2>1. budget' \in BudgetType
    BY <1>14, SpentCrash DEF Crash
  <2>2. RoomTypeOK'
    <3>1. peer' \in [Account -> PeerState] /\ rhead' \in [batch : Nat, seq : Nat]
      BY <1>14 DEF Crash, PeerState, NoBatch
    <3>2. doc' \in Seq(Operation) /\ pending' \in Seq(Edit) /\ Len(pending') <= MaxPending
      BY <1>14 DEF Crash, RoomAssumption
    <3>3. open' \in BOOLEAN /\ timer' \in BOOLEAN /\ recent' \subseteq Receipt
      BY <1>14 DEF Crash
    <3> QED BY <3>1, <3>2, <3>3 DEF RoomTypeOK
  <2> QED BY <1>14, <2>1, <2>2, IdleType, UnchangedType DEF Crash, TypeOK
<1> QED
  BY <1>1, <1>2, <1>3, <1>4, <1>5, <1>6, <1>7, <1>8, <1>9, <1>10, <1>11, <1>12,
     <1>13, <1>14 DEF Next

-----------------------------------------------------------------------------
(***************************************************************************)
(* What every step does to the store: batches, the history and receipts    *)
(* only grow, and the head stays or gets a newer revision.                 *)
(***************************************************************************)
Grows ==
  /\ Len(batches) <= Len(batches')
  /\ \A m \in 1..Len(batches) : batches'[m] = batches[m]
  /\ Len(log) <= Len(log')
  /\ \A i \in 1..Len(log) : log'[i] = log[i]
  /\ receipts \subseteq receipts'
  /\ head' = head \/ head'.rev > head.rev
  /\ head.indexed => head'.indexed

\* What holds of the history so far is not changed by growing it.
LEMMA HistoryStays ==
  ASSUME TypeOK, TypeOK', Chain, Grows
  PROVE  /\ \A k \in 0..Len(log) : NameOf(k)' = NameOf(k) /\ NameOf(k) \in 0..Len(batches)
         /\ \A k \in 0..Len(log) : ReceiptsOf(NameOf(k))' = ReceiptsOf(NameOf(k))
         /\ \A i \in 1..Len(log) : /\ log[i] \in 0..Len(batches) /\ log'[i] = log[i]
                                   /\ OpsOf(log[i])' = OpsOf(log[i])
                                   /\ ReceiptsOf(log[i])' = ReceiptsOf(log[i])
         /\ \A n \in 0..Len(batches) : /\ OpsOf(n)' = OpsOf(n)
                                       /\ ReceiptsOf(n)' = ReceiptsOf(n)
                                       /\ SeqOf(n)' = SeqOf(n)
<1>1. batches \in Seq(Batch) /\ batches' \in Seq(Batch) /\ log \in Seq(Nat) /\ log' \in Seq(Nat)
  BY DEF TypeOK, StoreTypeOK
<1>2. \A n \in 0..Len(batches) : /\ OpsOf(n)' = OpsOf(n)
                                 /\ ReceiptsOf(n)' = ReceiptsOf(n)
                                 /\ SeqOf(n)' = SeqOf(n)
  BY <1>1, StoredStays DEF Grows
<1>3. \A i \in 1..Len(log) : log[i] \in 0..Len(batches) /\ log'[i] = log[i]
  <2>1. \A i \in 1..Len(log) : log'[i] = log[i]
    BY DEF Grows
  <2>2. \A i \in 1..Len(log) : log[i] \in 1..Len(batches)
    BY DEF Chain
  <2> QED BY <1>1, <2>1, <2>2
<1>4. \A k \in 0..Len(log) : NameOf(k)' = NameOf(k) /\ NameOf(k) \in 0..Len(batches)
  <2>1. Len(log) \in Nat /\ Len(batches) \in Nat
    BY <1>1
  <2>2. \A k \in 0..Len(log) : k = 0 \/ k \in 1..Len(log)
    BY <2>1
  <2> QED BY <2>1, <2>2, <1>3 DEF NameOf, NoBatch
<1>5. \A k \in 0..Len(log) : ReceiptsOf(NameOf(k))' = ReceiptsOf(NameOf(k))
  <2> SUFFICES ASSUME NEW k \in 0..Len(log)
               PROVE  ReceiptsOf(NameOf(k))' = ReceiptsOf(NameOf(k))
    OBVIOUS
  <2>1. NameOf(k)' = NameOf(k) /\ NameOf(k) \in 0..Len(batches)
    BY <1>4
  <2>2. \A n \in 0..Len(batches) : ReceiptsOf(n)' = ReceiptsOf(n)
    BY <1>2
  <2> DEFINE n == NameOf(k)
  <2>3. n \in 0..Len(batches) /\ n' = n /\ ReceiptsOf(n)' = ReceiptsOf(n)
    BY <2>1, <2>2
  <2> QED BY <2>3
<1>6. \A i \in 1..Len(log) : OpsOf(log[i])' = OpsOf(log[i]) /\ ReceiptsOf(log[i])' = ReceiptsOf(log[i])
  BY <1>2, <1>3
<1> QED BY <1>2, <1>3, <1>4, <1>5, <1>6

LEMMA CoveredStays ==
  ASSUME TypeOK, TypeOK', Chain, Grows, NEW i \in 1..Len(log), Covered(i)
  PROVE  Covered(i)'
BY HistoryStays DEF Covered, Grows

LEMMA CommittedStays ==
  ASSUME TypeOK, TypeOK', Chain, Grows
  PROVE  Committed \subseteq Committed'
<1> SUFFICES ASSUME NEW r \in Committed PROVE r \in Committed'
  OBVIOUS
<1>1. PICK i \in 1..Len(log) : r \in ReceiptsOf(log[i])
  BY DEF Committed
<1>2. i \in 1..Len(log') /\ r \in ReceiptsOf(log[i])'
  BY <1>1, HistoryStays DEF Grows, TypeOK, StoreTypeOK
<1> QED BY <1>2 DEF Committed

LEMMA UsedStays ==
  ASSUME TypeOK, TypeOK', Chain, Grows, NEW k \in 0..Len(log), NEW id
  PROVE  UsedUpTo(id, k)' = UsedUpTo(id, k)
<1>1. \A i \in 1..k : OccursIn(id, log[i])' = OccursIn(id, log[i])
  <2> SUFFICES ASSUME NEW i \in 1..k PROVE OccursIn(id, log[i])' = OccursIn(id, log[i])
    OBVIOUS
  <2>1. OpsOf(log[i])' = OpsOf(log[i])
    BY HistoryStays DEF TypeOK, StoreTypeOK
  <2> QED BY <2>1 DEF OccursIn
<1> QED BY <1>1 DEF UsedUpTo

LEMMA AckStays ==
  ASSUME TypeOK, TypeOK', Chain, Grows, AckedDurable, acked' \subseteq acked \cup Committed'
  PROVE  AckedDurable'
BY CommittedStays DEF AckedDurable

(***************************************************************************)
(* Steps that leave the room alone.                                        *)
(***************************************************************************)
LEMMA RoomStays ==
  ASSUME TypeOK, TypeOK', Chain, Grows, RoomSound,
         UNCHANGED <<open, rhead, recent, pending>>,
         \A a \in Account : peer'[a] \in {"opened", "joined"} => open
  PROVE  RoomSound'
<1>1. CASE ~open
  BY <1>1 DEF RoomSound
<1>2. CASE open
  <2>1. rhead.seq \in 0..Len(log) /\ rhead.seq \in 0..Len(log')
    BY <1>2 DEF RoomSound, Grows, TypeOK, StoreTypeOK
  <2>2. NameOf(rhead.seq)' = NameOf(rhead.seq)
    BY <2>1, HistoryStays
  <2>3. ReceiptsOf(rhead.batch)' = ReceiptsOf(rhead.batch)
    <3>1. rhead.batch \in 0..Len(batches) /\ rhead.batch' = rhead.batch
      BY <1>2, <2>1, HistoryStays DEF RoomSound
    <3> QED BY <3>1, HistoryStays
  <2>4. \A i \in 1..Len(pending) : ~UsedUpTo(pending[i].id, rhead.seq)'
    <3> SUFFICES ASSUME NEW i \in 1..Len(pending) PROVE ~UsedUpTo(pending[i].id, rhead.seq)'
      OBVIOUS
    <3> DEFINE id == pending[i].id
               k  == rhead.seq
    <3>1. ~UsedUpTo(id, k) /\ k \in 0..Len(log) /\ id' = id /\ k' = k
      BY <1>2, <2>1 DEF RoomSound
    <3> HIDE DEF id, k
    <3>2. UsedUpTo(id, k)' = UsedUpTo(id, k)
      BY <3>1, UsedStays
    <3> QED BY <3>1, <3>2 DEF id, k
  <2> QED BY <1>2, <2>1, <2>2, <2>3, <2>4 DEF RoomSound, Grows
<1> QED BY <1>1, <1>2

(***************************************************************************)
(* Steps that leave the task alone, end it, or begin one.                  *)
(***************************************************************************)
LEMMA TaskHeadStays ==
  ASSUME TypeOK, TypeOK', Chain, Grows, TaskHeadSound, UNCHANGED task.head
  PROVE  TaskHeadSound'
<1>1. task.head.seq \in 0..Len(log) /\ task.head.seq \in 0..Len(log')
  BY DEF TaskHeadSound, Grows, TypeOK, StoreTypeOK
<1>2. NameOf(task.head.seq)' = NameOf(task.head.seq)
  BY <1>1, HistoryStays
<1>3. head.rev \in Nat /\ task.head.rev \in Nat /\ head'.rev \in Nat
  BY DEF TypeOK, StoreTypeOK, TaskType, HeadDoc
<1> QED BY <1>1, <1>2, <1>3 DEF TaskHeadSound, Grows, Current

LEMMA TaskReceiptsStay ==
  ASSUME TypeOK, TypeOK', Chain, Grows, TaskHeadSound, UNCHANGED task.head,
         ReceiptsOf(task.head.batch) \subseteq receipts
  PROVE  (ReceiptsOf(task.head.batch) \subseteq receipts)'
<1>1. ReceiptsOf(task.head.batch)' = ReceiptsOf(task.head.batch)
  BY HeadStored, HistoryStays
<1> QED BY <1>1 DEF Grows

LEMMA WalkStays ==
  ASSUME TypeOK, TypeOK', Chain, Grows, TaskHeadSound, WalkSound, UNCHANGED task
  PROVE  WalkSound'
<1> SUFFICES ASSUME task.at = "index" PROVE WalkSound'
  BY DEF WalkSound
<1>1. \A k \in 1..task.head.seq : k \in 1..Len(log) /\ log'[k] = log[k]
  BY DEF TaskHeadSound, Grows, TypeOK, StoreTypeOK
<1>2. task.cursor # NoBatch => \E k \in 1..task.head.seq : task.cursor = log'[k]
  BY <1>1 DEF WalkSound
<1>3. SeqOf(task.cursor)' = SeqOf(task.cursor)
  <2>1. task.cursor \in 0..Len(batches)
    <3>1. CASE task.cursor = NoBatch
      BY <3>1 DEF NoBatch, TypeOK, StoreTypeOK
    <3>2. CASE task.cursor # NoBatch
      BY <3>2, <1>1, HistoryStays DEF WalkSound
    <3> QED BY <3>1, <3>2
  <2> QED BY <2>1, HistoryStays
<1>4. CASE task.head.indexed
  BY <1>2, <1>4, TaskReceiptsStay DEF WalkSound
<1>5. CASE ~task.head.indexed
  <2>1. \A i \in 1..task.head.seq : Covered(i) => Covered(i)'
    BY <1>1, CoveredStays
  <2> QED BY <1>2, <1>3, <1>5, <2>1 DEF WalkSound
<1> QED BY <1>4, <1>5

LEMMA TaskStays ==
  ASSUME TypeOK, TypeOK', Chain, Grows, TaskHeadSound, WalkSound, TaskSound,
         UNCHANGED <<task, open, rhead, pending, doc>>
  PROVE  TaskHeadSound' /\ WalkSound' /\ TaskSound'
<1>1. task.at \in {"promote", "put", "commit"} =>
        (ReceiptsOf(task.head.batch) \subseteq receipts)'
  BY TaskReceiptsStay DEF TaskSound
<1>2. task.at = "commit" =>
        task.cursor \in 1..Len(batches') /\ batches'[task.cursor] = NextBatch'
  BY DEF TaskSound, NextBatch, Grows, TypeOK, StoreTypeOK
<1>3. TaskSound'
  BY <1>1, <1>2 DEF TaskSound, Known
<1> QED BY <1>3, TaskHeadStays, WalkStays

LEMMA IdleSound ==
  ASSUME TypeOK', Chain', task' = Idle
  PROVE  TaskHeadSound' /\ WalkSound' /\ TaskSound'
<1>1. /\ task'.kind = "idle" /\ task'.at = "idle"
      /\ task'.head.rev = 0 /\ task'.head.seq = 0 /\ task'.head.batch = NoBatch
      /\ task'.head.indexed = FALSE
  BY DEF Idle, NoHead
<1>2. TaskHeadSound'
  <2>1. head'.rev \in Nat /\ head'.rev # 0 /\ Len(log') \in Nat
    BY DEF TypeOK, StoreTypeOK, HeadDoc, Chain
  <2> QED BY <1>1, <2>1 DEF TaskHeadSound, NameOf, Current
<1> QED BY <1>1, <1>2 DEF WalkSound, TaskSound

\* A task that installed its request holds the new head.
LEMMA HeldHead ==
  ASSUME TypeOK', Chain', task'.head = head'
  PROVE  TaskHeadSound'
<1>1. head'.seq = Len(log') /\ Len(log') \in Nat /\ head'.rev \in Nat
  BY DEF Chain, TypeOK, StoreTypeOK, HeadDoc
<1> QED BY <1>1 DEF TaskHeadSound, Chain, NameOf

\* The walk starts at the last batch of the head it loaded.
LEMMA WalkStarts ==
  ASSUME TypeOK', Chain', TaskHeadSound', task'.kind \in {"open", "flush"},
         task'.at = "index", task'.cursor = task'.head.batch
  PROVE  WalkSound'
<1> DEFINE n == task'.head.seq
<1>1. n \in 0..Len(log') /\ Len(log') \in Nat /\ task'.cursor = NameOf(task.head.seq)'
  BY DEF TaskHeadSound, TypeOK, StoreTypeOK
<1>2. CASE n = 0
  <2>1. task'.cursor = NoBatch
    BY <1>1, <1>2 DEF NameOf
  <2> QED BY <1>2, <2>1 DEF WalkSound
<1>3. CASE n # 0
  <2>1. n \in 1..Len(log') /\ task'.cursor = log'[n]
    BY <1>1, <1>3 DEF NameOf
  <2>2. SeqOf(task.cursor)' = n
    BY <2>1 DEF Chain, SeqOf, NoBatch, TypeOK, StoreTypeOK
  <2> QED BY <1>1, <2>1, <2>2 DEF WalkSound
<1> QED BY <1>2, <1>3

\* A task that begins has loaded the head there is.
LEMMA StartSound ==
  ASSUME TypeOK, TypeOK', Chain, UNCHANGED storeVars,
         NEW kind, NEW at, NEW who, NEW edit, Start(kind, at, who, edit)
  PROVE  /\ TaskHeadSound'
         /\ at = "index" /\ kind \in {"open", "flush"} => WalkSound'
         /\ at # "index" => WalkSound'
<1>1. /\ task'.kind = kind /\ task'.at = at /\ task'.head = head /\ task'.cursor = head.batch
      /\ head' = head /\ log' = log /\ batches' = batches
  BY DEF Start, storeVars
<1>2. Chain'
  BY <1>1 DEF Chain, NameOf
<1>3. TaskHeadSound'
  BY <1>1, <1>2, HeldHead
<1>4. at = "index" /\ kind \in {"open", "flush"} => WalkSound'
  BY <1>1, <1>2, <1>3, WalkStarts
<1>5. at # "index" => WalkSound'
  BY <1>1 DEF WalkSound
<1> QED BY <1>3, <1>4, <1>5

(***************************************************************************)
(* Writes of the head.  A sound write that is applied extends the history  *)
(* by at most one batch, and by no identifier it holds already.            *)
(***************************************************************************)
LEMMA StampedFields ==
  ASSUME TypeOK, NEW req \in HeadDoc, Install(req)
  PROVE  /\ head'.rev = head.rev + 1 /\ head'.batch = req.batch
         /\ head'.seq = req.seq /\ head'.indexed = req.indexed
BY DEF Install, Stamped, HeadDoc, TypeOK, StoreTypeOK

LEMMA MarkApplied ==
  ASSUME TypeOK, Chain, ExactlyOnce, ReceiptsCoverHistory,
         NEW req \in HeadDoc, SoundMark(req), Install(req), UNCHANGED <<batches, receipts>>
  PROVE  log' = log /\ Chain' /\ ExactlyOnce' /\ ReceiptsCoverHistory' /\ Grows
<1>1. log' = log
  BY DEF Install, SoundMark
<1>2. /\ head.rev \in Nat /\ head'.rev = head.rev + 1 /\ head'.batch = head.batch
      /\ head'.seq = head.seq /\ head'.indexed = req.indexed
  BY StampedFields DEF SoundMark, TypeOK, StoreTypeOK, HeadDoc
<1>3. Chain'
  BY <1>1, <1>2 DEF Chain, NameOf
<1>4. ExactlyOnce'
  <2>1. \A i \in 1..Len(log) : OpsOf(log[i])' = OpsOf(log[i])
    BY <1>1 DEF OpsOf
  <2> QED BY <1>1, <2>1 DEF ExactlyOnce
<1>5. Committed' = Committed /\ \A i \in 1..Len(log) : ReceiptsOf(log[i])' = ReceiptsOf(log[i])
  BY <1>1 DEF Committed, ReceiptsOf, OpsOf
<1>6. ReceiptsCoverHistory'
  BY <1>1, <1>2, <1>5 DEF ReceiptsCoverHistory, SoundMark, Covered
<1>7. Grows
  BY <1>1, <1>2 DEF Grows, SoundMark, TypeOK, StoreTypeOK
<1> QED BY <1>1, <1>3, <1>4, <1>6, <1>7

LEMMA CommitAppends ==
  ASSUME TypeOK, Chain, NEW req \in HeadDoc, SoundCommit(req), Install(req)
  PROVE  /\ log' = Append(log, req.batch)
         /\ log \in Seq(Nat) /\ log' \in Seq(Nat) /\ Len(log') = Len(log) + 1
         /\ \A i \in 1..Len(log) : log'[i] = log[i]
         /\ log'[Len(log) + 1] = req.batch
<1>1. log \in Seq(Nat) /\ req.batch \in Nat /\ Len(log) \in Nat
  BY DEF TypeOK, StoreTypeOK, HeadDoc
<1>2. req.batch # head.batch
  <2>1. CASE Len(log) = 0
    BY <2>1 DEF Chain, NameOf, NoBatch, SoundCommit
  <2>2. CASE Len(log) # 0
    <3>1. head.batch = log[Len(log)] /\ Len(log) \in 1..Len(log)
      BY <2>2, <1>1 DEF Chain, NameOf
    <3>2. batches[head.batch].seq = Len(log) /\ batches[req.batch].seq = Len(log) + 1
      BY <3>1 DEF Chain, SoundCommit
    <3> QED BY <1>1, <3>2
  <2> QED BY <2>1, <2>2
<1>3. log' = Append(log, req.batch)
  BY <1>2 DEF Install
<1> QED BY <1>1, <1>3

LEMMA CommitOnce ==
  ASSUME TypeOK, Chain, ExactlyOnce,
         NEW req \in HeadDoc, SoundCommit(req), Install(req), UNCHANGED batches
  PROVE  ExactlyOnce'
<1> DEFINE n == Len(log) + 1
<1>1. /\ Len(log) \in Nat /\ Len(log') = n /\ log'[n] = req.batch
      /\ \A i \in 1..Len(log) : log'[i] = log[i]
  BY CommitAppends
<1>2. \A i \in 1..n : OpsOf(log'[i]) = OpsOf(log[i])' /\ (i # n => i \in 1..Len(log))
  BY <1>1 DEF OpsOf
<1>3. \A i \in 1..Len(log) : \A m \in 1..Len(OpsOf(log[i])) :
        \A k \in 1..Len(OpsOf(req.batch)) : OpsOf(log[i])[m].id # OpsOf(req.batch)[k].id
  BY <1>1 DEF SoundCommit, UsedUpTo, OccursIn
<1>4. \A m, k \in 1..Len(OpsOf(req.batch)) :
        OpsOf(req.batch)[m].id = OpsOf(req.batch)[k].id => m = k
  BY DEF SoundCommit, NoRepeat
<1> SUFFICES ASSUME NEW i \in 1..n, NEW j \in 1..n,
                    NEW m \in 1..Len(OpsOf(log'[i])), NEW k \in 1..Len(OpsOf(log'[j])),
                    OpsOf(log'[i])[m].id = OpsOf(log'[j])[k].id
             PROVE  i = j /\ m = k
  BY <1>1, <1>2 DEF ExactlyOnce
<1> HIDE DEF n
<1>5. CASE i # n /\ j # n
  BY <1>1, <1>2, <1>5 DEF ExactlyOnce
<1>6. CASE i = n /\ j # n
  BY <1>1, <1>2, <1>3, <1>6
<1>7. CASE i # n /\ j = n
  BY <1>1, <1>2, <1>3, <1>7
<1>8. CASE i = n /\ j = n
  BY <1>1, <1>4, <1>8
<1> QED BY <1>5, <1>6, <1>7, <1>8

LEMMA CommitApplied ==
  ASSUME TypeOK, TypeOK', Chain, ExactlyOnce, ReceiptsCoverHistory,
         NEW req \in HeadDoc, SoundCommit(req), Install(req), UNCHANGED <<batches, receipts>>
  PROVE  Chain' /\ ExactlyOnce' /\ ReceiptsCoverHistory' /\ Grows
<1> DEFINE n == Len(log) + 1
<1>1. /\ Len(log) \in Nat /\ Len(log') = n /\ log'[n] = req.batch
      /\ \A i \in 1..Len(log) : log'[i] = log[i]
  BY CommitAppends
<1>2. /\ head.rev \in Nat /\ head'.rev = head.rev + 1 /\ head'.batch = req.batch
      /\ head'.seq = n /\ head'.indexed = TRUE /\ head.indexed
  BY StampedFields DEF SoundCommit, TypeOK, StoreTypeOK, HeadDoc
<1>3. Grows
  <2>1. Len(log) <= Len(log')
    BY <1>1
  <2>2. head'.rev > head.rev
    BY <1>2
  <2>3. /\ batches' = batches /\ receipts' = receipts
        /\ Len(batches) \in Nat
    BY DEF TypeOK, StoreTypeOK
  <2> HIDE DEF n
  <2>4. head.indexed => head'.indexed
    BY <1>2
  <2> QED BY <1>1, <2>1, <2>2, <2>3, <2>4 DEF Grows
<1>4. \A k \in 0..Len(log) : NameOf(k)' = NameOf(k)
  BY <1>1 DEF NameOf
<1>5. Chain'
  <2>1. head'.batch = NameOf(Len(log))'
    BY <1>1, <1>2 DEF NameOf
  <2>2. ASSUME NEW i \in 1..Len(log')
        PROVE  /\ log'[i] \in 1..Len(batches')
               /\ batches'[log'[i]].seq = i
               /\ batches'[log'[i]].parent = NameOf(i - 1)'
    <3>1. CASE i = n
      <4>1. NameOf(i - 1)' = head.batch
        BY <1>1, <1>4, <3>1 DEF Chain
      <4> QED BY <1>1, <3>1, <4>1 DEF SoundCommit
    <3>2. CASE i # n
      <4>1. i \in 1..Len(log) /\ i - 1 \in 0..Len(log)
        BY <1>1, <3>2
      <4> QED BY <1>1, <1>4, <4>1 DEF Chain
    <3> QED BY <3>1, <3>2
  <2> QED BY <1>1, <1>2, <2>1, <2>2 DEF Chain
<1>6. ReceiptsCoverHistory'
  <2>1. \A i \in 1..(Len(log') - 1) : ReceiptsOf(log[i])' \subseteq receipts'
    <3>1. \A i \in 1..Len(log) : Covered(i)
      <4>1. \A i \in 1..(Len(log) - 1) : Covered(i)
        BY <1>2 DEF ReceiptsCoverHistory, Covered
      <4>2. Len(log) # 0 => Covered(Len(log))
        BY DEF SoundCommit
      <4> QED BY <1>1, <4>1, <4>2
    <3>2. \A i \in 1..Len(log) : Covered(i)'
      BY <1>3, <3>1, CoveredStays
    <3> QED BY <1>1, <3>2 DEF Covered
  <2>2. receipts' \subseteq Committed'
    BY <1>3, CommittedStays DEF ReceiptsCoverHistory
  <2> QED BY <2>1, <2>2 DEF ReceiptsCoverHistory
<1> QED BY <1>3, <1>5, <1>6, CommitOnce

LEMMA WriteApplied ==
  ASSUME TypeOK, TypeOK', Chain, ExactlyOnce, ReceiptsCoverHistory,
         NEW req \in HeadDoc, Sound(req), Current(req), Install(req),
         UNCHANGED <<batches, receipts>>
  PROVE  Chain' /\ ExactlyOnce' /\ ReceiptsCoverHistory' /\ Grows /\ head'.rev > head.rev
<1>1. head'.rev > head.rev
  <2>1. head'.rev = head.rev + 1
    BY StampedFields
  <2>2. head.rev \in Nat
    BY DEF TypeOK, StoreTypeOK, HeadDoc
  <2> QED BY <2>1, <2>2
<1> QED BY <1>1, MarkApplied, CommitApplied DEF Sound

\* Steps that leave the head and the history alone.
LEMMA HistoryUnmoved ==
  ASSUME TypeOK, TypeOK', Chain, ExactlyOnce, ReceiptsCoverHistory, Grows,
         log' = log, head'.seq = head.seq, head'.batch = head.batch,
         head'.indexed = head.indexed,
         receipts' \subseteq receipts \cup Committed
  PROVE  Chain' /\ ExactlyOnce' /\ ReceiptsCoverHistory'
<1>1. \A i \in 1..Len(log) : /\ OpsOf(log[i])' = OpsOf(log[i])
                            /\ ReceiptsOf(log[i])' = ReceiptsOf(log[i])
  BY HistoryStays
<1>2. Chain'
  <2>1. head.rev \in Nat /\ head'.rev \in Nat /\ head'.rev # 0
    BY DEF Chain, Grows, TypeOK, StoreTypeOK, HeadDoc
  <2>2. \A k \in 0..Len(log) : NameOf(k)' = NameOf(k)
    BY HistoryStays
  <2>3. \A i \in 1..Len(log) : i - 1 \in 0..Len(log) /\ log[i] \in 1..Len(batches')
    BY DEF Chain, Grows, TypeOK, StoreTypeOK
  <2>4. Len(log) \in 0..Len(log) /\ NameOf(Len(log))' = NameOf(Len(log))
    BY DEF NameOf, TypeOK, StoreTypeOK
  <2> QED BY <2>1, <2>2, <2>3, <2>4 DEF Chain, Grows
<1>3. ExactlyOnce'
  BY <1>1 DEF ExactlyOnce
<1>4. Committed' = Committed
  BY <1>1 DEF Committed
<1>5. ReceiptsCoverHistory'
  BY <1>1, <1>4 DEF ReceiptsCoverHistory, Grows
<1> QED BY <1>2, <1>3, <1>5

\* A write in flight for an older revision can no longer be applied.
LEMMA OldWritesSound ==
  ASSUME TypeOK, TypeOK', InflightSound, head'.rev > head.rev, inflight' \subseteq inflight
  PROVE  InflightSound'
BY DEF InflightSound, Sound, Current, TypeOK, StoreTypeOK, HeadDoc

LEMMA SoundStays ==
  ASSUME TypeOK, TypeOK', Chain, Grows, UNCHANGED <<head, log>>,
         NEW req \in HeadDoc, Sound(req)
  PROVE  Sound(req)'
<1>1. \A i \in 1..Len(log) : Covered(i) => Covered(i)'
  BY CoveredStays
<1>2. SoundMark(req) => SoundMark(req)'
  BY <1>1 DEF SoundMark, TypeOK, StoreTypeOK
<1>3. ASSUME SoundCommit(req) PROVE SoundCommit(req)'
  <2>1. req.batch \in 0..Len(batches) /\ req.batch \in 1..Len(batches')
        /\ batches'[req.batch] = batches[req.batch]
    BY <1>3 DEF SoundCommit, Grows, TypeOK, StoreTypeOK
  <2>2. OpsOf(req.batch)' = OpsOf(req.batch)
    BY <2>1, HistoryStays
  <2>3. \A m \in 1..Len(OpsOf(req.batch)) : ~UsedUpTo(OpsOf(req.batch)[m].id, Len(log))'
    <3> SUFFICES ASSUME NEW m \in 1..Len(OpsOf(req.batch))
                 PROVE  ~UsedUpTo(OpsOf(req.batch)[m].id, Len(log))'
      OBVIOUS
    <3> DEFINE id == OpsOf(req.batch)[m].id
               k  == Len(log)
    <3>1. ~UsedUpTo(id, k) /\ k \in 0..Len(log) /\ id' = id /\ k' = k
      BY <1>3, <2>2 DEF SoundCommit, TypeOK, StoreTypeOK
    <3> HIDE DEF id, k
    <3>2. UsedUpTo(id, k)' = UsedUpTo(id, k)
      BY <3>1, UsedStays
    <3> QED BY <3>1, <3>2 DEF id, k
  <2>4. Len(log) # 0 => Covered(Len(log))'
    <3>1. Len(log) # 0 => Len(log) \in 1..Len(log)
      BY DEF TypeOK, StoreTypeOK
    <3>2. Len(log) # 0 => Covered(Len(log))
      BY <1>3 DEF SoundCommit
    <3> QED BY <1>1, <3>1, <3>2 DEF Covered
  <2> QED BY <1>3, <2>1, <2>2, <2>3, <2>4 DEF SoundCommit, NoRepeat
<1> QED BY <1>2, <1>3 DEF Sound, Current

(***************************************************************************)
(* The head writes of a task are sound: what it saw of the head it loaded  *)
(* is true of the head if that has not moved.                              *)
(***************************************************************************)
LEMMA CommitSound ==
  ASSUME Inductive, task.at = "commit", Current(task.head)
  PROVE  SoundCommit(Request)
<1> USE DEF Inductive
<1>1. /\ Request.batch = task.cursor /\ Request.seq = task.head.seq + 1
      /\ Request.indexed = task.head.indexed
  BY CommitRequest
<1>2. task.head = head /\ task.kind = "flush" /\ task.head.indexed
  BY DEF TaskHeadSound, TaskSound
<1>3. /\ open /\ rhead.seq = head.seq /\ rhead.batch = head.batch
      /\ ReceiptsOf(head.batch) \subseteq receipts
  BY <1>2 DEF TaskSound, Known
<1>4. /\ task.cursor \in 1..Len(batches)
      /\ batches[task.cursor] = [parent |-> head.batch, seq |-> head.seq + 1,
                                 ops |-> pending, changes |-> doc]
  BY <1>2 DEF TaskSound, NextBatch
<1>5. OpsOf(task.cursor) = pending
  BY <1>4 DEF OpsOf, NoBatch, TypeOK, StoreTypeOK
<1>6. head.seq = Len(log) /\ Len(log) \in Nat
  BY DEF Chain, TypeOK, StoreTypeOK
<1>7. \A m \in 1..Len(pending) : ~UsedUpTo(pending[m].id, Len(log))
  BY <1>3, <1>6 DEF RoomSound
<1>8. Len(log) # 0 => Covered(Len(log))
  BY <1>3 DEF Chain, NameOf, Covered
<1> QED BY <1>1, <1>2, <1>4, <1>5, <1>6, <1>7, <1>8 DEF SoundCommit, RoomSound

LEMMA RequestSound ==
  ASSUME Inductive, Request # NoHead
  PROVE  Sound(Request)
<1> USE DEF Inductive
<1>1. Request.rev = task.head.rev /\ task.head.rev <= head.rev
  BY RequestType DEF TaskHeadSound
<1>2. task.head \in HeadDoc
  BY DEF TypeOK, TaskType
<1> SUFFICES ASSUME Current(task.head)
             PROVE  SoundMark(Request) \/ SoundCommit(Request)
  BY <1>1 DEF Sound, Current
<1>3. task.head = head
  BY DEF TaskHeadSound
<1>4. CASE task.at = "index"
  <2>1. /\ task.cursor = NoBatch /\ ~task.head.indexed
        /\ Request = [task.head EXCEPT !.indexed = TRUE]
    BY <1>4 DEF Request
  <2>2. Request.seq = head.seq /\ Request.batch = head.batch /\ Request.indexed = TRUE
    BY <1>2, <1>3, <2>1 DEF HeadDoc
  <2>3. \A i \in 1..(Len(log) - 1) : Covered(i)
    <3>1. \A i \in 1..head.seq : i > 0 => Covered(i)
      BY <1>3, <1>4, <2>1 DEF WalkSound, SeqOf
    <3> QED BY <3>1 DEF Chain, TypeOK, StoreTypeOK
  <2> QED BY <2>2, <2>3 DEF SoundMark
<1>5. CASE task.at = "promote"
  <2>1. Request = [task.head EXCEPT !.live = 2]
    BY <1>5 DEF Request
  <2>2. /\ Request.seq = head.seq /\ Request.batch = head.batch
        /\ Request.indexed = head.indexed
    BY <1>2, <1>3, <2>1 DEF HeadDoc
  <2> QED BY <2>2 DEF SoundMark, ReceiptsCoverHistory, Covered
<1>6. CASE task.at = "commit"
  BY <1>6, CommitSound
<1>7. CASE task.at # "index" /\ task.at # "promote" /\ task.at # "commit"
  BY <1>7 DEF Request
<1> QED BY <1>4, <1>5, <1>6, <1>7

-----------------------------------------------------------------------------
(***************************************************************************)
(* The steps.                                                              *)
(***************************************************************************)
StoreInv == Chain /\ ExactlyOnce /\ ReceiptsCoverHistory /\ InflightSound

TaskInv == TaskHeadSound /\ WalkSound /\ TaskSound

LEMMA StoreUnchanged ==
  ASSUME TypeOK, TypeOK', StoreInv, UNCHANGED storeVars
  PROVE  StoreInv' /\ Grows
<1>1. Grows
  BY DEF Grows, storeVars, TypeOK, StoreTypeOK
<1>2. Chain' /\ ExactlyOnce' /\ ReceiptsCoverHistory'
  BY <1>1, HistoryUnmoved DEF StoreInv, storeVars
<1>3. InflightSound'
  BY <1>1, SoundStays DEF StoreInv, InflightSound, storeVars, TypeOK, StoreTypeOK
<1> QED BY <1>1, <1>2, <1>3 DEF StoreInv

LEMMA AbandonSound ==
  ASSUME TypeOK, TypeOK', StoreInv, StoreInv', Grows, RoomSound, Abandon
  PROVE  RoomSound' /\ TaskInv'
<1>1. RoomSound'
  BY RoomStays DEF StoreInv, Abandon, RoomSound
<1> QED BY <1>1, IdleSound DEF StoreInv, Abandon, TaskInv

\* A room that is closed and forgotten.
LEMMA ClosedSound ==
  ASSUME TypeOK, TypeOK', pending' = <<>>, open' = FALSE,
         \A a \in Account : peer'[a] \notin {"opened", "joined"}
  PROVE  RoomSound'
BY DEF RoomSound, NoRepeat

LEMMA Evicted ==
  ASSUME NEW peers \in [Account -> PeerState],
         \A a \in Account : peers[a] # "joined", EvictIdle(peers, <<>>)
  PROVE  open' = FALSE /\ \A a \in Account : peer'[a] \notin {"opened", "joined"}
<1>1. \A a \in Account : Astray(peers[a]) \notin {"opened", "joined"}
  BY DEF Astray
<1> QED BY <1>1 DEF EvictIdle

LEMMA EvictedOrNot ==
  ASSUME NEW peers \in [Account -> PeerState], NEW left, EvictIdle(peers, left)
  PROVE  \/ /\ open' = FALSE /\ left = <<>>
            /\ \A a \in Account : peer'[a] \notin {"opened", "joined"}
         \/ peer' = peers /\ UNCHANGED <<open, timer, rhead, doc, recent>>
<1>1. CASE left = <<>> /\ \A a \in Account : peers[a] # "joined"
  BY <1>1, Evicted
<1>2. CASE ~(left = <<>> /\ \A a \in Account : peers[a] # "joined")
  BY <1>2 DEF EvictIdle
<1> QED BY <1>1, <1>2

LEMMA ConnectionStep ==
  ASSUME Inductive, TypeOK', NEW a \in Account,
         OpenExisting(a) \/ OpenLoad(a) \/ Subscribe(a) \/ Leave(a) \/ SubmitAstray(a)
  PROVE  Inductive'
<1> USE DEF Inductive
<1>1. StoreInv' /\ Grows
  BY StoreUnchanged DEF OpenExisting, OpenLoad, Subscribe, Leave, SubmitAstray, StoreInv
<1>2. AckedDurable'
  BY <1>1, AckStays DEF OpenExisting, OpenLoad, Subscribe, Leave, SubmitAstray
<1>3. RoomSound'
  <2>1. CASE OpenExisting(a)
    BY <1>1, <2>1, RoomStays DEF OpenExisting, RoomSound, TypeOK, RoomTypeOK
  <2>2. CASE OpenLoad(a)
    BY <1>1, <2>2, RoomStays DEF OpenLoad, RoomSound, roomVars
  <2>3. CASE Subscribe(a)
    BY <1>1, <2>3, RoomStays DEF Subscribe, RoomSound, TypeOK, RoomTypeOK
  <2>4. CASE SubmitAstray(a)
    BY <1>1, <2>4, RoomStays DEF SubmitAstray, RoomSound, TypeOK, RoomTypeOK
  <2>5. CASE Leave(a)
    <3> DEFINE peers == [peer EXCEPT ![a] = "out"]
    <3>1. peers \in [Account -> PeerState]
      BY DEF TypeOK, RoomTypeOK, PeerState
    <3>2. \A b \in Account : peers[b] \in {"opened", "joined"} => open
      BY DEF RoomSound, TypeOK, RoomTypeOK
    <3>3. EvictIdle(peers, pending) \/ (peer' = peers /\ UNCHANGED <<open, timer, rhead, doc, recent>>)
      BY <2>5 DEF Leave
    <3>4. pending' = pending
      BY <2>5 DEF Leave
    <3> HIDE DEF peers
    <3>5. \/ /\ open' = FALSE /\ pending = <<>>
             /\ \A b \in Account : peer'[b] \notin {"opened", "joined"}
          \/ peer' = peers /\ UNCHANGED <<open, timer, rhead, doc, recent>>
      BY <3>1, <3>3, EvictedOrNot
    <3> QED BY <1>1, <3>2, <3>4, <3>5, RoomStays, ClosedSound
  <2> QED BY <2>1, <2>2, <2>3, <2>4, <2>5
<1>4. TaskInv'
  <2>1. CASE OpenLoad(a)
    <3>1. Start("open", "index", a, None) /\ UNCHANGED storeVars /\ ~open'
      BY <2>1 DEF OpenLoad, roomVars
    <3>2. TaskHeadSound' /\ WalkSound'
      BY <3>1, StartSound
    <3>3. task'.kind = "open" /\ task'.at = "index"
      BY <3>1 DEF Start
    <3>4. TaskSound'
      BY <3>1, <3>3 DEF TaskSound
    <3> QED BY <3>2, <3>4 DEF TaskInv
  <2>2. CASE task' = Idle
    BY <1>1, <2>2, IdleSound DEF StoreInv, TaskInv
  <2> QED BY <2>1, <2>2 DEF OpenExisting, Subscribe, Leave, SubmitAstray
<1> QED BY <1>1, <1>2, <1>3, <1>4 DEF StoreInv, TaskInv

LEMMA OpenDoneStep ==
  ASSUME Inductive, TypeOK', OpenDone
  PROVE  Inductive'
<1> USE DEF Inductive
<1>1. StoreInv' /\ Grows
  BY StoreUnchanged DEF OpenDone, StoreInv
<1>2. AckedDurable'
  BY <1>1, AckStays DEF OpenDone
<1>3. TaskInv'
  BY <1>1, IdleSound DEF OpenDone, StoreInv, TaskInv
<1>4. RoomSound'
  <2>1. /\ rhead'.seq = task.head.seq /\ rhead'.batch = task.head.batch
        /\ recent' = {r \in ReceiptsOf(task.head.batch) : r.id \in OpId}
        /\ pending' = <<>> /\ open' = TRUE
        /\ log' = log /\ batches' = batches /\ head' = head
    BY DEF OpenDone, storeVars
  <2>2. task.head.indexed /\ head.indexed
    BY DEF OpenDone, At, TaskSound, TaskHeadSound
  <2>3. rhead'.seq \in 0..Len(log') /\ rhead'.batch = NameOf(rhead.seq)'
    BY <2>1 DEF TaskHeadSound, NameOf
  <2>4. ReceiptsOf(rhead.batch)' = ReceiptsOf(task.head.batch)
    BY <2>1 DEF ReceiptsOf, OpsOf
  <2>5. recent' \subseteq ReceiptsOf(rhead.batch)'
    BY <2>1, <2>4
  <2>6. \A r \in ReceiptsOf(rhead.batch)' : r.id \in OpId => r \in recent'
    BY <2>1, <2>4
  <2>7. NoRepeat(pending)'
    BY <2>1 DEF NoRepeat
  <2> QED BY <2>1, <2>2, <2>3, <2>5, <2>6, <2>7 DEF RoomSound
<1> QED BY <1>1, <1>2, <1>3, <1>4 DEF StoreInv, TaskInv

\* A loaded head, and the batch it names, are part of the history.
LEMMA LoadedCommitted ==
  ASSUME TypeOK, Chain, TaskHeadSound
  PROVE  ReceiptsOf(task.head.batch) \subseteq Committed
<1>1. CASE task.head.seq = 0
  <2>1. task.head.batch = NoBatch
    BY <1>1 DEF TaskHeadSound, NameOf
  <2> QED BY <2>1 DEF ReceiptsOf, OpsOf
<1>2. CASE task.head.seq # 0
  <2>1. task.head.seq \in 1..Len(log) /\ task.head.batch = log[task.head.seq]
    BY <1>2 DEF TaskHeadSound, NameOf, TypeOK, StoreTypeOK
  <2> QED BY <2>1 DEF Committed
<1> QED BY <1>1, <1>2

(***************************************************************************)
(* recoverCommit.  The operations that a recovered batch took out of the   *)
(* queue are those at its front, so what is left is still new.             *)
(***************************************************************************)
LEMMA RecoveredQueue ==
  ASSUME Inductive, open, OwnCommit(task.head)
  PROVE  /\ NoRepeat(Completed(task.head))
         /\ \A i \in 1..Len(Completed(task.head)) :
              ~UsedUpTo(Completed(task.head)[i].id, task.head.seq)
<1> USE DEF Inductive
<1> DEFINE left == Completed(task.head)
           k    == Len(OpsOf(task.head.batch))
           n    == Len(pending)
<1>1. /\ pending \in Seq(Edit) /\ n \in Nat /\ k \in 1..n
      /\ \A i \in 1..k : OpsOf(task.head.batch)[i] = pending[i]
  BY DEF OwnCommit, TypeOK, RoomTypeOK
<1>2. left = SubSeq(pending, k + 1, n)
  BY DEF Completed
<1>3. /\ rhead.seq \in Nat /\ task.head.seq = rhead.seq + 1
      /\ task.head.seq \in 1..Len(log) /\ task.head.batch = log[task.head.seq]
  <2>1. rhead.seq \in Nat /\ task.head.seq = rhead.seq + 1
    BY DEF OwnCommit, TypeOK, RoomTypeOK
  <2> QED BY <2>1 DEF TaskHeadSound, NameOf, TypeOK, StoreTypeOK
<1>4. NoRepeat(pending) /\ \A i \in 1..n : ~UsedUpTo(pending[i].id, rhead.seq)
  BY DEF RoomSound
<1> HIDE DEF left, n
<1>5. Len(left) = n - k /\ \A i \in 1..Len(left) : left[i] = pending[i + k] /\ i + k \in 1..n
  <2> HIDE DEF k
  <2> QED BY <1>1, <1>2
<1>6. NoRepeat(left)
  <2> SUFFICES ASSUME NEW i \in 1..Len(left), NEW j \in 1..Len(left),
                      left[i].id = left[j].id
               PROVE  i = j
    BY DEF NoRepeat
  <2>1. i + k = j + k
    BY <1>4, <1>5 DEF NoRepeat, n
  <2> HIDE DEF k
  <2> QED BY <1>1, <1>5, <2>1
<1>7. ASSUME NEW i \in 1..Len(left) PROVE ~UsedUpTo(left[i].id, task.head.seq)
  <2>1. left[i] = pending[i + k] /\ i + k \in 1..n
    BY <1>5
  <2>2. ~UsedUpTo(left[i].id, rhead.seq)
    BY <1>4, <2>1
  <2>3. ~OccursIn(left[i].id, log[task.head.seq])
    <3> SUFFICES ASSUME NEW m \in 1..k, pending[m].id = pending[i + k].id PROVE FALSE
      BY <1>1, <1>3, <2>1 DEF OccursIn
    <3>1. m \in 1..n /\ m # i + k
      <4> HIDE DEF k
      <4> QED BY <1>1, <1>5
    <3> QED BY <1>4, <2>1, <3>1 DEF NoRepeat, n
  <2> QED BY <1>3, <2>2, <2>3 DEF UsedUpTo
<1> QED BY <1>6, <1>7 DEF left

\* After a recovery the room is where the task's head is.
LEMMA RecoveredRoom ==
  ASSUME Inductive, TypeOK', UNCHANGED storeVars, UNCHANGED <<open, peer>>,
         OwnCommit(task.head), open,
         rhead' = Known(task.head), recent' = ReceiptsOf(task.head.batch),
         pending' = Completed(task.head)
  PROVE  RoomSound'
<1> USE DEF Inductive
<1>1. StoreInv' /\ Grows
  BY StoreUnchanged DEF StoreInv
<1>2. /\ rhead'.seq = task.head.seq /\ rhead'.batch = task.head.batch
      /\ log' = log /\ batches' = batches /\ head' = head /\ open' = TRUE
  BY DEF storeVars, Known
<1>3. rhead'.seq \in 0..Len(log') /\ rhead'.batch = NameOf(rhead.seq)'
  BY <1>2 DEF TaskHeadSound, NameOf
<1>4. ReceiptsOf(rhead.batch)' = recent'
  BY <1>2 DEF ReceiptsOf, OpsOf
<1>5. NoRepeat(pending)'
  BY RecoveredQueue DEF NoRepeat
<1>6. \A i \in 1..Len(pending') : ~UsedUpTo(pending[i].id, rhead.seq)'
  <2> SUFFICES ASSUME NEW i \in 1..Len(pending')
               PROVE  ~UsedUpTo(pending[i].id, rhead.seq)'
    OBVIOUS
  <2>1. ~UsedUpTo(Completed(task.head)[i].id, task.head.seq)
    BY RecoveredQueue
  <2>2. pending'[i].id = Completed(task.head)[i].id
    OBVIOUS
  <2> QED BY <1>2, <2>1, <2>2 DEF UsedUpTo, OccursIn, OpsOf
<1>7. \A a \in Account : peer'[a] \in {"opened", "joined"} => open'
  BY <1>2
<1>8. head'.indexed
  BY <1>2 DEF RoomSound
<1> QED BY <1>2, <1>3, <1>4, <1>5, <1>6, <1>7, <1>8 DEF RoomSound

LEMMA RecoveredAcked ==
  ASSUME Inductive, TypeOK', UNCHANGED storeVars, Announce(task.head)
  PROVE  AckedDurable'
<1> USE DEF Inductive
<1>1. Grows
  BY StoreUnchanged DEF StoreInv
<1>2. ReceiptsOf(task.head.batch) \subseteq Committed'
  BY <1>1, LoadedCommitted, CommittedStays
<1> QED BY <1>1, <1>2, AckStays DEF Announce

(***************************************************************************)
(* SubmitTo.  An identifier without a receipt, in a room that is up to     *)
(* date with the head, is in no batch the room knows of.                   *)
(***************************************************************************)
LEMMA FreshUnused ==
  ASSUME Inductive, open, NEW id \in OpId, Receipted(id) = {}
  PROVE  ~UsedUpTo(id, rhead.seq)
<1> USE DEF Inductive
<1> SUFFICES ASSUME NEW i \in 1..rhead.seq, OccursIn(id, log[i]) PROVE FALSE
  BY DEF UsedUpTo
<1>1. i \in 1..Len(log) /\ rhead.seq \in 0..Len(log) /\ rhead.batch = NameOf(rhead.seq) /\ head.indexed
  BY DEF RoomSound, TypeOK, StoreTypeOK
<1>2. PICK r \in ReceiptsOf(log[i]) : r.id = id
  <2>1. PICK m \in 1..Len(OpsOf(log[i])) : OpsOf(log[i])[m].id = id
    BY DEF OccursIn
  <2>2. [id |-> OpsOf(log[i])[m].id, hash |-> OpsOf(log[i])[m].hash, seq |-> batches[log[i]].seq]
          \in ReceiptsOf(log[i])
    BY DEF ReceiptsOf
  <2> QED BY <2>1, <2>2
<1>3. CASE i = rhead.seq
  <2>1. rhead.batch = log[i]
    BY <1>1, <1>3 DEF NameOf
  <2>2. r \in recent
    BY <1>2, <2>1 DEF RoomSound
  <2> QED BY <1>2, <2>2 DEF Receipted
<1>4. CASE i # rhead.seq
  <2>1. i \in 1..(Len(log) - 1)
    BY <1>1, <1>4 DEF TypeOK, StoreTypeOK
  <2>2. r \in receipts
    BY <1>1, <1>2, <2>1 DEF ReceiptsCoverHistory
  <2> QED BY <1>2, <2>2 DEF Receipted
<1> QED BY <1>3, <1>4

LEMMA AppliedRoom ==
  ASSUME Inductive, TypeOK', SubmitApplied
  PROVE  RoomSound'
<1> USE DEF Inductive
<1> DEFINE e == task.edit
           n == Len(pending)
<1>1. e \in Edit /\ e.id \in OpId /\ open
  BY DEF SubmitApplied, Deciding, At, TaskSound, Edit
<1>2. pending \in Seq(Edit) /\ n \in Nat /\ pending' = Append(pending, e)
  BY DEF SubmitApplied, TypeOK, RoomTypeOK
<1>3. /\ ~UsedUpTo(e.id, rhead.seq)
      /\ \A i \in 1..n : pending[i].id # e.id
  BY <1>1, FreshUnused DEF SubmitApplied, Fresh, IsPending
<1>4. /\ Len(pending') = n + 1 /\ pending'[n + 1] = e
      /\ \A i \in 1..n : pending'[i] = pending[i]
  BY <1>2
<1>5. NoRepeat(pending)'
  <2> SUFFICES ASSUME NEW i \in 1..(n + 1), NEW j \in 1..(n + 1), pending'[i].id = pending'[j].id
               PROVE  i = j
    BY <1>4 DEF NoRepeat
  <2>1. \A k \in 1..(n + 1) : k \in 1..n \/ k = n + 1
    BY <1>2
  <2>2. \A k, l \in 1..n : pending[k].id = pending[l].id => k = l
    BY DEF RoomSound, NoRepeat
  <2> HIDE DEF n, e
  <2> QED BY <1>3, <1>4, <2>1, <2>2
<1>6. \A i \in 1..Len(pending') : ~UsedUpTo(pending[i].id, rhead.seq)'
  <2> SUFFICES ASSUME NEW i \in 1..(n + 1)
               PROVE  ~UsedUpTo(pending[i].id, rhead.seq)'
    BY <1>4
  <2>1. ~UsedUpTo(pending'[i].id, rhead.seq)
    <3>1. \A k \in 1..n : ~UsedUpTo(pending[k].id, rhead.seq)
      BY <1>1 DEF RoomSound
    <3>2. i \in 1..n \/ i = n + 1
      BY <1>2
    <3> HIDE DEF n, e
    <3> QED BY <1>3, <1>4, <3>1, <3>2
  <2>2. rhead' = rhead /\ log' = log /\ batches' = batches
    BY DEF SubmitApplied, storeVars
  <2> QED BY <2>1, <2>2 DEF UsedUpTo, OccursIn, OpsOf
<1>7. UNCHANGED <<open, peer, rhead, recent, head, log, batches>>
  BY DEF SubmitApplied, storeVars
<1>8. ReceiptsOf(rhead.batch)' = ReceiptsOf(rhead.batch) /\ NameOf(rhead.seq)' = NameOf(rhead.seq)
  BY <1>7 DEF ReceiptsOf, OpsOf, NameOf
<1> QED BY <1>1, <1>5, <1>6, <1>7, <1>8 DEF RoomSound

LEMMA SubmitStep ==
  ASSUME Inductive, TypeOK', Submit
  PROVE  Inductive'
<1> USE DEF Inductive
<1>1. ASSUME NEW a \in Account, SubmitAstray(a) PROVE Inductive'
  BY <1>1, ConnectionStep
<1>2. ASSUME NEW a \in Account, NEW e \in Edit, SubmitLoad(a, e) PROVE Inductive'
  <2>1. StoreInv' /\ Grows
    BY <1>2, StoreUnchanged DEF SubmitLoad, StoreInv
  <2>2. AckedDurable'
    BY <1>2, <2>1, AckStays DEF SubmitLoad
  <2>3. RoomSound'
    BY <1>2, <2>1, RoomStays DEF SubmitLoad, RoomSound, roomVars
  <2>4. Start("submit", "decide", a, e) /\ UNCHANGED storeVars /\ open'
    BY <1>2 DEF SubmitLoad, RoomSound, roomVars
  <2>5. TaskHeadSound' /\ WalkSound'
    BY <2>4, StartSound
  <2>6. task'.kind = "submit" /\ task'.at = "decide" /\ task'.edit = e
    BY <2>4 DEF Start
  <2>7. TaskSound'
    BY <2>4, <2>6 DEF TaskSound
  <2> QED BY <2>1, <2>2, <2>3, <2>5, <2>7 DEF StoreInv
<1>3. ASSUME SubmitRefused \/ SubmitRejected PROVE Inductive'
  <2>1. StoreInv' /\ Grows
    BY <1>3, StoreUnchanged DEF SubmitRefused, SubmitRejected, StoreInv
  <2>2. AckedDurable'
    BY <1>3, <2>1, AckStays DEF SubmitRefused, SubmitRejected
  <2>3. RoomSound'
    BY <1>3, <2>1, RoomStays DEF SubmitRefused, SubmitRejected, RoomSound, roomVars
  <2>4. TaskInv'
    BY <1>3, <2>1, IdleSound DEF SubmitRefused, SubmitRejected, StoreInv, TaskInv
  <2> QED BY <2>1, <2>2, <2>3, <2>4 DEF StoreInv, TaskInv
<1>4. CASE SubmitDuplicate
  <2>1. StoreInv' /\ Grows
    BY <1>4, StoreUnchanged DEF SubmitDuplicate, StoreInv
  <2>2. recent \cup receipts \subseteq Committed
    <3>1. open /\ rhead = Known(task.head)
      BY <1>4 DEF SubmitDuplicate, Deciding, At, Moved, TaskSound, Known, TypeOK, RoomTypeOK
    <3>2. recent \subseteq ReceiptsOf(task.head.batch)
      BY <3>1 DEF RoomSound, Known
    <3> QED BY <3>2, LoadedCommitted DEF ReceiptsCoverHistory
  <2>3. acked' \subseteq acked \cup Committed'
    BY <1>4, <2>1, <2>2, CommittedStays DEF SubmitDuplicate, Answer, Receipted
  <2>4. RoomSound'
    BY <1>4, <2>1, RoomStays DEF SubmitDuplicate, RoomSound, roomVars
  <2>5. TaskInv'
    BY <1>4, <2>1, IdleSound DEF SubmitDuplicate, StoreInv, TaskInv
  <2> QED BY <2>1, <2>3, <2>4, <2>5, AckStays DEF StoreInv, TaskInv
<1>5. CASE SubmitRecovers
  <2>1. StoreInv' /\ Grows
    BY <1>5, StoreUnchanged DEF SubmitRecovers, StoreInv
  <2>2. AckedDurable'
    BY <1>5, RecoveredAcked DEF SubmitRecovers
  <2>3. open /\ task.kind = "submit" /\ task.at = "decide"
    BY <1>5 DEF SubmitRecovers, At, TaskSound
  <2>4. RoomSound'
    BY <1>5, <2>3, RecoveredRoom DEF SubmitRecovers
  <2>5. task' = task /\ open' = open
    BY <1>5 DEF SubmitRecovers
  <2>6. TaskHeadSound' /\ WalkSound'
    BY <2>1, <2>5, TaskHeadStays, WalkStays
  <2>7. TaskSound'
    BY <2>3, <2>5 DEF TaskSound
  <2> QED BY <2>1, <2>2, <2>4, <2>6, <2>7 DEF StoreInv
<1>6. CASE SubmitApplied
  <2>1. StoreInv' /\ Grows
    BY <1>6, StoreUnchanged DEF SubmitApplied, StoreInv
  <2>2. AckedDurable'
    BY <1>6, <2>1, AckStays DEF SubmitApplied
  <2>3. TaskInv'
    BY <1>6, <2>1, IdleSound DEF SubmitApplied, StoreInv, TaskInv
  <2> QED BY <1>6, <2>1, <2>2, <2>3, AppliedRoom DEF StoreInv, TaskInv
<1> QED BY <1>1, <1>2, <1>3, <1>4, <1>5, <1>6 DEF Submit

(***************************************************************************)
(* indexCommittedReceipts.                                                 *)
(***************************************************************************)
LEMMA CursorCommitted ==
  ASSUME Inductive, Indexing
  PROVE  \E k \in 1..task.head.seq :
           /\ task.cursor = log[k] /\ k \in 1..Len(log)
           /\ batches[task.cursor].parent = NameOf(k - 1)
           /\ SeqOf(task.cursor) = k
           /\ ReceiptsOf(task.cursor) \subseteq Committed
<1> USE DEF Inductive
<1>1. PICK k \in 1..task.head.seq : task.cursor = log[k]
  BY DEF Indexing, WalkSound
<1>2. k \in 1..Len(log)
  BY DEF TaskHeadSound, TypeOK, StoreTypeOK
<1>3. batches[task.cursor].parent = NameOf(k - 1) /\ SeqOf(task.cursor) = k
  BY <1>1, <1>2 DEF Chain, Indexing, SeqOf
<1>4. ReceiptsOf(task.cursor) \subseteq Committed
  BY <1>1, <1>2 DEF Committed
<1> QED BY <1>1, <1>2, <1>3, <1>4

\* Writing receipts of the batch at the cursor, all of them or not.
LEMMA ReceiptsWritten ==
  ASSUME Inductive, TypeOK', Indexing, UNCHANGED <<head, batches, inflight, log>>,
         NEW part \in SUBSET ReceiptsOf(task.cursor), receipts' = receipts \cup part
  PROVE  StoreInv' /\ Grows
<1> USE DEF Inductive
<1>1. Grows
  BY DEF Grows, TypeOK, StoreTypeOK
<1>2. receipts' \subseteq receipts \cup Committed
  BY CursorCommitted
<1>3. Chain' /\ ExactlyOnce' /\ ReceiptsCoverHistory'
  BY <1>1, <1>2, HistoryUnmoved
<1>4. InflightSound'
  BY <1>1, SoundStays DEF InflightSound, TypeOK, StoreTypeOK
<1> QED BY <1>1, <1>3, <1>4 DEF StoreInv

LEMMA WalkStep ==
  ASSUME Inductive, TypeOK', IndexBatch
  PROVE  TaskInv'
<1> USE DEF Inductive
<1>1. /\ Indexing /\ task' = [task EXCEPT !.cursor = NextCursor]
      /\ UNCHANGED <<head, batches, inflight, log, roomVars>>
      /\ receipts' = receipts \cup ReceiptsOf(task.cursor)
  BY DEF IndexBatch
<1>2. StoreInv' /\ Grows
  BY <1>1, ReceiptsWritten
<1>3. /\ task'.at = "index" /\ task'.kind = task.kind /\ task'.head = task.head
      /\ task'.cursor = NextCursor /\ task'.edit = task.edit
  BY <1>1 DEF Indexing, TypeOK, TaskType
<1>4. PICK k \in 1..task.head.seq :
        /\ task.cursor = log[k] /\ k \in 1..Len(log)
        /\ batches[task.cursor].parent = NameOf(k - 1) /\ SeqOf(task.cursor) = k
  BY <1>1, CursorCommitted
<1>5. TaskHeadSound'
  BY <1>2, <1>3, TaskHeadStays
<1>6. TaskSound'
  BY <1>1, <1>3 DEF TaskSound, roomVars, Indexing, Known
<1>7. CASE task.head.indexed
  <2>1. task'.cursor = NoBatch /\ task.cursor # NoBatch
    BY <1>1, <1>3, <1>7 DEF NextCursor, Indexing
  <2>2. task.cursor = task.head.batch
    BY <1>1, <1>7, <2>1 DEF WalkSound, Indexing
  <2>3. (ReceiptsOf(task.head.batch) \subseteq receipts)'
    BY <1>1, <1>3, <2>2, SMTT(30) DEF ReceiptsOf, OpsOf
  <2>4. task'.kind \in {"open", "flush"}
    BY <1>1, <1>3 DEF WalkSound, Indexing
  <2>5. WalkSound'
    BY <1>3, <1>7, <2>1, <2>3, <2>4 DEF WalkSound
  <2> QED BY <1>5, <1>6, <2>5 DEF TaskInv
<1>8. CASE ~task.head.indexed
  <2>1. task'.cursor = NameOf(k - 1) /\ task.head.seq \in Nat
    BY <1>3, <1>4, <1>8 DEF NextCursor, TypeOK, TaskType, HeadDoc
  <2>2. NameOf(k - 1) # NoBatch => k - 1 \in 1..task.head.seq /\ NameOf(k - 1) = log[k - 1]
    BY <2>1 DEF NameOf
  <2>3. SeqOf(NameOf(k - 1)) = k - 1
    <3>1. CASE k = 1
      BY <3>1 DEF NameOf, SeqOf
    <3>2. CASE k # 1
      <4>1. k - 1 \in 1..Len(log) /\ NameOf(k - 1) = log[k - 1]
        BY <1>4, <3>2 DEF NameOf, TypeOK, StoreTypeOK
      <4> QED BY <4>1 DEF Chain, SeqOf, NoBatch
    <3> QED BY <3>1, <3>2
  <2>4. SeqOf(task.cursor)' = k - 1
    BY <1>1, <2>1, <2>3 DEF SeqOf
  <2>5. \A i \in 1..task.head.seq : i > k - 1 => Covered(i)'
    <3> SUFFICES ASSUME NEW i \in 1..task.head.seq, i > k - 1 PROVE Covered(i)'
      OBVIOUS
    <3>1. CASE i = k
      BY <1>1, <1>4, <3>1 DEF Covered, ReceiptsOf, OpsOf
    <3>2. CASE i # k
      <4>1. Covered(i)
        BY <1>1, <1>4, <1>8, <3>2 DEF WalkSound, Indexing
      <4> QED BY <1>1, <4>1 DEF Covered, ReceiptsOf, OpsOf
    <3> QED BY <3>1, <3>2
  <2>6. task'.cursor # NoBatch => \E j \in 1..task'.head.seq : task'.cursor = log'[j]
    BY <1>1, <1>3, <2>1, <2>2
  <2>7. task'.kind \in {"open", "flush"}
    BY <1>1, <1>3 DEF WalkSound, Indexing
  <2>8. WalkSound'
    BY <1>3, <1>8, <2>4, <2>5, <2>6, <2>7 DEF WalkSound
  <2> QED BY <1>5, <1>6, <2>8 DEF TaskInv
<1> QED BY <1>7, <1>8

\* What the walk has done when its cursor ran off the first batch.
LEMMA WalkDone ==
  ASSUME Inductive, task.at = "index", task.cursor = NoBatch
  PROVE  ReceiptsOf(task.head.batch) \subseteq receipts
<1> USE DEF Inductive
<1>1. CASE task.head.indexed
  <2>1. ReceiptsOf(NoBatch) = {}
    BY DEF ReceiptsOf, OpsOf
  <2> QED BY <1>1, <2>1 DEF WalkSound
<1>2. CASE ~task.head.indexed
  <2>1. CASE task.head.seq = 0
    BY <2>1 DEF TaskHeadSound, NameOf, ReceiptsOf, OpsOf
  <2>2. CASE task.head.seq # 0
    <3>1. task.head.seq \in 1..task.head.seq /\ task.head.seq > 0
      BY <2>2 DEF TypeOK, TaskType, HeadDoc
    <3>2. Covered(task.head.seq)
      BY <1>2, <3>1 DEF WalkSound, SeqOf
    <3> QED BY <2>2, <3>2 DEF Covered, TaskHeadSound, NameOf
  <2> QED BY <2>1, <2>2
<1> QED BY <1>1, <1>2

LEMMA InstalledRequest ==
  ASSUME Inductive, TypeOK', Request # NoHead, Current(Request), Install(Request),
         UNCHANGED <<batches, receipts, inflight>>
  PROVE  StoreInv' /\ Grows /\ head' = Stamped(Request)
<1> USE DEF Inductive
<1>1. Request \in HeadDoc /\ Sound(Request)
  BY RequestType, RequestSound
<1>2. Chain' /\ ExactlyOnce' /\ ReceiptsCoverHistory' /\ Grows /\ head'.rev > head.rev
  BY <1>1, WriteApplied
<1>3. InflightSound'
  BY <1>2, OldWritesSound
<1> QED BY <1>2, <1>3 DEF StoreInv, Install

LEMMA IndexStep ==
  ASSUME Inductive, TypeOK', Index
  PROVE  Inductive'
<1> USE DEF Inductive
<1>1. CASE IndexBatch
  <2>1. StoreInv' /\ Grows
    BY <1>1, ReceiptsWritten DEF IndexBatch
  <2>2. RoomSound'
    BY <1>1, <2>1, RoomStays DEF IndexBatch, RoomSound, roomVars
  <2>3. AckedDurable'
    BY <1>1, <2>1, AckStays DEF IndexBatch
  <2> QED BY <1>1, <2>1, <2>2, <2>3, WalkStep DEF StoreInv, TaskInv
<1>2. CASE IndexFails
  <2>1. StoreInv' /\ Grows
    BY <1>2, ReceiptsWritten DEF IndexFails
  <2>2. RoomSound' /\ TaskInv'
    BY <1>2, <2>1, AbandonSound DEF IndexFails, StoreInv
  <2>3. AckedDurable'
    BY <1>2, <2>1, AckStays DEF IndexFails
  <2> QED BY <2>1, <2>2, <2>3 DEF StoreInv, TaskInv
<1>3. CASE IndexDone
  <2>1. StoreInv' /\ Grows
    BY <1>3, StoreUnchanged DEF IndexDone, StoreInv
  <2>2. RoomSound'
    BY <1>3, <2>1, RoomStays DEF IndexDone, RoomSound, roomVars
  <2>3. AckedDurable'
    BY <1>3, <2>1, AckStays DEF IndexDone
  <2>4. /\ task'.kind = task.kind /\ task'.head = task.head /\ task.head.indexed
        /\ task'.at = AfterIndex /\ AfterIndex \in {"promote", "put"}
        /\ UNCHANGED <<storeVars, roomVars>>
    BY <1>3 DEF IndexDone, AfterIndex, TypeOK, TaskType
  <2>5. TaskHeadSound' /\ WalkSound'
    BY <2>1, <2>4, TaskHeadStays DEF WalkSound
  <2>6. (ReceiptsOf(task.head.batch) \subseteq receipts)'
    BY <1>3, <2>1, <2>4, WalkDone, TaskReceiptsStay DEF IndexDone
  <2>7. task.kind \in {"open", "flush"}
    BY <1>3 DEF IndexDone, WalkSound
  <2>8. TaskSound'
    BY <1>3, <2>4, <2>6, <2>7 DEF TaskSound, AfterIndex, IndexDone, roomVars, Known
  <2> QED BY <2>1, <2>2, <2>3, <2>5, <2>8 DEF StoreInv
<1>4. CASE MarkIndexed
  <2>1. StoreInv' /\ Grows /\ head' = Stamped(Request)
    BY <1>4, InstalledRequest DEF MarkIndexed
  <2>2. RoomSound'
    BY <1>4, <2>1, RoomStays DEF MarkIndexed, RoomSound, roomVars, StoreInv
  <2>3. AckedDurable'
    BY <1>4, <2>1, AckStays DEF MarkIndexed
  <2>4. /\ task'.kind = task.kind /\ task'.head = head'
        /\ task'.at = AfterIndex /\ AfterIndex \in {"promote", "put"}
        /\ UNCHANGED <<batches, receipts, roomVars>>
    BY <1>4, <2>1 DEF MarkIndexed, AfterIndex, TypeOK, TaskType
  <2>5. /\ task.at = "index" /\ task.cursor = NoBatch
        /\ Request = [task.head EXCEPT !.indexed = TRUE]
    BY <1>4 DEF MarkIndexed, Request
  <2>6. /\ Request.batch = task.head.batch /\ Request.seq = task.head.seq
        /\ Request.indexed = TRUE /\ Request \in HeadDoc
    BY <2>5, RequestType, <1>4 DEF MarkIndexed, TypeOK, TaskType, HeadDoc
  <2>7. head'.batch = task.head.batch /\ head'.seq = task.head.seq /\ head'.indexed
    BY <2>6, StampedFields, <1>4 DEF MarkIndexed
  <2>8. TaskHeadSound' /\ WalkSound'
    BY <2>1, <2>4, HeldHead DEF StoreInv, WalkSound
  <2>9. (ReceiptsOf(task.head.batch) \subseteq receipts)'
    BY <2>4, <2>5, <2>7, WalkDone DEF ReceiptsOf, OpsOf
  <2>10. task.kind \in {"open", "flush"}
    BY <2>5 DEF WalkSound
  <2>11. TaskSound'
    BY <2>4, <2>5, <2>7, <2>9, <2>10 DEF TaskSound, AfterIndex, roomVars, Known
  <2> QED BY <2>1, <2>2, <2>3, <2>8, <2>11 DEF StoreInv
<1> QED BY <1>1, <1>2, <1>3, <1>4 DEF Index

(***************************************************************************)
(* Promotion, conflicts, lost answers and failures.                        *)
(***************************************************************************)
LEMMA PromoteStep ==
  ASSUME Inductive, TypeOK', Promote
  PROVE  Inductive'
<1> USE DEF Inductive
<1>1. StoreInv' /\ Grows /\ head' = Stamped(Request)
  BY InstalledRequest DEF Promote
<1>2. RoomSound'
  BY <1>1, RoomStays DEF Promote, RoomSound, roomVars, StoreInv
<1>3. AckedDurable'
  BY <1>1, AckStays DEF Promote
<1>4. /\ task'.kind = "open" /\ task'.at = "promote" /\ task'.head = head'
      /\ UNCHANGED <<batches, receipts, roomVars>>
  BY <1>1 DEF Promote, TaskSound, TypeOK, TaskType
<1>5. Request = [task.head EXCEPT !.live = 2]
  BY DEF Promote, Request
<1>6. /\ Request.batch = task.head.batch /\ Request.indexed = task.head.indexed
      /\ Request \in HeadDoc
  BY <1>5, RequestType DEF Promote, TypeOK, TaskType, HeadDoc
<1>7. head'.batch = task.head.batch /\ head'.indexed = task.head.indexed
  BY <1>6, StampedFields DEF Promote
<1>8. TaskHeadSound' /\ WalkSound'
  BY <1>1, <1>4, HeldHead DEF StoreInv, WalkSound
<1>9. task.head.indexed /\ (ReceiptsOf(task.head.batch) \subseteq receipts)'
  BY <1>4, <1>7 DEF Promote, TaskSound, ReceiptsOf, OpsOf
<1>10. ~open'
  BY <1>4 DEF Promote, TaskSound, roomVars
<1>11. TaskSound'
  BY <1>4, <1>7, <1>9, <1>10 DEF TaskSound
<1> QED BY <1>1, <1>2, <1>3, <1>8, <1>11 DEF StoreInv

LEMMA FailureStep ==
  ASSUME Inductive, TypeOK', HeadConflict \/ HeadAmbiguous \/ StoreFails
  PROVE  Inductive'
<1> USE DEF Inductive
<1>1. Abandon /\ UNCHANGED <<head, batches, receipts, log, acked>>
  BY DEF HeadConflict, HeadAmbiguous, StoreFails, storeVars
<1>2. StoreInv' /\ Grows
  <2>1. CASE UNCHANGED storeVars
    BY <2>1, StoreUnchanged DEF StoreInv
  <2>2. CASE HeadAmbiguous
    <3>1. Grows
      BY <1>1 DEF Grows, TypeOK, StoreTypeOK
    <3>2. Chain' /\ ExactlyOnce' /\ ReceiptsCoverHistory'
      BY <1>1, <3>1, HistoryUnmoved
    <3>3. \A req \in inflight' : Sound(req) /\ req \in HeadDoc
      BY <2>2, RequestSound, RequestType
         DEF HeadAmbiguous, InflightSound, TypeOK, StoreTypeOK
    <3>4. InflightSound'
      BY <1>1, <3>1, <3>3, SoundStays DEF InflightSound
    <3> QED BY <3>1, <3>2, <3>4 DEF StoreInv
  <2> QED BY <2>1, <2>2 DEF HeadConflict, StoreFails
<1>3. AckedDurable'
  BY <1>1, <1>2, AckStays
<1> QED BY <1>1, <1>2, <1>3, AbandonSound DEF StoreInv, TaskInv

(***************************************************************************)
(* Flush.                                                                  *)
(***************************************************************************)
LEMMA FlushPutStep ==
  ASSUME Inductive, TypeOK', FlushPut
  PROVE  Inductive'
<1> USE DEF Inductive
<1>1. PICK n \in 1..(Len(batches) + 1) :
        /\ PutBatch(NextBatch, n)
        /\ \/ /\ task' = [task EXCEPT !.at = "commit", !.cursor = n]
              /\ UNCHANGED <<roomVars, budget>>
           \/ SpendFault /\ Abandon
  BY DEF FlushPut
<1>2. UNCHANGED <<head, receipts, inflight, log, acked>> /\ task.at = "put"
  BY DEF FlushPut, At
<1>3. /\ Len(batches) <= Len(batches')
      /\ \A m \in 1..Len(batches) : batches'[m] = batches[m]
      /\ n \in 1..Len(batches') /\ batches'[n] = NextBatch
  <2>1. CASE Named(NextBatch, n) /\ UNCHANGED batches
    BY <2>1 DEF Named, TypeOK, StoreTypeOK
  <2>2. CASE n = Len(batches) + 1 /\ batches' = Append(batches, NextBatch)
    BY <2>2, NextBatchType DEF TypeOK, StoreTypeOK
  <2> QED BY <1>1, <2>1, <2>2 DEF PutBatch
<1>4. Grows
  BY <1>2, <1>3 DEF Grows, TypeOK, StoreTypeOK
<1>5. Chain' /\ ExactlyOnce' /\ ReceiptsCoverHistory'
  BY <1>2, <1>4, HistoryUnmoved
<1>6. InflightSound'
  BY <1>2, <1>4, SoundStays DEF InflightSound, TypeOK, StoreTypeOK
<1>7. AckedDurable'
  BY <1>2, <1>4, AckStays
<1>8. CASE SpendFault /\ Abandon
  BY <1>4, <1>5, <1>6, <1>7, <1>8, AbandonSound DEF StoreInv, TaskInv
<1>9. CASE task' = [task EXCEPT !.at = "commit", !.cursor = n] /\ UNCHANGED <<roomVars, budget>>
  <2>1. /\ task'.at = "commit" /\ task'.cursor = n /\ task'.kind = task.kind
        /\ task'.head = task.head
    BY <1>9 DEF TypeOK, TaskType
  <2>2. RoomSound'
    BY <1>4, <1>9, RoomStays DEF RoomSound, roomVars
  <2>3. TaskHeadSound' /\ WalkSound'
    BY <1>4, <2>1, TaskHeadStays DEF WalkSound
  <2>4. (ReceiptsOf(task.head.batch) \subseteq receipts)'
    BY <1>2, <1>4, <2>1, TaskReceiptsStay DEF TaskSound
  <2>5. batches'[task'.cursor] = NextBatch'
    BY <1>3, <1>9, <2>1 DEF NextBatch, roomVars
  <2>6. TaskSound'
    BY <1>2, <1>3, <1>9, <2>1, <2>4, <2>5 DEF TaskSound, roomVars, Known
  <2> QED BY <1>5, <1>6, <1>7, <2>2, <2>3, <2>6
<1> QED BY <1>1, <1>8, <1>9

LEMMA FlushCommitStep ==
  ASSUME Inductive, TypeOK', FlushCommit
  PROVE  Inductive'
<1> USE DEF Inductive
<1>1. /\ task.at = "commit" /\ task.kind = "flush" /\ Current(Request) /\ Install(Request)
      /\ pending' = <<>> /\ acked' = acked \cup ReceiptsOf(task.cursor)
      /\ task' = Idle /\ UNCHANGED <<batches, receipts, inflight>>
  BY DEF FlushCommit, At
<1>2. /\ Request # NoHead /\ Request \in HeadDoc /\ Request.batch = task.cursor
      /\ Current(task.head)
  BY <1>1, CommitRequest, RequestType DEF Current
<1>3. SoundCommit(Request)
  BY <1>1, <1>2, CommitSound
<1>4. StoreInv' /\ Grows
  BY <1>1, <1>2, InstalledRequest
<1>5. /\ Len(log') = Len(log) + 1 /\ log'[Len(log) + 1] = task.cursor /\ Len(log) \in Nat
  BY <1>1, <1>2, <1>3, CommitAppends DEF TypeOK, StoreTypeOK
<1>6. ReceiptsOf(task.cursor) \subseteq Committed'
  <2> SUFFICES ASSUME NEW r \in ReceiptsOf(task.cursor) PROVE r \in Committed'
    OBVIOUS
  <2>1. PICK i \in 1..Len(log') : log'[i] = task.cursor
    BY <1>5
  <2>2. r \in ReceiptsOf(log[i])'
    BY <1>1, <2>1 DEF ReceiptsOf, OpsOf
  <2> QED BY <2>1, <2>2 DEF Committed
<1>7. AckedDurable'
  BY <1>1, <1>4, <1>6, AckStays
<1>8. TaskInv'
  BY <1>1, <1>4, IdleSound DEF StoreInv, TaskInv
<1>9. RoomSound'
  <2>1. CASE Subscribers = {}
    <3>1. EvictIdle(peer, <<>>) /\ \A a \in Account : peer[a] # "joined"
      BY <2>1 DEF FlushCommit, Subscribers
    <3>2. peer \in [Account -> PeerState]
      BY DEF TypeOK, RoomTypeOK
    <3> QED BY <1>1, <3>1, <3>2, Evicted, ClosedSound
  <2>2. CASE Subscribers # {}
    <3>1. rhead' = Known(Request) /\ recent' = ReceiptsOf(task.cursor) /\ UNCHANGED <<peer, open>>
      BY <2>2 DEF FlushCommit
    <3>2. rhead'.batch = task.cursor /\ rhead'.seq = Len(log) + 1 /\ head'.indexed
      BY <1>1, <1>2, <1>3, <3>1, StampedFields DEF Known, SoundCommit
    <3>3. rhead'.seq \in 0..Len(log') /\ rhead'.batch = NameOf(rhead.seq)'
      BY <1>5, <3>2 DEF NameOf
    <3>4. ReceiptsOf(rhead.batch)' = recent'
      BY <1>1, <3>1, <3>2 DEF ReceiptsOf, OpsOf
    <3>5. NoRepeat(pending)'
      BY <1>1 DEF NoRepeat
    <3>6. \A a \in Account : peer'[a] \in {"opened", "joined"} => open'
      BY <3>1 DEF RoomSound
    <3> QED BY <1>1, <3>2, <3>3, <3>4, <3>5, <3>6 DEF RoomSound
  <2> QED BY <2>1, <2>2
<1> QED BY <1>4, <1>7, <1>8, <1>9 DEF StoreInv, TaskInv

LEMMA FlushRecoversStep ==
  ASSUME Inductive, TypeOK', FlushRecovers
  PROVE  Inductive'
<1> USE DEF Inductive
<1>1. /\ OwnCommit(task.head) /\ pending' = Completed(task.head)
      /\ Announce(task.head) /\ UNCHANGED storeVars
      /\ task.at = "recover" /\ task.kind = "flush" /\ open
  BY DEF FlushRecovers, At, TaskSound
<1>2. StoreInv' /\ Grows
  BY <1>1, StoreUnchanged DEF StoreInv
<1>3. AckedDurable'
  BY <1>1, RecoveredAcked
<1>4. CASE pending' = <<>> /\ Subscribers = {}
  <2>1. /\ EvictIdle(peer, <<>>) /\ task' = Idle
        /\ \A a \in Account : peer[a] # "joined"
    BY <1>4 DEF FlushRecovers, Subscribers
  <2>2. peer \in [Account -> PeerState]
    BY DEF TypeOK, RoomTypeOK
  <2>3. RoomSound'
    BY <1>4, <2>1, <2>2, Evicted, ClosedSound
  <2>4. TaskInv'
    BY <1>2, <2>1, IdleSound DEF StoreInv, TaskInv
  <2> QED BY <1>2, <1>3, <2>3, <2>4 DEF StoreInv, TaskInv
<1>5. CASE ~(pending' = <<>> /\ Subscribers = {})
  <2>1. /\ rhead' = Known(task.head) /\ recent' = ReceiptsOf(task.head.batch)
        /\ task' = IF pending' = <<>> THEN Idle ELSE [task EXCEPT !.at = "index"]
        /\ UNCHANGED <<peer, open, doc, timer>>
    BY <1>5 DEF FlushRecovers
  <2>2. RoomSound'
    BY <1>1, <2>1, RecoveredRoom
  <2>3. CASE pending' = <<>>
    <3>1. TaskInv'
      BY <1>2, <2>1, <2>3, IdleSound DEF StoreInv, TaskInv
    <3> QED BY <1>2, <1>3, <2>2, <3>1 DEF StoreInv, TaskInv
  <2>4. CASE pending' # <<>>
    <3>1. /\ task'.at = "index" /\ task'.kind = "flush"
          /\ task'.head = task.head /\ task'.cursor = task.cursor
      BY <1>1, <2>1, <2>4 DEF TypeOK, TaskType
    <3>2. TaskHeadSound'
      BY <1>2, <3>1, TaskHeadStays
    <3>3. WalkSound'
      <4>1. task'.cursor = task'.head.batch
        BY <1>1, <3>1 DEF TaskSound
      <4> QED BY <1>2, <3>1, <3>2, <4>1, WalkStarts DEF StoreInv
    <3>4. TaskSound'
      BY <1>1, <2>1, <2>4, <3>1 DEF TaskSound, Known
    <3> QED BY <1>2, <1>3, <2>2, <3>2, <3>3, <3>4 DEF StoreInv
  <2> QED BY <2>3, <2>4
<1> QED BY <1>4, <1>5

LEMMA FlushStep ==
  ASSUME Inductive, TypeOK', Flush
  PROVE  Inductive'
<1> USE DEF Inductive
<1>1. CASE FlushNothing
  <2>1. StoreInv' /\ Grows
    BY <1>1, StoreUnchanged DEF FlushNothing, StoreInv
  <2>2. RoomSound'
    BY <1>1, <2>1, RoomStays DEF FlushNothing, RoomSound
  <2>3. TaskInv'
    BY <1>1, <2>1, IdleSound DEF FlushNothing, StoreInv, TaskInv
  <2> QED BY <1>1, <2>1, <2>2, <2>3, AckStays DEF FlushNothing, StoreInv, TaskInv
<1>2. CASE FlushLoad
  <2>1. StoreInv' /\ Grows
    BY <1>2, StoreUnchanged DEF FlushLoad, StoreInv
  <2>2. RoomSound'
    BY <1>2, <2>1, RoomStays DEF FlushLoad, RoomSound
  <2>3. Start("flush", "recover", None, None) /\ UNCHANGED storeVars
    BY <1>2 DEF FlushLoad
  <2>4. TaskHeadSound' /\ WalkSound'
    BY <2>3, StartSound
  <2>5. task'.kind = "flush" /\ task'.at = "recover" /\ task'.cursor = task'.head.batch
    BY <2>3 DEF Start
  <2>6. open' /\ pending' # <<>>
    BY <1>2 DEF FlushLoad, RoomSound
  <2>7. TaskSound'
    BY <2>5, <2>6 DEF TaskSound
  <2> QED BY <1>2, <2>1, <2>2, <2>4, <2>7, AckStays DEF FlushLoad, StoreInv
<1>3. CASE FlushStuck
  <2>1. StoreInv' /\ Grows
    BY <1>3, StoreUnchanged DEF FlushStuck, StoreInv
  <2> QED BY <1>3, <2>1, AbandonSound, AckStays DEF FlushStuck, StoreInv, TaskInv
<1>4. CASE FlushProceeds
  <2>1. StoreInv' /\ Grows
    BY <1>4, StoreUnchanged DEF FlushProceeds, StoreInv
  <2>2. RoomSound'
    BY <1>4, <2>1, RoomStays DEF FlushProceeds, RoomSound, roomVars
  <2>3. /\ task'.at = "index" /\ task'.kind = "flush" /\ task'.head = task.head
        /\ task'.cursor = task'.head.batch
    BY <1>4 DEF FlushProceeds, At, TaskSound, TypeOK, TaskType
  <2>4. TaskHeadSound'
    BY <2>1, <2>3, TaskHeadStays
  <2>5. WalkSound'
    BY <2>1, <2>3, <2>4, WalkStarts DEF StoreInv
  <2>6. rhead = Known(task.head)
    BY <1>4 DEF FlushProceeds, Moved, Known, TypeOK, RoomTypeOK
  <2>7. TaskSound'
    BY <1>4, <2>3, <2>6 DEF FlushProceeds, At, TaskSound, roomVars, Known
  <2> QED BY <1>4, <2>1, <2>2, <2>4, <2>5, <2>7, AckStays DEF FlushProceeds, StoreInv
<1> QED BY <1>1, <1>2, <1>3, <1>4, FlushRecoversStep, FlushPutStep, FlushCommitStep DEF Flush

(***************************************************************************)
(* The rest of the world, and the start.                                   *)
(***************************************************************************)
LEMMA WorldStep ==
  ASSUME Inductive, TypeOK', ChangeAccess \/ LateWrite \/ Crash
  PROVE  Inductive'
<1> USE DEF Inductive
<1>1. CASE ChangeAccess
  <2>1. PICK w \in SUBSET Account : head' = [head EXCEPT !.rev = @ + 1, !.writers = w]
    BY <1>1 DEF ChangeAccess
  <2>2. UNCHANGED <<batches, receipts, inflight, log, roomVars, task, acked>>
    BY <1>1 DEF ChangeAccess
  <2>3. /\ head'.rev > head.rev /\ head'.seq = head.seq /\ head'.batch = head.batch
        /\ head'.indexed = head.indexed
    BY <2>1 DEF TypeOK, StoreTypeOK, HeadDoc
  <2>4. Grows
    BY <2>2, <2>3 DEF Grows, TypeOK, StoreTypeOK
  <2>5. StoreInv'
    BY <2>2, <2>3, <2>4, HistoryUnmoved, OldWritesSound DEF StoreInv
  <2> QED BY <2>2, <2>4, <2>5, RoomStays, TaskStays, AckStays DEF StoreInv, RoomSound, roomVars
<1>2. CASE LateWrite
  <2>1. PICK req \in inflight : Land(req) \/ Vanish(req)
    BY <1>2 DEF LateWrite
  <2>2. UNCHANGED <<batches, receipts, roomVars, task, acked>> /\ inflight' \subseteq inflight
    BY <1>2, <2>1 DEF LateWrite, Land, Vanish
  <2>3. StoreInv' /\ Grows
    <3>1. CASE Land(req) /\ Current(req)
      <4>1. Install(req) /\ Sound(req) /\ req \in HeadDoc
        BY <3>1 DEF Land, InflightSound, TypeOK, StoreTypeOK
      <4> QED BY <2>2, <3>1, <4>1, WriteApplied, OldWritesSound DEF StoreInv
    <3>2. CASE UNCHANGED <<head, log>>
      <4>1. Grows
        BY <2>2, <3>2 DEF Grows, TypeOK, StoreTypeOK
      <4>2. Chain' /\ ExactlyOnce' /\ ReceiptsCoverHistory'
        BY <2>2, <3>2, <4>1, HistoryUnmoved
      <4>3. InflightSound'
        BY <2>2, <3>2, <4>1, SoundStays DEF InflightSound, TypeOK, StoreTypeOK
      <4> QED BY <4>1, <4>2, <4>3 DEF StoreInv
    <3> QED BY <2>1, <3>1, <3>2 DEF Land, Vanish
  <2> QED BY <2>2, <2>3, RoomStays, TaskStays, AckStays DEF StoreInv, RoomSound, roomVars
<1>3. CASE Crash
  <2>1. StoreInv' /\ Grows
    BY <1>3, StoreUnchanged DEF Crash, StoreInv
  <2>2. RoomSound'
    BY <1>3, ClosedSound DEF Crash
  <2>3. TaskInv'
    BY <1>3, <2>1, IdleSound DEF Crash, StoreInv, TaskInv
  <2> QED BY <1>3, <2>1, <2>2, <2>3, AckStays DEF Crash, StoreInv, TaskInv
<1> QED BY <1>1, <1>2, <1>3

LEMMA InductiveStep ==
  ASSUME RoomAssumption, Inductive, [Next]_vars
  PROVE  Inductive'
<1>1. TypeOK'
  BY TypeStep
<1>2. CASE UNCHANGED vars
  <2> USE DEF Inductive
  <2>1. StoreInv' /\ Grows
    BY <1>1, <1>2, StoreUnchanged DEF vars, StoreInv
  <2> QED BY <1>1, <1>2, <2>1, RoomStays, TaskStays, AckStays
        DEF vars, StoreInv, RoomSound, roomVars
<1>3. CASE Next
  BY <1>1, <1>3, ConnectionStep, OpenDoneStep, SubmitStep, IndexStep, PromoteStep,
     FailureStep, FlushStep, WorldStep DEF Next, Open
<1> QED BY <1>2, <1>3

LEMMA LegacyBatches ==
  ASSUME LegacyAssumption, InitStore
  PROVE  /\ Len(Legacy) \in Nat /\ Len(batches) = Len(Legacy) /\ Len(log) = Len(Legacy)
         /\ batches \in Seq(Batch) /\ log \in Seq(Nat)
         /\ \A i \in 1..Len(Legacy) :
              /\ log[i] = i /\ batches[i].parent = i - 1 /\ batches[i].seq = i
              /\ OpsOf(i) = <<Legacy[i]>>
<1> DEFINE n == Len(Legacy)
<1>1. n \in Nat /\ Legacy \in Seq(Operation)
  <2>1. Legacy \in [1..n -> Operation] /\ n \in Nat
    BY DEF LegacyAssumption, Operation
  <2> QED BY <2>1
<1>2. /\ batches = [i \in 1..n |-> [parent |-> i - 1, seq |-> i, ops |-> <<Legacy[i]>>,
                                     changes |-> SubSeq(Legacy, 1, i)]]
      /\ log = [i \in 1..n |-> i]
  BY DEF InitStore
<1> HIDE DEF n
<1>3. \A i \in 1..n : batches[i] \in Batch
  <2> SUFFICES ASSUME NEW i \in 1..n PROVE batches[i] \in Batch
    OBVIOUS
  <2>1. <<Legacy[i]>> \in Seq(Operation) /\ i - 1 \in Nat /\ i \in Nat
    BY <1>1 DEF n
  <2>2. SubSeq(Legacy, 1, i) \in Seq(Operation)
    BY <1>1 DEF n
  <2> QED BY <1>2, <2>1, <2>2 DEF Batch
<1>4. batches \in Seq(Batch) /\ Len(batches) = n /\ log \in Seq(Nat) /\ Len(log) = n
  <2>1. batches \in [1..n -> Batch] /\ log \in [1..n -> Nat]
    BY <1>2, <1>3
  <2> QED BY <1>1, <2>1
<1>5. \A i \in 1..n : /\ log[i] = i /\ batches[i].parent = i - 1 /\ batches[i].seq = i
                      /\ OpsOf(i) = <<Legacy[i]>>
  BY <1>1, <1>2 DEF OpsOf, NoBatch
<1> QED BY <1>1, <1>4, <1>5 DEF n

LEMMA InductiveInit ==
  ASSUME LegacyAssumption, RoomAssumption, Init
  PROVE  Inductive
<1> USE DEF Init
<1> DEFINE n == Len(Legacy)
<1>1. /\ n \in Nat /\ Len(batches) = n /\ Len(log) = n
      /\ batches \in Seq(Batch) /\ log \in Seq(Nat)
      /\ \A i \in 1..n : /\ log[i] = i /\ batches[i].parent = i - 1 /\ batches[i].seq = i
                         /\ OpsOf(i) = <<Legacy[i]>>
  BY LegacyBatches
<1>2. /\ head.rev = 1 /\ head.batch = n /\ head.seq = n /\ head.live = 1
      /\ head.indexed = (Legacy = <<>>) /\ head.writers = Account
      /\ head \in HeadDoc /\ receipts = {} /\ inflight = {}
  BY <1>1 DEF InitStore, HeadDoc
<1> HIDE DEF n
<1>3. TypeOK
  <2>1. StoreTypeOK
    BY <1>1, <1>2 DEF StoreTypeOK
  <2>2. peer \in [Account -> PeerState] /\ rhead \in [batch : Nat, seq : Nat]
    BY DEF PeerState, NoBatch
  <2>3. doc \in Seq(Operation) /\ pending \in Seq(Edit) /\ Len(pending) <= MaxPending
    BY DEF RoomAssumption
  <2>4. RoomTypeOK
    BY <2>2, <2>3 DEF RoomTypeOK
  <2>5. budget \in BudgetType
    BY DEF BudgetType, RoomAssumption
  <2> QED BY <2>1, <2>4, <2>5, IdleType DEF TypeOK
<1>4. Chain
  <2>1. \A k \in 0..n : NameOf(k) = k
    <3>1. \A k \in 1..n : log[k] = k
      BY <1>1
    <3>2. \A k \in 0..n : k = 0 \/ k \in 1..n
      BY <1>1
    <3> QED BY <3>1, <3>2 DEF NameOf, NoBatch
  <2>2. \A i \in 1..n : i - 1 \in 0..n
    BY <1>1
  <2>3. head.batch = NameOf(Len(log))
    BY <1>1, <1>2, <2>1
  <2>4. \A i \in 1..n : /\ log[i] \in 1..Len(batches)
                        /\ batches[log[i]].seq = i
                        /\ batches[log[i]].parent = NameOf(i - 1)
    <3> SUFFICES ASSUME NEW i \in 1..n
                 PROVE  /\ log[i] \in 1..Len(batches)
                        /\ batches[log[i]].seq = i
                        /\ batches[log[i]].parent = NameOf(i - 1)
      OBVIOUS
    <3>1. log[i] = i /\ batches[i].parent = i - 1 /\ batches[i].seq = i
      BY <1>1
    <3>2. NameOf(i - 1) = i - 1
      BY <2>1, <2>2
    <3> QED BY <1>1, <3>1, <3>2
  <2> QED BY <1>1, <1>2, <2>3, <2>4 DEF Chain
<1>5. ExactlyOnce
  <2> SUFFICES ASSUME NEW i \in 1..n, NEW j \in 1..n,
                      NEW m \in 1..Len(OpsOf(log[i])), NEW k \in 1..Len(OpsOf(log[j])),
                      OpsOf(log[i])[m].id = OpsOf(log[j])[k].id
               PROVE  i = j /\ m = k
    BY <1>1 DEF ExactlyOnce
  <2>1. OpsOf(log[i]) = <<Legacy[i]>> /\ OpsOf(log[j]) = <<Legacy[j]>>
    BY <1>1
  <2>2. m = 1 /\ k = 1 /\ Legacy[i].id = Legacy[j].id
    BY <2>1
  <2> QED BY <2>2 DEF LegacyAssumption, n
<1>6. ReceiptsCoverHistory
  <2>1. head.indexed => Legacy = <<>>
    BY <1>2, Zenon
  <2>2. head.indexed => n = 0
    BY <2>1 DEF n
  <2> QED BY <1>1, <1>2, <2>2 DEF ReceiptsCoverHistory
<1>7. InflightSound /\ AckedDurable
  BY <1>2 DEF InflightSound, AckedDurable
<1>8. RoomSound
  BY DEF RoomSound, NoRepeat
<1>9. TaskHeadSound /\ WalkSound /\ TaskSound
  <2>1. /\ task.kind = "idle" /\ task.at = "idle" /\ task.head.rev = 0 /\ task.head.seq = 0
        /\ task.head.batch = NoBatch /\ task.head.indexed = FALSE
    BY DEF Idle, NoHead
  <2>2. TaskHeadSound
    BY <1>1, <1>2, <2>1 DEF TaskHeadSound, NameOf, Current
  <2> QED BY <2>1, <2>2 DEF WalkSound, TaskSound
<1> QED BY <1>3, <1>4, <1>5, <1>6, <1>7, <1>8, <1>9 DEF Inductive

-----------------------------------------------------------------------------
(***************************************************************************)
(* The theorems.                                                           *)
(***************************************************************************)

\* The inductive invariant: what every operation of a room relies on when it
\* reads the head, walks the batches, recovers a commit or writes the head.
THEOREM InductiveInvariant == Spec => []Inductive
<1>1. Init => Inductive
  BY LegacyAssumption, RoomAssumption, InductiveInit
<1>2. Inductive /\ [Next]_vars => Inductive'
  BY RoomAssumption, InductiveStep
<1> QED BY <1>1, <1>2, PTL DEF Spec

\* Every field of the room and every document keeps its type, whatever the
\* bounds and the map's history.
THEOREM TypeCorrect == Spec => []TypeOK
<1>1. Inductive => TypeOK
  BY DEF Inductive
<1> QED BY <1>1, InductiveInvariant, PTL

\* Whatever is retried and recovered, the queue keeps its quota, and holds no edit
\* twice and none that a batch holds which the room knows of.
THEOREM QuotaKept == Spec => []QueueBounded
<1>1. ASSUME Inductive PROVE QueueBounded
  <2>1. Len(pending) <= MaxPending
    BY <1>1 DEF Inductive, TypeOK, RoomTypeOK
  <2>2. ASSUME NEW i \in 1..Len(pending), NEW j \in 1..Len(pending), pending[i].id = pending[j].id
        PROVE  i = j
    BY <1>1, <2>2 DEF Inductive, RoomSound, NoRepeat
  <2>3. ASSUME NEW i \in 1..Len(pending), NEW k \in 1..rhead.seq, NEW m \in 1..Len(OpsOf(log[k])),
               OpsOf(log[k])[m].id = pending[i].id
        PROVE  FALSE
    <3>1. open
      BY <1>1 DEF Inductive, RoomSound
    <3>2. ~UsedUpTo(pending[i].id, rhead.seq)
      BY <1>1, <3>1 DEF Inductive, RoomSound
    <3> QED BY <2>3, <3>2 DEF UsedUpTo, OccursIn
  <2> QED BY <2>1, <2>2, <2>3 DEF QueueBounded
<1> QED BY <1>1, InductiveInvariant, PTL

\* However an edit is retried, through lost answers, late writes, restarts and
\* foreign head writes, its identifier is in at most one committed batch.
THEOREM CommittedOnce == Spec => []ExactlyOnce
<1>1. Inductive => ExactlyOnce
  BY DEF Inductive
<1> QED BY <1>1, InductiveInvariant, PTL

\* A client is told that an edit is durable only if the head reaches it.
THEOREM AckIsDurable == Spec => []AckedDurable
<1>1. Inductive => AckedDurable
  BY DEF Inductive
<1> QED BY <1>1, InductiveInvariant, PTL

\* The receipt lookup of SubmitTo is complete: the receipts of an indexed map
\* cover every batch but the last, and none is of an uncommitted batch.
THEOREM ReceiptsComplete == Spec => []ReceiptsCoverHistory
<1>1. Inductive => ReceiptsCoverHistory
  BY DEF Inductive
<1> QED BY <1>1, InductiveInvariant, PTL
=============================================================================
