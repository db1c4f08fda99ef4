--------------------------- MODULE LiveSyncProofs ---------------------------
(***************************************************************************)
(* Proofs about LiveSync for any number of clients, edits and faults.  The *)
(* idea: what is durable stays durable, and a receipt names nothing else;  *)
(* and the frames of one connection are ever later states of one room, of  *)
(* which the client knows an earlier one.                                  *)
(***************************************************************************)
EXTENDS LiveSync, DataLemmas, TLAPS

-----------------------------------------------------------------------------
(***************************************************************************)
(* Without: what is left of a document.                                    *)
(***************************************************************************)
Keeping(doc, edits, f, k) ==
  f = [n \in 0..k |-> IF n = 0 THEN <<>>
                      ELSE IF doc[n] \in edits THEN f[n - 1] ELSE Append(f[n - 1], doc[n])]

\* The recursion that Without is defined by has a solution.
LEMMA KeptExists ==
  ASSUME NEW doc, NEW edits, NEW k \in Nat
  PROVE  \E f : Keeping(doc, edits, f, k)
<1> DEFINE Solved == {n \in Nat : \E f : Keeping(doc, edits, f, n)}
<1>1. 0 \in Solved
  <2>1. Keeping(doc, edits, [n \in 0..0 |-> <<>>], 0)
    BY DEF Keeping
  <2> QED BY <2>1
<1>2. ASSUME NEW n \in Solved PROVE n + 1 \in Solved
  <2>1. PICK f : Keeping(doc, edits, f, n)
    OBVIOUS
  <2> DEFINE last == IF doc[n + 1] \in edits THEN f[n] ELSE Append(f[n], doc[n + 1])
             g    == [m \in 0..(n + 1) |-> IF m = n + 1 THEN last ELSE f[m]]
  <2>2. \A m \in 0..n : f[m] = IF m = 0 THEN <<>>
                               ELSE IF doc[m] \in edits THEN f[m - 1]
                               ELSE Append(f[m - 1], doc[m])
    BY <2>1 DEF Keeping
  <2>3. ASSUME NEW m \in 0..(n + 1)
        PROVE  g[m] = IF m = 0 THEN <<>>
                      ELSE IF doc[m] \in edits THEN g[m - 1] ELSE Append(g[m - 1], doc[m])
    <3>1. CASE m = n + 1
      BY <3>1
    <3>2. CASE m \in 0..n
      <4>1. g[m] = f[m] /\ (m # 0 => g[m - 1] = f[m - 1])
        BY <3>2
      <4> HIDE DEF g
      <4> QED BY <2>2, <3>2, <4>1
    <3> QED BY <3>1, <3>2
  <2>4. Keeping(doc, edits, g, n + 1)
    <3>1. g = [m \in 0..(n + 1) |-> g[m]]
      OBVIOUS
    <3> HIDE DEF g
    <3> QED BY <2>3, <3>1 DEF Keeping
  <2> QED BY <2>4
<1> QED
  <2> HIDE DEF Solved
  <2>1. Solved \in SUBSET Nat
    BY DEF Solved
  <2>2. Solved = Nat
    BY <1>1, <1>2, <2>1, InductiveSet
  <2> QED BY <2>2 DEF Solved

Ordered(doc) == \A i, j \in 1..Len(doc) : i < j => doc[i].n < doc[j].n

LEMMA EditsOf ==
  ASSUME NEW doc \in Seq(Edit)
  PROVE  /\ EditsIn(doc) = {doc[i] : i \in 1..Len(doc)} /\ EditsIn(doc) \subseteq Edit
         /\ EditsIn(<<>>) = {}
         /\ Len(doc) \in Nat
         /\ \A e \in Edit : Append(doc, e) \in Seq(Edit)
                            /\ EditsIn(Append(doc, e)) = EditsIn(doc) \cup {e}
<1>1. EditsIn(doc) = {doc[i] : i \in 1..Len(doc)}
  BY LenProperties DEF EditsIn, ToSet
<1>2. ASSUME NEW e \in Edit
      PROVE  Append(doc, e) \in Seq(Edit) /\ EditsIn(Append(doc, e)) = EditsIn(doc) \cup {e}
  <2>1. /\ Append(doc, e) \in Seq(Edit) /\ Len(Append(doc, e)) = Len(doc) + 1 /\ Len(doc) \in Nat
        /\ \A i \in 1..Len(doc) : Append(doc, e)[i] = doc[i]
        /\ Append(doc, e)[Len(doc) + 1] = e
    BY AppendProperties, LenProperties
  <2>2. EditsIn(Append(doc, e)) = {Append(doc, e)[i] : i \in 1..(Len(doc) + 1)}
    BY <2>1, LenProperties DEF EditsIn, ToSet
  <2> QED BY <1>1, <2>1, <2>2
<1>3. EditsIn(<<>>) = {}
  BY DEF EditsIn, ToSet
<1>4. EditsIn(doc) \subseteq Edit /\ Len(doc) \in Nat
  BY <1>1, LenProperties
<1> QED BY <1>1, <1>2, <1>3, <1>4

LEMMA EditsOfBoth ==
  ASSUME NEW a \in Seq(Edit), NEW b \in Seq(Edit)
  PROVE  a \o b \in Seq(Edit) /\ EditsIn(a \o b) = EditsIn(a) \cup EditsIn(b)
<1> DEFINE c == a \o b
<1>1. /\ c \in Seq(Edit) /\ Len(c) = Len(a) + Len(b) /\ Len(a) \in Nat /\ Len(b) \in Nat
      /\ \A i \in 1..Len(c) : c[i] = IF i <= Len(a) THEN a[i] ELSE b[i - Len(a)]
  BY ConcatProperties, LenProperties
<1>2. EditsIn(c) = {c[i] : i \in 1..Len(c)}
  BY <1>1, EditsOf
<1>3. EditsIn(a) = {a[i] : i \in 1..Len(a)} /\ EditsIn(b) = {b[i] : i \in 1..Len(b)}
  BY EditsOf
<1> HIDE DEF c
<1>4. EditsIn(c) \subseteq EditsIn(a) \cup EditsIn(b)
  <2> SUFFICES ASSUME NEW i \in 1..Len(c) PROVE c[i] \in EditsIn(a) \cup EditsIn(b)
    BY <1>2
  <2>1. CASE i <= Len(a)
    BY <1>1, <1>3, <2>1
  <2>2. CASE ~(i <= Len(a))
    <3>1. i - Len(a) \in 1..Len(b) /\ c[i] = b[i - Len(a)]
      BY <1>1, <2>2
    <3> QED BY <1>3, <3>1
  <2> QED BY <2>1, <2>2
<1>5. ASSUME NEW i \in 1..Len(a) PROVE i \in 1..Len(c) /\ c[i] = a[i]
  BY <1>1
<1>6. ASSUME NEW i \in 1..Len(b) PROVE i + Len(a) \in 1..Len(c) /\ c[i + Len(a)] = b[i]
  <2>1. i + Len(a) \in 1..Len(c) /\ ~(i + Len(a) <= Len(a)) /\ (i + Len(a)) - Len(a) = i
    BY <1>1
  <2> QED BY <1>1, <2>1
<1>7. EditsIn(a) \subseteq EditsIn(c)
  BY <1>2, <1>3, <1>5
<1>8. EditsIn(b) \subseteq EditsIn(c)
  BY <1>2, <1>3, <1>6
<1> QED BY <1>1, <1>4, <1>7, <1>8 DEF c

\* Without takes the edits out and leaves the others in their order.
LEMMA WithoutEdits ==
  ASSUME NEW doc \in Seq(Edit), NEW edits
  PROVE  /\ Without(doc, edits) \in Seq(Edit)
         /\ EditsIn(Without(doc, edits)) = EditsIn(doc) \ edits
         /\ Ordered(doc) => Ordered(Without(doc, edits))
<1>0. Len(doc) \in Nat /\ \A i \in 1..Len(doc) : doc[i] \in Edit
  BY LenProperties
<1>1. PICK f : /\ Without(doc, edits) = f[Len(doc)]
               /\ Keeping(doc, edits, f, Len(doc))
  <2>1. Without(doc, edits) = (CHOOSE f : Keeping(doc, edits, f, Len(doc)))[Len(doc)]
    BY Zenon DEF Without, Keeping
  <2>2. \E f : Keeping(doc, edits, f, Len(doc))
    BY <1>0, KeptExists
  <2> QED BY <2>1, <2>2
<1>2. /\ f[0] = <<>>
      /\ \A n \in 1..Len(doc) :
           f[n] = IF doc[n] \in edits THEN f[n - 1] ELSE Append(f[n - 1], doc[n])
  <2>1. PICK k \in Nat : k = Len(doc)
    BY <1>0
  <2>2. \A n \in 0..k : f[n] = IF n = 0 THEN <<>>
                               ELSE IF doc[n] \in edits THEN f[n - 1]
                               ELSE Append(f[n - 1], doc[n])
    BY <1>1, <2>1 DEF Keeping
  <2>3. 0 \in 0..k /\ \A n \in 1..k : n \in 0..k /\ n # 0
    OBVIOUS
  <2>4. f[0] = <<>>
    BY <2>2, <2>3, Zenon
  <2>5. \A n \in 1..k : f[n] = IF doc[n] \in edits THEN f[n - 1] ELSE Append(f[n - 1], doc[n])
    BY <2>2, <2>3, Zenon
  <2> QED BY <2>1, <2>4, <2>5
<1> DEFINE Good(n) == /\ f[n] \in Seq(Edit)
                      /\ EditsIn(f[n]) = {doc[i] : i \in 1..n} \ edits
                      /\ Ordered(doc) => Ordered(f[n])
           Goods == {n \in Nat : n <= Len(doc) => Good(n)}
<1>3. 0 \in Goods
  <2>1. f[0] \in Seq(Edit) /\ Len(f[0]) = 0 /\ EditsIn(f[0]) = {}
    BY <1>2, EditsOf
  <2> QED BY <2>1 DEF Ordered
<1>4. ASSUME NEW n \in Goods PROVE n + 1 \in Goods
  <2> SUFFICES ASSUME n + 1 <= Len(doc) PROVE Good(n + 1)
    OBVIOUS
  <2>1. Good(n) /\ n + 1 \in 1..Len(doc) /\ doc[n + 1] \in Edit
    BY <1>0
  <2>2. {doc[i] : i \in 1..(n + 1)} = {doc[i] : i \in 1..n} \cup {doc[n + 1]}
    OBVIOUS
  <2>3. CASE doc[n + 1] \in edits
    <3>1. f[n + 1] = f[n]
      BY <1>0, <1>2, <2>1, <2>3
    <3> QED BY <2>1, <2>2, <2>3, <3>1
  <2>4. CASE doc[n + 1] \notin edits
    <3>1. f[n + 1] = Append(f[n], doc[n + 1])
      <4>1. (n + 1) - 1 = n
        OBVIOUS
      <4>2. f[n + 1] = Append(f[(n + 1) - 1], doc[n + 1])
        BY <1>2, <2>1, <2>4
      <4> QED BY <4>1, <4>2
    <3>2. f[n + 1] \in Seq(Edit) /\ EditsIn(f[n + 1]) = EditsIn(f[n]) \cup {doc[n + 1]}
      BY <2>1, <3>1, EditsOf
    <3>3. ASSUME Ordered(doc) PROVE Ordered(f[n + 1])
      <4>1. EditsIn(f[n]) = {f[n][i] : i \in 1..Len(f[n])}
        BY <2>1, EditsOf
      <4>2. \A i \in 1..Len(f[n]) : f[n][i].n < doc[n + 1].n
        <5> SUFFICES ASSUME NEW i \in 1..Len(f[n]) PROVE f[n][i].n < doc[n + 1].n
          OBVIOUS
        <5>1. PICK j \in 1..n : f[n][i] = doc[j]
          BY <2>1, <4>1
        <5> QED BY <2>1, <3>3, <5>1 DEF Ordered
      <4>3. Ordered(f[n]) /\ f[n] \in Seq(Edit)
        BY <2>1, <3>3
      <4> QED BY <3>1, <4>2, <4>3 DEF Ordered
    <3> QED BY <2>1, <2>2, <2>4, <3>2, <3>3
  <2> QED BY <2>3, <2>4
<1>5. Len(doc) \in Goods
  <2> HIDE DEF Goods
  <2>1. Goods \in SUBSET Nat
    BY DEF Goods
  <2> QED BY <1>0, <1>3, <1>4, <2>1, InductiveSet
<1>6. Good(Len(doc))
  BY <1>0, <1>5
<1>7. EditsIn(doc) = {doc[i] : i \in 1..Len(doc)}
  BY EditsOf
<1> QED BY <1>1, <1>6, <1>7

-----------------------------------------------------------------------------
(***************************************************************************)
(* The inductive invariant, by parts.                                      *)
(***************************************************************************)
RoomType == [doc : Document, durable : Nat, epoch : {0, 1}, revision : Nat]

FrameType ==
  [type : {"hello", "applied", "durable", "none"}, epoch : {0, 1}, revision : Nat,
   doc : Document, edits : SUBSET Edit]

ClientType ==
  [conn : {"off", "open", "live"}, signedIn : BOOLEAN, live : BOOLEAN,
   editor : Document, visible : Document, applied : SUBSET Edit,
   epoch : {-1, 0, 1}, revision : Nat, deferred : FrameType]

TypesSound ==
  /\ room \in RoomType /\ room.durable <= Len(room.doc)
  /\ joined \subseteq Client
  /\ up \in [Client -> Document] /\ old \in [Client -> Document]
  /\ down \in [Client -> Seq(FrameType)]
  /\ client \in [Client -> ClientType]
  /\ outbox \in [Client -> Document] /\ saved \in [Client -> BOOLEAN]
  /\ made \in [Client -> Nat]
  /\ captured \subseteq Edit
  /\ faults \in Nat

\* The outbox holds edits of the client, in the order in which they were made;
\* a difference that is not captured is a later one, and is shown.
OutboxSound(c) ==
  /\ Ordered(outbox[c])
  /\ \A e \in EditsIn(outbox[c]) :
       e.by = c /\ e.n <= made[c] /\ (Uncaptured(client[c]) => e.n < made[c])
  /\ Uncaptured(client[c]) => Change(c) \in EditsIn(client[c].editor)

\* What a client knows of the room: what its last frame said, or the handshake
\* that was put off.
Known(s) ==
  IF s.deferred = NoFrame
    THEN [epoch |-> s.epoch, revision |-> s.revision, edits |-> s.applied]
    ELSE [epoch |-> s.deferred.epoch, revision |-> s.deferred.revision,
          edits |-> s.deferred.edits]

\* g, a frame or the room, is f at the same or a later time.
Later(f, g) ==
  g.epoch = f.epoch /\ f.revision <= g.revision /\ EditsIn(f.doc) \subseteq EditsIn(g.doc)

Follows(k, g) ==
  g.epoch = k.epoch /\ k.revision <= g.revision /\ k.edits \subseteq EditsIn(g.doc)

FramesLater(d) == \A i, j \in 1..Len(d) : i < j => Later(d[i], d[j])
FramesFollow(k, d) == \A i \in 1..Len(d) : Follows(k, d[i])
FramesBefore(d, r) == \A i \in 1..Len(d) : Later(d[i], r)
FramesTrue(d, durable) ==
  \A i \in 1..Len(d) : /\ d[i].edits \subseteq EditsIn(d[i].doc)
                       /\ d[i].type = "durable" => d[i].edits \subseteq durable

\* The frames of a connection are ever later states of the room it joined.
StreamSound(c) ==
  /\ FramesTrue(down[c], Durable) /\ FramesLater(down[c])
  /\ Negotiated(client[c]) => FramesFollow(Known(client[c]), down[c])
  /\ c \in joined =>
       /\ client[c].conn # "off" /\ FramesBefore(down[c], room)
       /\ Negotiated(client[c]) => Follows(Known(client[c]), room)
       /\ down[c] # <<>> => down[c][Len(down[c])].doc = room.doc
  /\ ~client[c].signedIn => client[c].conn = "off"

\* What waits is shown, and a client that has nothing waiting shows the room.
ShownSound(c) ==
  LET s == client[c] IN
  /\ Negotiated(s) /\ s.deferred = NoFrame => EditsIn(outbox[c]) \subseteq EditsIn(s.editor)
  /\ /\ Negotiated(s) /\ c \in joined /\ down[c] = <<>>
     /\ outbox[c] = <<>> /\ ~Uncaptured(s)
     => s.editor = room.doc

ClientSound(c) == OutboxSound(c) /\ StreamSound(c) /\ ShownSound(c)

SyncInvariant ==
  /\ TypesSound
  /\ \A c \in Client : ClientSound(c)
  /\ CapturedSurvives

-----------------------------------------------------------------------------
(***************************************************************************)
(* Streams of frames.                                                      *)
(***************************************************************************)
LEMMA FrameAppended ==
  ASSUME NEW d \in Seq(FrameType), NEW f \in FrameType
  PROVE  LET g == Append(d, f) IN
         /\ g \in Seq(FrameType) /\ g # <<>> /\ g[Len(g)] = f
         /\ Len(g) = Len(d) + 1 /\ Len(d) \in Nat
         /\ \A i \in 1..Len(g) : \/ i \in 1..Len(d) /\ g[i] = d[i]
                                 \/ i = Len(d) + 1 /\ g[i] = f
<1> DEFINE g == Append(d, f)
<1>1. /\ g \in Seq(FrameType) /\ Len(g) = Len(d) + 1 /\ Len(d) \in Nat
      /\ \A i \in 1..Len(d) : g[i] = d[i]
      /\ g[Len(d) + 1] = f
  BY AppendProperties, LenProperties
<1>2. g # <<>>
  BY <1>1
<1> QED BY <1>1, <1>2

LEMMA FrameTaken ==
  ASSUME NEW d \in Seq(FrameType), d # <<>>
  PROVE  /\ Head(d) \in FrameType /\ Head(d) = d[1] /\ 1 \in 1..Len(d) /\ Len(d) \in Nat
         /\ Tail(d) \in Seq(FrameType) /\ Len(Tail(d)) = Len(d) - 1
         /\ \A i \in 1..Len(Tail(d)) : i + 1 \in 1..Len(d) /\ Tail(d)[i] = d[i + 1]
BY HeadTailProperties, LenProperties

LEMMA EditsKnown ==
  ASSUME NEW f \in FrameType
  PROVE  f.doc \in Seq(Edit) /\ EditsIn(f.doc) \subseteq Edit
BY EditsOf DEF FrameType, Document

LEMMA StreamAppended ==
  ASSUME NEW d \in Seq(FrameType), NEW f \in FrameType,
         NEW r \in RoomType, NEW s \in RoomType, Later(r, s), Later(f, s), Later(s, f),
         NEW durable, NEW more, durable \subseteq more,
         f.edits \subseteq EditsIn(f.doc), f.type = "durable" => f.edits \subseteq more,
         FramesTrue(d, durable), FramesLater(d), FramesBefore(d, r)
  PROVE  LET g == Append(d, f) IN
         FramesTrue(g, more) /\ FramesLater(g) /\ FramesBefore(g, s)
<1> DEFINE g == Append(d, f)
<1>1. /\ Len(g) = Len(d) + 1 /\ Len(d) \in Nat
      /\ \A i \in 1..Len(g) : \/ i \in 1..Len(d) /\ g[i] = d[i]
                              \/ i = Len(d) + 1 /\ g[i] = f
  BY FrameAppended
<1>2. \A i \in 1..Len(d) : d[i].revision \in Nat
  <2>1. \A i \in 1..Len(d) : d[i] \in FrameType
    BY LenProperties
  <2> QED BY <2>1 DEF FrameType
<1>3. /\ r.revision \in Nat /\ s.revision \in Nat /\ f.revision \in Nat
      /\ r.revision <= s.revision /\ f.revision = s.revision
      /\ s.epoch = r.epoch /\ f.epoch = s.epoch
      /\ EditsIn(r.doc) \subseteq EditsIn(s.doc) /\ EditsIn(f.doc) = EditsIn(s.doc)
  BY DEF RoomType, FrameType, Later
<1>4. \A i \in 1..Len(d) : /\ d[i].epoch = f.epoch /\ d[i].revision <= f.revision
                           /\ EditsIn(d[i].doc) \subseteq EditsIn(f.doc)
  BY <1>2, <1>3 DEF FramesBefore, Later
<1> HIDE DEF g
<1>5. FramesTrue(g, more)
  BY <1>1 DEF FramesTrue
<1>6. FramesLater(g)
  <2> SUFFICES ASSUME NEW i \in 1..Len(g), NEW j \in 1..Len(g), i < j PROVE Later(g[i], g[j])
    BY DEF FramesLater
  <2>1. i \in 1..Len(d) /\ g[i] = d[i]
    BY <1>1
  <2>2. CASE j \in 1..Len(d)
    BY <1>1, <2>1, <2>2 DEF FramesLater
  <2>3. CASE j \notin 1..Len(d)
    BY <1>1, <1>4, <2>1, <2>3 DEF Later
  <2> QED BY <2>2, <2>3
<1>7. FramesBefore(g, s)
  BY <1>1, <1>3, <1>4 DEF FramesBefore, Later
<1> QED BY <1>5, <1>6, <1>7 DEF g

\* What the client knows stays before the frames that come.
LEMMA KnownAppended ==
  ASSUME NEW d \in Seq(FrameType), NEW f \in FrameType, NEW k,
         NEW r \in RoomType, NEW s \in RoomType, Later(r, s), Later(f, s), Later(s, f),
         k.revision \in Nat, FramesFollow(k, d), Follows(k, r)
  PROVE  FramesFollow(k, Append(d, f)) /\ Follows(k, s)
<1>1. \A i \in 1..Len(Append(d, f)) :
        \/ i \in 1..Len(d) /\ Append(d, f)[i] = d[i]
        \/ Append(d, f)[i] = f
  BY FrameAppended
<1>2. /\ r.revision \in Nat /\ s.revision \in Nat /\ f.revision \in Nat
      /\ r.revision <= s.revision /\ f.revision = s.revision
      /\ s.epoch = r.epoch /\ f.epoch = s.epoch
      /\ EditsIn(r.doc) \subseteq EditsIn(s.doc) /\ EditsIn(f.doc) = EditsIn(s.doc)
  BY DEF RoomType, FrameType, Later
<1>3. Follows(k, s) /\ Follows(k, f)
  BY <1>2 DEF Follows
<1> QED BY <1>1, <1>3 DEF FramesFollow

LEMMA StreamTaken ==
  ASSUME NEW d \in Seq(FrameType), d # <<>>, NEW durable,
         FramesTrue(d, durable), FramesLater(d)
  PROVE  /\ FramesTrue(Tail(d), durable) /\ FramesLater(Tail(d))
         /\ \A i \in 1..Len(Tail(d)) : Later(Head(d), Tail(d)[i])
         /\ \A k : FramesFollow(k, d) => FramesFollow(k, Tail(d)) /\ Follows(k, Head(d))
         /\ \A r : FramesBefore(d, r) => FramesBefore(Tail(d), r) /\ Later(Head(d), r)
         /\ Tail(d) # <<>> => Tail(d)[Len(Tail(d))] = d[Len(d)]
         /\ Tail(d) = <<>> => Head(d) = d[Len(d)]
<1> DEFINE g == Tail(d)
<1>1. /\ Head(d) = d[1] /\ 1 \in 1..Len(d) /\ Len(d) \in Nat
      /\ g \in Seq(FrameType) /\ Len(g) = Len(d) - 1
      /\ \A i \in 1..Len(g) : i + 1 \in 1..Len(d) /\ g[i] = d[i + 1]
  BY FrameTaken
<1>2. g # <<>> => Len(g) \in 1..Len(g)
  <2>1. g # <<>> => Len(g) # 0
    BY <1>1, LenProperties, EmptySeq
  <2> QED BY <1>1, <2>1
<1>3. g = <<>> => Len(g) = 0
  BY <1>1, EmptySeq
<1> HIDE DEF g
<1>4. FramesTrue(g, durable)
  BY <1>1 DEF FramesTrue
<1>5. FramesLater(g)
  <2> SUFFICES ASSUME NEW i \in 1..Len(g), NEW j \in 1..Len(g), i < j PROVE Later(g[i], g[j])
    BY DEF FramesLater
  <2>1. i + 1 \in 1..Len(d) /\ j + 1 \in 1..Len(d) /\ i + 1 < j + 1
    BY <1>1
  <2> QED BY <1>1, <2>1 DEF FramesLater
<1>6. \A i \in 1..Len(g) : Later(Head(d), g[i])
  <2> SUFFICES ASSUME NEW i \in 1..Len(g) PROVE Later(Head(d), g[i])
    OBVIOUS
  <2>1. i + 1 \in 1..Len(d) /\ 1 < i + 1
    BY <1>1
  <2> QED BY <1>1, <2>1 DEF FramesLater
<1>7. ASSUME NEW k, FramesFollow(k, d) PROVE FramesFollow(k, g) /\ Follows(k, Head(d))
  BY <1>1, <1>7 DEF FramesFollow
<1>8. ASSUME NEW r, FramesBefore(d, r) PROVE FramesBefore(g, r) /\ Later(Head(d), r)
  BY <1>1, <1>8 DEF FramesBefore
<1>9. g # <<>> => g[Len(g)] = d[Len(d)]
  BY <1>1, <1>2
<1>10. g = <<>> => Head(d) = d[Len(d)]
  <2>1. g = <<>> => Len(d) = 1
    BY <1>1, <1>3
  <2> QED BY <1>1, <2>1
<1> QED BY <1>4, <1>5, <1>6, <1>7, <1>8, <1>9, <1>10 DEF g

-----------------------------------------------------------------------------
(***************************************************************************)
(* The room: what is durable stays durable, whatever happens to it.        *)
(***************************************************************************)
DurableIn(r) == EditsIn(SubSeq(r.doc, 1, r.durable))

RoomSound(r) == r \in RoomType /\ r.durable <= Len(r.doc)

LEMMA RoomPrefix ==
  ASSUME NEW r, RoomSound(r), NEW n \in 0..Len(r.doc)
  PROVE  /\ r.doc \in Seq(Edit) /\ Len(r.doc) \in Nat
         /\ SubSeq(r.doc, 1, n) \in Seq(Edit) /\ Len(SubSeq(r.doc, 1, n)) = n
         /\ EditsIn(SubSeq(r.doc, 1, n)) = {r.doc[i] : i \in 1..n}
         /\ EditsIn(SubSeq(r.doc, 1, n)) \subseteq EditsIn(r.doc)
<1>1. r.doc \in Seq(Edit) /\ Len(r.doc) \in Nat /\ n \in Nat
      /\ \A i \in 1..n : r.doc[i] \in Edit
  BY LenProperties DEF RoomSound, RoomType, Document
<1> DEFINE s == SubSeq(r.doc, 1, n)
<1>2. /\ s \in Seq(Edit) /\ Len(s) = IF 1 <= n THEN n - 1 + 1 ELSE 0
      /\ \A i \in 1..(n - 1 + 1) : s[i] = r.doc[1 + i - 1]
  BY <1>1, SubSeqProperties
<1>3. Len(s) = n /\ \A i \in 1..n : s[i] = r.doc[i]
  BY <1>1, <1>2
<1>4. EditsIn(s) = {s[i] : i \in 1..Len(s)}
      /\ EditsIn(r.doc) = {r.doc[i] : i \in 1..Len(r.doc)}
  BY <1>1, <1>2, EditsOf
<1> HIDE DEF s
<1>5. EditsIn(s) = {r.doc[i] : i \in 1..n}
  BY <1>3, <1>4
<1> QED BY <1>1, <1>2, <1>3, <1>4, <1>5 DEF s

LEMMA DurableKnown ==
  ASSUME NEW r, RoomSound(r)
  PROVE  /\ DurableIn(r) = {r.doc[i] : i \in 1..r.durable}
         /\ DurableIn(r) \subseteq EditsIn(r.doc)
         /\ EditsIn(r.doc) \subseteq Edit
         /\ r.durable \in 0..Len(r.doc)
<1>1. r.durable \in 0..Len(r.doc) /\ r.doc \in Seq(Edit)
  BY LenProperties DEF RoomSound, RoomType, Document
<1> QED BY <1>1, RoomPrefix, EditsOf DEF DurableIn

LEMMA MergeRoom ==
  ASSUME RoomSound(room), NEW e \in Edit
  PROVE  /\ RoomSound(Merge(e)) /\ Later(room, Merge(e)) /\ Durable \subseteq DurableIn(Merge(e))
         /\ Merge(e).doc = Append(room.doc, e) /\ e \in EditsIn(Merge(e).doc)
<1>1. /\ room.doc \in Seq(Edit) /\ Len(room.doc) \in Nat /\ room.revision \in Nat
      /\ room.durable \in Nat /\ room.durable <= Len(room.doc) /\ room.revision + 1 \in Nat
  BY LenProperties DEF RoomSound, RoomType, Document
<1>2. PICK doc \in Seq(Edit) : doc = Append(room.doc, e)
  BY <1>1, EditsOf
<1>3. Merge(e) = [room EXCEPT !.doc = doc, !.revision = room.revision + 1]
  BY <1>2 DEF Merge
<1>4. /\ Merge(e) \in RoomType /\ Merge(e).doc = doc /\ Merge(e).durable = room.durable
      /\ Merge(e).epoch = room.epoch /\ Merge(e).revision = room.revision + 1
  BY <1>1, <1>3 DEF RoomSound, RoomType, Document
<1>5. Len(doc) = Len(room.doc) + 1 /\ \A i \in 1..Len(room.doc) : doc[i] = room.doc[i]
  BY <1>1, <1>2, AppendProperties
<1>6. RoomSound(Merge(e))
  BY <1>1, <1>4, <1>5 DEF RoomSound
<1>7. EditsIn(doc) = EditsIn(room.doc) \cup {e}
  BY <1>1, <1>2, EditsOf
<1>8. Durable \subseteq DurableIn(Merge(e))
  <2>1. Durable = {room.doc[i] : i \in 1..room.durable}
    BY DurableKnown DEF Durable, DurableIn
  <2>2. DurableIn(Merge(e)) = {doc[i] : i \in 1..room.durable}
    BY <1>4, <1>6, DurableKnown
  <2> QED BY <1>1, <1>5, <2>1, <2>2
<1> QED BY <1>1, <1>2, <1>4, <1>6, <1>7, <1>8 DEF Later

LEMMA FlushedRoom ==
  ASSUME RoomSound(room), NEW n \in Nat, n > room.durable, n <= Len(room.doc)
  PROVE  LET flushed == [room EXCEPT !.durable = n]
             edits   == EditsIn(SubSeq(room.doc, room.durable + 1, n)) IN
         /\ RoomSound(flushed) /\ Later(room, flushed) /\ flushed.doc = room.doc
         /\ Durable \subseteq DurableIn(flushed)
         /\ edits \subseteq EditsIn(room.doc) /\ edits \subseteq DurableIn(flushed)
         /\ flushed.epoch = room.epoch /\ flushed.revision = room.revision
<1> DEFINE flushed == [room EXCEPT !.durable = n]
           part    == SubSeq(room.doc, room.durable + 1, n)
<1>1. /\ room.doc \in Seq(Edit) /\ Len(room.doc) \in Nat /\ room.revision \in Nat
      /\ room.durable \in Nat /\ room.durable <= Len(room.doc)
      /\ \A i \in 1..Len(room.doc) : room.doc[i] \in Edit
  BY LenProperties DEF RoomSound, RoomType, Document
<1>2. /\ flushed \in RoomType /\ flushed.doc = room.doc /\ flushed.durable = n
      /\ flushed.epoch = room.epoch /\ flushed.revision = room.revision
  BY DEF RoomSound, RoomType
<1> HIDE DEF flushed
<1>3. RoomSound(flushed)
  BY <1>2 DEF RoomSound
<1>4. /\ Durable = {room.doc[i] : i \in 1..room.durable}
      /\ DurableIn(flushed) = {room.doc[i] : i \in 1..n}
      /\ DurableIn(flushed) \subseteq EditsIn(room.doc)
  <2>1. Durable = {room.doc[i] : i \in 1..room.durable}
    BY DurableKnown DEF Durable, DurableIn
  <2>2. /\ DurableIn(flushed) = {flushed.doc[i] : i \in 1..flushed.durable}
        /\ DurableIn(flushed) \subseteq EditsIn(flushed.doc)
    BY <1>3, DurableKnown
  <2> QED BY <1>2, <2>1, <2>2
<1>5. EditsIn(part) \subseteq DurableIn(flushed)
  <2>0. PICK m \in Nat : m = room.durable + 1
    BY <1>1
  <2>1. \A i \in m..n : room.doc[i] \in Edit
    BY <1>1, <2>0
  <2>2. /\ part \in Seq(Edit) /\ Len(part) = IF m <= n THEN n - m + 1 ELSE 0
        /\ \A i \in 1..(n - m + 1) : part[i] = room.doc[m + i - 1]
    BY <2>0, <2>1, SubSeqProperties, SMTT(20)
  <2>3. EditsIn(part) = {part[i] : i \in 1..Len(part)}
    BY <2>2, EditsOf
  <2> HIDE DEF part
  <2>4. ASSUME NEW i \in 1..Len(part) PROVE part[i] \in DurableIn(flushed)
    <3>1. Len(part) = n - m + 1
      BY <1>1, <2>0, <2>2
    <3>2. m + i - 1 \in 1..n
      BY <1>1, <2>0, <3>1, SMTT(20)
    <3>3. part[i] = room.doc[m + i - 1]
      BY <2>2, <3>1
    <3> QED BY <1>4, <3>2, <3>3
  <2> QED BY <2>3, <2>4
<1>6. Durable \subseteq DurableIn(flushed)
  BY <1>1, <1>4
<1> QED BY <1>1, <1>2, <1>3, <1>4, <1>5, <1>6, SMTT(20) DEF flushed, Later

LEMMA EvictedRoom ==
  ASSUME NEW r, RoomSound(r), NEW peers, NEW rest
  PROVE  LET s == EvictIdle(peers, rest, r) IN
         /\ RoomSound(s) /\ s.doc = r.doc /\ DurableIn(s) = DurableIn(r)
         /\ peers # {} => s = r
<1>1. RoomSound(NewEpoch(r)) /\ NewEpoch(r).doc = r.doc /\ NewEpoch(r).durable = r.durable
  <2>1. 1 - r.epoch \in {0, 1} /\ r \in RoomType
    BY DEF RoomSound, RoomType
  <2>2. NewEpoch(r).doc = r.doc /\ NewEpoch(r).durable = r.durable
    BY <2>1 DEF NewEpoch, RoomType
  <2>3. NewEpoch(r) \in RoomType
    BY <2>1 DEF NewEpoch, RoomType
  <2> QED BY <2>2, <2>3 DEF RoomSound
<1> QED BY <1>1 DEF EvictIdle, DurableIn

LEMMA RestartedRoom ==
  ASSUME RoomSound(room)
  PROVE  LET s == NewEpoch([room EXCEPT !.doc = SubSeq(@, 1, room.durable)]) IN
         RoomSound(s) /\ DurableIn(s) = Durable
<1>1. PICK doc \in Seq(Edit) : /\ doc = SubSeq(room.doc, 1, room.durable)
                              /\ Len(doc) = room.durable
  BY RoomPrefix, DurableKnown
<1>2. [room EXCEPT !.doc = SubSeq(@, 1, room.durable)] = [room EXCEPT !.doc = doc]
  BY <1>1
<1>3. 1 - room.epoch \in {0, 1} /\ room \in RoomType
  BY DEF RoomSound, RoomType
<1> DEFINE s == NewEpoch([room EXCEPT !.doc = doc])
<1>4. s \in RoomType /\ s.doc = doc /\ s.durable = room.durable
  BY <1>3 DEF NewEpoch, RoomType, Document
<1> HIDE DEF s
<1>5. RoomSound(s)
  BY <1>1, <1>3, <1>4 DEF RoomSound, RoomType
<1>6. SubSeq(doc, 1, Len(doc)) = doc
  BY SubSeqFull
<1>7. DurableIn(s) = Durable
  BY <1>1, <1>4, <1>6 DEF DurableIn, Durable
<1> QED BY <1>2, <1>5, <1>7 DEF s

-----------------------------------------------------------------------------
(***************************************************************************)
(* Clients that a step leaves alone, and clients that it sends a frame.    *)
(***************************************************************************)
LEMMA SyncTypes ==
  ASSUME TypesSound
  PROVE  /\ RoomSound(room) /\ Durable = DurableIn(room) /\ joined \subseteq Client
         /\ \A c \in Client :
              /\ client[c] \in ClientType /\ down[c] \in Seq(FrameType)
              /\ outbox[c] \in Seq(Edit) /\ up[c] \in Seq(Edit) /\ old[c] \in Seq(Edit)
              /\ made[c] \in Nat
BY DEF TypesSound, RoomSound, Durable, DurableIn, Document

LEMMA FramesStayTrue ==
  ASSUME NEW d, NEW durable, NEW more, durable \subseteq more, FramesTrue(d, durable)
  PROVE  FramesTrue(d, more)
BY DEF FramesTrue

LEMMA NobodyKnows ==
  ASSUME TypesSound, NEW c \in Client
  PROVE  Known(client[c]).revision \in Nat
BY SyncTypes DEF ClientType, FrameType, Known

\* The step does not concern the client: what it is subscribed to stays.
LEMMA BystanderSound ==
  ASSUME NEW c \in Client, ClientSound(c),
         client'[c] = client[c], outbox'[c] = outbox[c], made'[c] = made[c],
         down'[c] = down[c], Durable \subseteq Durable',
         c \in joined' => c \in joined /\ room' = room
  PROVE  ClientSound(c)'
<1>1. OutboxSound(c)'
  BY DEF ClientSound, OutboxSound, Change
<1>2. StreamSound(c)'
  <2>1. FramesTrue(down'[c], Durable')
    BY FramesStayTrue DEF ClientSound, StreamSound
  <2> QED BY <2>1 DEF ClientSound, StreamSound
<1>3. ShownSound(c)'
  BY DEF ClientSound, ShownSound
<1> QED BY <1>1, <1>2, <1>3 DEF ClientSound

\* The client is sent what the room is after the step.
LEMMA ArrivalSound ==
  ASSUME TypesSound, NEW c \in joined, ClientSound(c), NEW f \in FrameType,
         client'[c] = client[c], outbox'[c] = outbox[c], made'[c] = made[c],
         down'[c] = Append(down[c], f),
         RoomSound(room'), Later(room, room'), Durable \subseteq Durable', joined' = joined,
         f.doc = room'.doc, f.epoch = room'.epoch, f.revision = room'.revision,
         f.edits \subseteq EditsIn(f.doc), f.type = "durable" => f.edits \subseteq Durable'
  PROVE  ClientSound(c)'
<1>1. c \in Client /\ RoomSound(room) /\ client[c] \in ClientType /\ down[c] \in Seq(FrameType)
  BY SyncTypes
<1>2. OutboxSound(c)'
  BY <1>1 DEF ClientSound, OutboxSound, Change
<1> DEFINE r == room
           s == room'
           d == down[c]
           k == Known(client[c])
<1>3. r \in RoomType /\ s \in RoomType /\ f.revision \in Nat
  BY <1>1 DEF RoomSound, FrameType
<1>4. Later(f, s) /\ Later(s, f)
  BY <1>3 DEF Later, RoomType
<1>5. /\ FramesTrue(d, Durable) /\ FramesLater(d) /\ FramesBefore(d, r) /\ client[c].conn # "off"
      /\ ~client[c].signedIn => client[c].conn = "off"
      /\ Negotiated(client[c]) => FramesFollow(k, d) /\ Follows(k, r)
  BY DEF ClientSound, StreamSound
<1>6. /\ FramesTrue(down'[c], Durable') /\ FramesLater(down'[c])
      /\ FramesBefore(down'[c], room')
  BY <1>1, <1>3, <1>4, <1>5, StreamAppended
<1>7. down'[c] # <<>> /\ down'[c][Len(down'[c])] = f
  BY <1>1, FrameAppended
<1>8. Negotiated(client[c]) => FramesFollow(k, down'[c]) /\ Follows(k, room')
  BY <1>1, <1>3, <1>4, <1>5, KnownAppended, NobodyKnows
<1>9. StreamSound(c)'
  BY <1>5, <1>6, <1>7, <1>8 DEF StreamSound
<1>10. ShownSound(c)'
  BY <1>7 DEF ClientSound, ShownSound
<1> QED BY <1>2, <1>9, <1>10 DEF ClientSound

\* What is captured stays in an outbox or is durable.
LEMMA CapturedStays ==
  ASSUME CapturedSurvives, UNCHANGED <<outbox, captured>>, Durable \subseteq Durable'
  PROVE  CapturedSurvives'
BY DEF CapturedSurvives

-----------------------------------------------------------------------------
(***************************************************************************)
(* Steps of the server.  r is the room before it may be evicted.           *)
(***************************************************************************)
Sent(c, f, r) ==
  /\ f \in FrameType /\ f.doc = r.doc /\ f.epoch = r.epoch /\ f.revision = r.revision
  /\ f.edits \subseteq EditsIn(f.doc) /\ (f.type = "durable" => f.edits \subseteq DurableIn(r))
  /\ down'[c] = Append(down[c], f)

Told(r) ==
  /\ down' \in [Client -> Seq(FrameType)]
  /\ \A c \in Client :
       \/ down'[c] = down[c] /\ (c \in joined => r = room)
       \/ c \in joined /\ \E f \in FrameType : Sent(c, f, r)

LEMMA FrameOfEvent ==
  ASSUME NEW r, RoomSound(r), NEW type \in {"applied", "durable"}, NEW edits,
         edits \subseteq EditsIn(r.doc), type = "durable" => edits \subseteq DurableIn(r)
  PROVE  LET f == Event(type, r, edits) IN
         /\ f \in FrameType /\ f.doc = r.doc /\ f.epoch = r.epoch /\ f.revision = r.revision
         /\ f.edits \subseteq EditsIn(f.doc)
         /\ f.type = "durable" => f.edits \subseteq DurableIn(r)
<1>1. edits \in SUBSET Edit
  BY DurableKnown
<1> QED BY <1>1 DEF Event, FrameType, RoomSound, RoomType

LEMMA BroadcastTold ==
  ASSUME TypesSound, NEW r, NEW f \in FrameType, Broadcast(f),
         f.doc = r.doc, f.epoch = r.epoch, f.revision = r.revision,
         f.edits \subseteq EditsIn(f.doc), f.type = "durable" => f.edits \subseteq DurableIn(r)
  PROVE  Told(r)
<1>1. \A c \in Client : down'[c] = IF c \in joined THEN Append(down[c], f) ELSE down[c]
  BY DEF Broadcast
<1>2. \A c \in Client : down'[c] \in Seq(FrameType)
  <2> SUFFICES ASSUME NEW c \in Client PROVE down'[c] \in Seq(FrameType)
    OBVIOUS
  <2>1. down[c] \in Seq(FrameType)
    BY SyncTypes
  <2>2. Append(down[c], f) \in Seq(FrameType)
    BY <2>1, AppendProperties
  <2> QED BY <1>1, <2>1, <2>2
<1>3. down' \in [Client -> Seq(FrameType)]
  BY <1>2 DEF Broadcast
<1> QED BY <1>1, <1>3 DEF Told, Sent

LEMMA ReplyTold ==
  ASSUME TypesSound, NEW c \in Client, NEW current, NEW f \in FrameType, Reply(c, current, f),
         f.doc = room.doc, f.epoch = room.epoch, f.revision = room.revision,
         f.edits \subseteq EditsIn(f.doc), f.type = "durable" => f.edits \subseteq DurableIn(room)
  PROVE  Told(room)
<1>1. CASE current /\ c \in joined
  <2>1. PICK g \in Seq(FrameType) : g = Append(down[c], f)
    BY SyncTypes, FrameAppended
  <2>2. down' = [down EXCEPT ![c] = g]
    BY <1>1, <2>1 DEF Reply
  <2>3. down' \in [Client -> Seq(FrameType)] /\ down'[c] = g
        /\ \A q \in Client : q # c => down'[q] = down[q]
    BY <2>2 DEF TypesSound
  <2> QED BY <1>1, <2>1, <2>3 DEF Told, Sent
<1>2. CASE ~(current /\ c \in joined)
  BY <1>2 DEF Reply, Told, TypesSound
<1> QED BY <1>1, <1>2

LEMMA SubmitStep ==
  ASSUME TypesSound, NEW c \in Client, NEW e \in Edit, NEW current, NEW next,
         Submit(c, e, current, next)
  PROVE  /\ RoomSound(next) /\ Later(room, next) /\ Durable \subseteq DurableIn(next)
         /\ Told(next) /\ faults' \in Nat
<1>1. /\ RoomSound(room) /\ Later(room, room) /\ Durable = DurableIn(room)
      /\ Durable \subseteq EditsIn(room.doc) /\ faults \in Nat
  <2>1. room.revision \in Nat
    BY SyncTypes DEF RoomSound, RoomType
  <2> QED BY <2>1, SyncTypes, DurableKnown DEF Later, TypesSound
<1>2. CASE /\ e \in Pending /\ Reply(c, current, Event("applied", room, {e}))
           /\ next = room /\ UNCHANGED faults
  <2>1. {e} \subseteq EditsIn(room.doc)
    BY <1>2 DEF Pending
  <2> DEFINE f == Event("applied", room, {e})
  <2>2. /\ f \in FrameType /\ f.doc = room.doc /\ f.epoch = room.epoch
        /\ f.revision = room.revision /\ f.edits \subseteq EditsIn(f.doc)
        /\ f.type = "durable" => f.edits \subseteq DurableIn(room)
    BY <1>1, <2>1, FrameOfEvent
  <2>3. Reply(c, current, f)
    BY <1>2
  <2> HIDE DEF f
  <2> QED BY <1>1, <1>2, <2>2, <2>3, ReplyTold
<1>3. CASE /\ e \in Durable /\ Reply(c, current, Event("durable", room, {e}))
           /\ next = room /\ UNCHANGED faults
  <2>1. {e} \subseteq EditsIn(room.doc) /\ {e} \subseteq DurableIn(room)
    BY <1>1, <1>3
  <2> DEFINE f == Event("durable", room, {e})
  <2>2. /\ f \in FrameType /\ f.doc = room.doc /\ f.epoch = room.epoch
        /\ f.revision = room.revision /\ f.edits \subseteq EditsIn(f.doc)
        /\ f.type = "durable" => f.edits \subseteq DurableIn(room)
    BY <1>1, <2>1, FrameOfEvent
  <2>3. Reply(c, current, f)
    BY <1>3
  <2> HIDE DEF f
  <2> QED BY <1>1, <1>3, <2>2, <2>3, ReplyTold
<1>4. CASE /\ next = Merge(e) /\ Broadcast(Event("applied", next, {e})) /\ UNCHANGED faults
  <2>1. /\ RoomSound(next) /\ Later(room, next) /\ Durable \subseteq DurableIn(next)
        /\ {e} \subseteq EditsIn(next.doc)
    BY <1>1, <1>4, MergeRoom
  <2> DEFINE f == Event("applied", next, {e})
  <2>2. /\ f \in FrameType /\ f.doc = next.doc /\ f.epoch = next.epoch
        /\ f.revision = next.revision /\ f.edits \subseteq EditsIn(f.doc)
        /\ f.type = "durable" => f.edits \subseteq DurableIn(next)
    BY <2>1, FrameOfEvent
  <2>3. Broadcast(f)
    BY <1>4
  <2> HIDE DEF f
  <2>4. Told(next)
    BY <2>2, <2>3, BroadcastTold
  <2> QED BY <1>1, <1>4, <2>1, <2>4
<1>5. CASE Fault /\ next = room /\ UNCHANGED down
  BY <1>1, <1>5 DEF Fault, Told, TypesSound
<1> QED BY <1>2, <1>3, <1>4, <1>5 DEF Submit

LEMMA ServerSound ==
  ASSUME SyncInvariant, NEW r, RoomSound(r), Later(room, r), Durable \subseteq DurableIn(r),
         Told(r), RoomSound(room'), DurableIn(room') = DurableIn(r),
         joined # {} => room' = r, joined' = joined, UNCHANGED localVars
  PROVE  (\A c \in Client : ClientSound(c)') /\ CapturedSurvives'
<1>1. TypesSound /\ UNCHANGED <<client, outbox, made, captured>> /\ Durable \subseteq Durable'
  BY DEF SyncInvariant, localVars, Durable, DurableIn
<1>2. ASSUME NEW c \in Client PROVE ClientSound(c)'
  <2>1. ClientSound(c)
    BY DEF SyncInvariant
  <2>2. CASE down'[c] = down[c] /\ (c \in joined => r = room)
    <3>1. c \in joined' => c \in joined /\ room' = room
      BY <2>2
    <3> QED BY <1>1, <2>1, <2>2, <3>1, BystanderSound
  <2>3. ASSUME c \in joined, NEW f \in FrameType, Sent(c, f, r) PROVE ClientSound(c)'
    <3>1. room' = r /\ Durable' = DurableIn(r)
      BY <2>3 DEF Durable, DurableIn
    <3>2. /\ client'[c] = client[c] /\ outbox'[c] = outbox[c] /\ made'[c] = made[c]
          /\ down'[c] = Append(down[c], f) /\ Later(room, room')
          /\ f.doc = room'.doc /\ f.epoch = room'.epoch /\ f.revision = room'.revision
          /\ f.edits \subseteq EditsIn(f.doc) /\ (f.type = "durable" => f.edits \subseteq Durable')
      BY <1>1, <2>3, <3>1 DEF Sent
    <3> QED BY <1>1, <2>1, <2>3, <3>2, ArrivalSound
  <2> QED BY <2>2, <2>3 DEF Told
<1>3. CapturedSurvives'
  BY <1>1, CapturedStays DEF SyncInvariant
<1> QED BY <1>2, <1>3

LEMMA ServerTypes ==
  ASSUME TypesSound, RoomSound(room'), down' \in [Client -> Seq(FrameType)],
         up' \in [Client -> Document], old' \in [Client -> Document],
         joined' \subseteq Client, faults' \in Nat, UNCHANGED localVars
  PROVE  TypesSound'
BY DEF TypesSound, localVars, RoomSound

\* What is left of a queue of edits.
LEMMA EditTaken ==
  ASSUME NEW q \in [Client -> Document], NEW c \in Client, q[c] # <<>>
  PROVE  /\ Head(q[c]) \in Edit
         /\ [q EXCEPT ![c] = Tail(@)] \in [Client -> Document]
BY HeadTailProperties DEF Document

LEMMA ServerStepSound ==
  ASSUME SyncInvariant, NEW c \in Client, ServerStep(c)
  PROVE  SyncInvariant'
<1>0. TypesSound /\ RoomSound(room) /\ Later(room, room) /\ Durable = DurableIn(room)
      /\ up \in [Client -> Document] /\ old \in [Client -> Document]
      /\ down \in [Client -> Seq(FrameType)] /\ faults \in Nat /\ joined \subseteq Client
  <2>1. TypesSound
    BY DEF SyncInvariant
  <2>2. room.revision \in Nat
    BY <2>1, SyncTypes DEF RoomSound, RoomType
  <2> QED BY <2>1, <2>2, SyncTypes DEF TypesSound, Later
<1>1. CASE ServerReceives(c)
  <2>1. /\ up[c] # <<>> /\ joined' = joined /\ old' = old /\ UNCHANGED localVars
        /\ up' = [up EXCEPT ![c] = Tail(@)]
    BY <1>1 DEF ServerReceives
  <2>2. Submit(c, Head(up[c]), TRUE, room')
    BY <1>1 DEF ServerReceives
  <2>3. Head(up[c]) \in Edit /\ up' \in [Client -> Document]
    BY <1>0, <2>1, EditTaken
  <2>4. /\ RoomSound(room') /\ Later(room, room') /\ Durable \subseteq DurableIn(room')
        /\ Told(room') /\ faults' \in Nat
    BY <1>0, <2>2, <2>3, SubmitStep
  <2>5. TypesSound'
    BY <1>0, <2>1, <2>3, <2>4, ServerTypes DEF Told
  <2>6. (\A q \in Client : ClientSound(q)') /\ CapturedSurvives'
    BY <2>1, <2>4, ServerSound
  <2> QED BY <2>5, <2>6 DEF SyncInvariant
<1>2. CASE ServerReceivesOld(c)
  <2>1. /\ old[c] # <<>> /\ joined' = joined /\ up' = up /\ UNCHANGED localVars
        /\ old' = [old EXCEPT ![c] = Tail(@)]
    BY <1>2 DEF ServerReceivesOld
  <2>2. PICK next : /\ Submit(c, Head(old[c]), FALSE, next)
                    /\ room' = EvictIdle(joined, old', next)
    BY <1>2 DEF ServerReceivesOld
  <2>3. Head(old[c]) \in Edit /\ old' \in [Client -> Document]
    BY <1>0, <2>1, EditTaken
  <2>4. /\ RoomSound(next) /\ Later(room, next) /\ Durable \subseteq DurableIn(next)
        /\ Told(next) /\ faults' \in Nat
    BY <1>0, <2>2, <2>3, SubmitStep
  <2>5. RoomSound(room') /\ DurableIn(room') = DurableIn(next) /\ (joined # {} => room' = next)
    BY <2>2, <2>4, EvictedRoom
  <2>6. TypesSound'
    BY <1>0, <2>1, <2>3, <2>4, <2>5, ServerTypes DEF Told
  <2>7. (\A q \in Client : ClientSound(q)') /\ CapturedSurvives'
    BY <2>1, <2>4, <2>5, ServerSound
  <2> QED BY <2>6, <2>7 DEF SyncInvariant
<1>3. CASE ServerDropsOld(c)
  <2>1. /\ UNCHANGED <<joined, up, down, faults, localVars>>
        /\ old' = [old EXCEPT ![c] = <<>>] /\ room' = EvictIdle(joined, old', room)
    BY <1>3 DEF ServerDropsOld
  <2>2. old' \in [Client -> Document] /\ Told(room)
    BY <1>0, <2>1, EmptySeq DEF Told, Document
  <2>3. RoomSound(room') /\ DurableIn(room') = DurableIn(room) /\ (joined # {} => room' = room)
    BY <1>0, <2>1, EvictedRoom
  <2>4. TypesSound'
    BY <1>0, <2>1, <2>2, <2>3, ServerTypes
  <2>5. (\A q \in Client : ClientSound(q)') /\ CapturedSurvives'
    BY <1>0, <2>1, <2>2, <2>3, ServerSound
  <2> QED BY <2>4, <2>5 DEF SyncInvariant
<1> QED BY <1>1, <1>2, <1>3 DEF ServerStep

LEMMA FlushSound ==
  ASSUME SyncInvariant, NEW n \in Nat, Flush(n)
  PROVE  SyncInvariant'
<1>0. TypesSound /\ RoomSound(room)
      /\ up \in [Client -> Document] /\ old \in [Client -> Document]
      /\ faults \in Nat /\ joined \subseteq Client
  BY SyncTypes DEF SyncInvariant, TypesSound
<1> DEFINE r     == [room EXCEPT !.durable = n]
           edits == EditsIn(SubSeq(room.doc, room.durable + 1, n))
           f     == Event("durable", r, edits)
<1>1. /\ n > room.durable /\ n <= Len(room.doc)
      /\ room' = EvictIdle(joined, old, r) /\ Broadcast(f)
      /\ UNCHANGED <<joined, up, old, localVars, faults>>
  BY DEF Flush
<1>2. /\ RoomSound(r) /\ Later(room, r) /\ r.doc = room.doc /\ Durable \subseteq DurableIn(r)
      /\ edits \subseteq EditsIn(r.doc) /\ edits \subseteq DurableIn(r)
  BY <1>0, <1>1, FlushedRoom
<1> HIDE DEF r, edits
<1>3. /\ f \in FrameType /\ f.doc = r.doc /\ f.epoch = r.epoch /\ f.revision = r.revision
      /\ f.edits \subseteq EditsIn(f.doc)
      /\ f.type = "durable" => f.edits \subseteq DurableIn(r)
  BY <1>2, FrameOfEvent
<1> HIDE DEF f
<1>4. Told(r)
  BY <1>0, <1>1, <1>3, BroadcastTold
<1>5. RoomSound(room') /\ DurableIn(room') = DurableIn(r) /\ (joined # {} => room' = r)
  BY <1>1, <1>2, EvictedRoom
<1>6. TypesSound'
  BY <1>0, <1>1, <1>4, <1>5, ServerTypes DEF Told
<1>7. (\A q \in Client : ClientSound(q)') /\ CapturedSurvives'
  BY <1>1, <1>2, <1>4, <1>5, ServerSound
<1> QED BY <1>6, <1>7 DEF SyncInvariant

\* The restarted room serves nobody, and has all that is durable.
LEMMA RestartSound ==
  ASSUME SyncInvariant, ServerRestarts
  PROVE  SyncInvariant'
<1>0. TypesSound /\ RoomSound(room)
      /\ up \in [Client -> Document] /\ down \in [Client -> Seq(FrameType)] /\ faults \in Nat
  BY SyncTypes DEF SyncInvariant, TypesSound
<1>1. joined' = {} /\ UNCHANGED <<up, down, localVars>> /\ faults' \in Nat
      /\ old' \in [Client -> Document]
  BY <1>0, EmptySeq DEF ServerRestarts, Fault, Document
<1>2. RoomSound(room') /\ Durable' = Durable
  BY <1>0, RestartedRoom DEF ServerRestarts, Durable, DurableIn
<1>3. TypesSound'
  BY <1>0, <1>1, <1>2, ServerTypes
<1>4. ASSUME NEW c \in Client PROVE ClientSound(c)'
  BY <1>1, <1>2, BystanderSound DEF SyncInvariant, localVars
<1>5. CapturedSurvives'
  BY <1>1, <1>2, CapturedStays DEF SyncInvariant, localVars
<1> QED BY <1>3, <1>4, <1>5 DEF SyncInvariant

-----------------------------------------------------------------------------
(***************************************************************************)
(* Steps of a client, which the other clients do not notice.               *)
(***************************************************************************)
\* Only the state of c changes, and the room only when it has nobody left.
OnlyAt(c) ==
  /\ \A q \in Client \ {c} :
       /\ client'[q] = client[q] /\ outbox'[q] = outbox[q] /\ made'[q] = made[q]
       /\ down'[q] = down[q] /\ (q \in joined' => q \in joined /\ room' = room)
  /\ RoomSound(room') /\ Durable \subseteq Durable'

LEMMA OthersSound ==
  ASSUME SyncInvariant, NEW c \in Client, OnlyAt(c), ClientSound(c)'
  PROVE  \A q \in Client : ClientSound(q)'
<1> SUFFICES ASSUME NEW q \in Client, q # c PROVE ClientSound(q)'
  OBVIOUS
<1> QED BY BystanderSound DEF OnlyAt, SyncInvariant

LEMMA ClientTypes ==
  ASSUME TypesSound, RoomSound(room'), joined' \subseteq Client, faults' \in Nat,
         client' \in [Client -> ClientType], down' \in [Client -> Seq(FrameType)],
         up' \in [Client -> Document], old' \in [Client -> Document],
         outbox' \in [Client -> Document], saved' \in [Client -> BOOLEAN],
         made' \in [Client -> Nat], captured' \subseteq Edit
  PROVE  TypesSound'
BY DEF TypesSound, RoomSound

\* What a capture adds.
LEMMA BoxAppended ==
  ASSUME SyncInvariant, NEW c \in Client, NEW e \in Edit, e.by = c,
         \A x \in EditsIn(outbox[c]) : x.n < e.n
  PROVE  /\ Append(outbox[c], e) \in Seq(Edit) /\ Ordered(Append(outbox[c], e))
         /\ EditsIn(Append(outbox[c], e)) = EditsIn(outbox[c]) \cup {e}
         /\ Append(outbox[c], e) # <<>>
<1>1. /\ outbox[c] \in Seq(Edit) /\ Ordered(outbox[c])
      /\ EditsIn(outbox[c]) = {outbox[c][i] : i \in 1..Len(outbox[c])}
  BY SyncTypes, EditsOf DEF SyncInvariant, ClientSound, OutboxSound
<1> DEFINE b == Append(outbox[c], e)
<1>2. /\ b \in Seq(Edit) /\ b # <<>> /\ Len(b) = Len(outbox[c]) + 1 /\ Len(outbox[c]) \in Nat
      /\ \A i \in 1..Len(outbox[c]) : b[i] = outbox[c][i]
      /\ b[Len(outbox[c]) + 1] = e
  BY <1>1, AppendProperties, LenProperties
<1>3. EditsIn(b) = EditsIn(outbox[c]) \cup {e}
  BY <1>1, EditsOf
<1> HIDE DEF b
<1>4. Ordered(b)
  <2> SUFFICES ASSUME NEW i \in 1..Len(b), NEW j \in 1..Len(b), i < j PROVE b[i].n < b[j].n
    BY DEF Ordered
  <2>1. i \in 1..Len(outbox[c]) /\ b[i] = outbox[c][i] /\ outbox[c][i] \in EditsIn(outbox[c])
    BY <1>1, <1>2
  <2>2. CASE j \in 1..Len(outbox[c])
    BY <1>1, <1>2, <2>1, <2>2 DEF Ordered
  <2>3. CASE j = Len(outbox[c]) + 1
    BY <1>2, <2>1, <2>3
  <2> QED BY <1>2, <2>2, <2>3
<1> QED BY <1>2, <1>3, <1>4 DEF b

LEMMA ChangeIsEdit ==
  ASSUME SyncInvariant, NEW c \in Client
  PROVE  /\ Change(c) \in Edit /\ Change(c).by = c /\ Change(c).n = made[c]
         /\ Uncaptured(client[c]) => \A x \in EditsIn(outbox[c]) : x.n < Change(c).n
BY SyncTypes DEF SyncInvariant, Change, Edit, ClientSound, OutboxSound

\* The outbox with the difference, if there is one.
LEMMA BoxCaptured ==
  ASSUME SyncInvariant, NEW c \in Client
  PROVE  /\ CapturedOutbox(c) \in Seq(Edit) /\ Ordered(CapturedOutbox(c))
         /\ EditsIn(CapturedOutbox(c)) = EditsIn(outbox[c]) \cup EditsIn(CapturedEdits(c))
         /\ \A e \in EditsIn(CapturedOutbox(c)) : e.by = c /\ e.n <= made[c]
         /\ CapturedEdits(c) \in Seq(Edit) /\ EditsIn(CapturedEdits(c)) \subseteq {Change(c)}
<1>1. /\ outbox[c] \in Seq(Edit) /\ Ordered(outbox[c]) /\ made[c] \in Nat
      /\ \A e \in EditsIn(outbox[c]) : e.by = c /\ e.n <= made[c]
  BY SyncTypes DEF SyncInvariant, ClientSound, OutboxSound
<1>2. CASE ~Uncaptured(client[c])
  <2>1. CapturedEdits(c) = <<>> /\ CapturedOutbox(c) = outbox[c]
        /\ <<>> \in Seq(Edit) /\ EditsIn(<<>>) = {}
    BY <1>2, EmptySeq, EditsOf DEF CapturedEdits, CapturedOutbox
  <2> QED BY <1>1, <2>1
<1>3. CASE Uncaptured(client[c])
  <2>1. CapturedEdits(c) = <<Change(c)>> /\ CapturedOutbox(c) = Append(outbox[c], Change(c))
    BY <1>3 DEF CapturedEdits, CapturedOutbox
  <2>2. <<Change(c)>> \in Seq(Edit) /\ EditsIn(<<Change(c)>>) = {Change(c)}
    BY ChangeIsEdit DEF EditsIn, ToSet
  <2>3. /\ CapturedOutbox(c) \in Seq(Edit) /\ Ordered(CapturedOutbox(c))
        /\ EditsIn(CapturedOutbox(c)) = EditsIn(outbox[c]) \cup {Change(c)}
    BY <1>3, <2>1, ChangeIsEdit, BoxAppended
  <2>4. Change(c).by = c /\ Change(c).n <= made[c]
    BY <1>1, ChangeIsEdit
  <2> QED BY <1>1, <2>1, <2>2, <2>3, <2>4
<1> QED BY <1>2, <1>3

\* The state of a client that is set as a whole.
LEMMA ClientSet ==
  ASSUME TypesSound, NEW c \in Client, NEW s \in ClientType,
         client' = [client EXCEPT ![c] = s]
  PROVE  /\ client' \in [Client -> ClientType] /\ client'[c] = s
         /\ \A q \in Client \ {c} : client'[q] = client[q]
BY DEF TypesSound

LEMMA QueueSet ==
  ASSUME NEW q \in [Client -> Document], NEW c \in Client, NEW edits \in Document
  PROVE  /\ [q EXCEPT ![c] = edits] \in [Client -> Document]
         /\ [q EXCEPT ![c] = edits][c] = edits
         /\ \A p \in Client \ {c} : [q EXCEPT ![c] = edits][p] = q[p]
OBVIOUS

LEMMA SendTypes ==
  ASSUME TypesSound, NEW c \in Client, NEW edits \in Seq(Edit), Send(c, edits)
  PROVE  up' \in [Client -> Document]
<1>1. PICK q \in Document : q = up[c] \o edits
  BY SyncTypes, ConcatProperties DEF Document
<1>2. up' = [up EXCEPT ![c] = q]
  BY <1>1 DEF Send
<1> QED BY <1>2 DEF TypesSound

LEMMA SyncFacts ==
  ASSUME SyncInvariant
  PROVE  /\ TypesSound /\ RoomSound(room) /\ joined \subseteq Client /\ faults \in Nat
         /\ up \in [Client -> Document] /\ old \in [Client -> Document]
         /\ down \in [Client -> Seq(FrameType)] /\ client \in [Client -> ClientType]
         /\ outbox \in [Client -> Document] /\ saved \in [Client -> BOOLEAN]
         /\ made \in [Client -> Nat] /\ captured \subseteq Edit
BY SyncTypes DEF SyncInvariant, TypesSound

\* The parts of a client's invariant when only what it holds changes.
LEMMA StreamStays ==
  ASSUME NEW c \in Client, StreamSound(c), UNCHANGED <<room, joined>>, down'[c] = down[c],
         client'[c].conn = client[c].conn, client'[c].signedIn = client[c].signedIn,
         client'[c].deferred = client[c].deferred, client'[c].epoch = client[c].epoch,
         client'[c].revision = client[c].revision, client'[c].applied = client[c].applied
  PROVE  StreamSound(c)'
BY DEF StreamSound, Known, Negotiated, Durable

\* The user edits, and the edit is captured or not.
LEMMA EditSound ==
  ASSUME SyncInvariant, NEW c \in Client, UserEdits(c)
  PROVE  SyncInvariant'
<1> DEFINE e   == [by |-> c, n |-> made[c] + 1]
           s   == client[c]
           box == Append(outbox[c], e)
<1>0. /\ s \in ClientType /\ outbox[c] \in Seq(Edit) /\ made[c] \in Nat
      /\ s.editor \in Seq(Edit) /\ s.visible \in Seq(Edit)
      /\ \A q \in Client : made[q] \in Nat
  BY SyncFacts, SyncTypes DEF ClientType, Document
<1>1. /\ s.editor = s.visible /\ made' = [made EXCEPT ![c] = @ + 1]
      /\ UNCHANGED <<room, joined, old, down, saved>>
  BY DEF UserEdits, Uncaptured
<1>2. /\ made' \in [Client -> Nat] /\ made'[c] = made[c] + 1
      /\ \A q \in Client \ {c} : made'[q] = made[q]
  BY <1>0, <1>1, SyncFacts
<1>3. /\ e \in Edit /\ e.by = c /\ e.n = made[c] + 1
      /\ \A x \in EditsIn(outbox[c]) :
           x.by = c /\ x.n < e.n /\ x.n < made[c] + 1 /\ x.n <= made[c] + 1
  <2>1. \A x \in EditsIn(outbox[c]) : x \in Edit /\ x.by = c /\ x.n <= made[c]
    BY <1>0, EditsOf DEF SyncInvariant, ClientSound, OutboxSound
  <2>2. \A x \in EditsIn(outbox[c]) : x.n \in Nat
    BY <2>1 DEF Edit
  <2> QED BY <1>0, <2>1, <2>2 DEF Edit
<1>4. /\ box \in Seq(Edit) /\ Ordered(box) /\ box # <<>>
      /\ EditsIn(box) = EditsIn(outbox[c]) \cup {e}
  BY <1>3, BoxAppended
<1>5. PICK doc \in Seq(Edit) : /\ doc = Append(s.editor, e) /\ doc # s.editor
                              /\ EditsIn(doc) = EditsIn(s.editor) \cup {e}
  <2>1. /\ Append(s.editor, e) \in Seq(Edit) /\ Len(s.editor) \in Nat
        /\ Len(Append(s.editor, e)) = Len(s.editor) + 1
    BY <1>0, <1>3, AppendProperties, LenProperties
  <2>2. Append(s.editor, e) # s.editor
    BY <2>1
  <2>3. EditsIn(Append(s.editor, e)) = EditsIn(s.editor) \cup {e}
    BY <1>0, <1>3, EditsOf
  <2> QED BY <2>1, <2>2, <2>3
<1>6. StreamSound(c) /\ OutboxSound(c) /\ ShownSound(c) /\ RoomSound(room)
      /\ Change(c)' = e
  BY <1>2, SyncFacts DEF SyncInvariant, ClientSound, Change
<1>7. CASE /\ client' = [client EXCEPT ![c] = [s EXCEPT !.editor = doc, !.visible = doc]]
           /\ outbox' = [outbox EXCEPT ![c] = box]
           /\ captured' = captured \cup {e}
           /\ IF Negotiated(s) THEN Send(c, <<e>>) ELSE UNCHANGED up
           /\ UNCHANGED faults
  <2> DEFINE t == [s EXCEPT !.editor = doc, !.visible = doc]
  <2>1. /\ t \in ClientType /\ t.editor = doc /\ t.visible = doc
        /\ t.conn = s.conn /\ t.signedIn = s.signedIn /\ t.deferred = s.deferred
        /\ t.epoch = s.epoch /\ t.revision = s.revision /\ t.applied = s.applied
    BY <1>0 DEF ClientType, Document
  <2> HIDE DEF t
  <2>2. /\ client' \in [Client -> ClientType] /\ client'[c] = t
        /\ \A q \in Client \ {c} : client'[q] = client[q]
    BY <1>7, <2>1, SyncFacts, ClientSet DEF t
  <2>3. /\ outbox' \in [Client -> Document] /\ outbox'[c] = box
        /\ \A q \in Client \ {c} : outbox'[q] = outbox[q]
    BY <1>4, <1>7, SyncFacts, QueueSet DEF Document
  <2>4. up' \in [Client -> Document]
    <3>1. <<e>> \in Seq(Edit)
      BY <1>3
    <3> QED BY <1>7, <3>1, SyncFacts, SendTypes
  <2>5. TypesSound'
    BY <1>1, <1>2, <1>3, <1>6, <1>7, <2>2, <2>3, <2>4, SyncFacts, ClientTypes
  <2>6. OutboxSound(c)'
    <3>1. ~Uncaptured(t)
      BY <2>1 DEF Uncaptured
    <3>2. \A x \in EditsIn(box) : x.by = c /\ x.n <= made[c] + 1
      BY <1>0, <1>3, <1>4
    <3> QED BY <1>2, <1>4, <2>2, <2>3, <3>1, <3>2 DEF OutboxSound
  <2>7. StreamSound(c)'
    BY <1>1, <1>6, <2>1, <2>2, StreamStays
  <2>8. ShownSound(c)'
    BY <1>4, <1>5, <1>6, <2>1, <2>2, <2>3 DEF ShownSound, Negotiated
  <2>9. OnlyAt(c)
    BY <1>1, <1>2, <1>6, <2>2, <2>3 DEF OnlyAt, Durable
  <2>10. CapturedSurvives'
    <3>1. Durable' = Durable
      BY <1>1 DEF Durable
    <3>2. \A x \in captured : x \in EditsIn(outbox'[x.by]) \cup Durable
      <4> SUFFICES ASSUME NEW x \in captured PROVE x \in EditsIn(outbox'[x.by]) \cup Durable
        OBVIOUS
      <4>1. x \in EditsIn(outbox[x.by]) \cup Durable /\ x.by \in Client
        BY SyncFacts DEF SyncInvariant, CapturedSurvives, Edit
      <4> QED BY <1>4, <2>3, <4>1
    <3>3. e \in EditsIn(outbox'[e.by])
      BY <1>3, <1>4, <2>3
    <3> QED BY <1>7, <3>1, <3>2, <3>3 DEF CapturedSurvives
  <2> QED BY <2>5, <2>6, <2>7, <2>8, <2>9, <2>10, OthersSound DEF SyncInvariant, ClientSound
<1>8. CASE /\ client' = [client EXCEPT ![c] = [s EXCEPT !.editor = doc]]
           /\ UNCHANGED <<outbox, captured, up>> /\ faults' \in Nat
  <2> DEFINE t == [s EXCEPT !.editor = doc]
  <2>1. /\ t \in ClientType /\ t.editor = doc /\ t.visible = s.visible
        /\ t.conn = s.conn /\ t.signedIn = s.signedIn /\ t.deferred = s.deferred
        /\ t.epoch = s.epoch /\ t.revision = s.revision /\ t.applied = s.applied
    BY <1>0 DEF ClientType, Document
  <2> HIDE DEF t
  <2>2. /\ client' \in [Client -> ClientType] /\ client'[c] = t
        /\ \A q \in Client \ {c} : client'[q] = client[q]
    BY <1>8, <2>1, SyncFacts, ClientSet DEF t
  <2>3. TypesSound'
    BY <1>1, <1>2, <1>6, <1>8, <2>2, SyncFacts, ClientTypes
  <2>4. Uncaptured(t)
    BY <1>1, <1>5, <2>1 DEF Uncaptured
  <2>5. OutboxSound(c)'
    <3>1. \A x \in EditsIn(outbox[c]) : x.by = c /\ x.n <= made[c] + 1 /\ x.n < made[c] + 1
      BY <1>3
    <3> QED BY <1>2, <1>5, <1>6, <1>8, <2>1, <2>2, <3>1 DEF OutboxSound
  <2>6. StreamSound(c)'
    BY <1>1, <1>6, <2>1, <2>2, StreamStays
  <2>7. ShownSound(c)'
    BY <1>5, <1>6, <1>8, <2>1, <2>2, <2>4 DEF ShownSound, Negotiated
  <2>8. OnlyAt(c)
    BY <1>1, <1>2, <1>6, <1>8, <2>2 DEF OnlyAt, Durable
  <2>9. CapturedSurvives'
    BY <1>1, <1>8, CapturedStays DEF SyncInvariant, Durable
  <2> QED BY <2>3, <2>5, <2>6, <2>7, <2>8, <2>9, OthersSound DEF SyncInvariant, ClientSound
<1>9. [[s EXCEPT !.editor = Append(@, e)] EXCEPT !.visible = Append(s.editor, e)]
        = [s EXCEPT !.editor = doc, !.visible = doc]
  BY <1>0, <1>5 DEF ClientType
<1>10. /\ [s EXCEPT !.editor = Append(@, e)] = [s EXCEPT !.editor = doc]
       /\ [s EXCEPT !.editor = Append(@, e)].editor = Append(s.editor, e)
  BY <1>0, <1>5 DEF ClientType
<1> QED
  <2>1. faults' \in Nat \/ UNCHANGED faults
    BY SyncFacts DEF UserEdits, Fault
  <2>2. faults' \in Nat
    BY <2>1, SyncFacts
  <2> QED BY <1>7, <1>8, <1>9, <1>10, <2>2 DEF UserEdits

\* The difference that is captured now waits, and is shown.
LEMMA RecaptureSound ==
  ASSUME SyncInvariant, NEW c \in Client, Recapture(c)
  PROVE  SyncInvariant'
<1> DEFINE s   == client[c]
           e   == Change(c)
           box == Append(outbox[c], e)
           t   == [s EXCEPT !.visible = s.editor]
<1>0. /\ s \in ClientType /\ outbox[c] \in Seq(Edit) /\ made[c] \in Nat /\ RoomSound(room)
      /\ StreamSound(c) /\ OutboxSound(c) /\ ShownSound(c)
  BY SyncFacts, SyncTypes DEF SyncInvariant, ClientSound
<1>1. /\ Uncaptured(s) /\ UNCHANGED <<room, joined, old, down, saved, made, faults>>
      /\ client' = [client EXCEPT ![c] = t] /\ captured' = captured \cup {e}
      /\ outbox' = [outbox EXCEPT ![c] = box]
      /\ IF Negotiated(s) THEN Send(c, <<e>>) ELSE UNCHANGED up
  BY DEF Recapture, CapturedOutbox, CapturedEdits
<1>2. /\ e \in Edit /\ e.by = c /\ e.n = made[c] /\ \A x \in EditsIn(outbox[c]) : x.n < e.n
      /\ e \in EditsIn(s.editor) /\ \A x \in EditsIn(outbox[c]) : x.by = c /\ x.n <= made[c]
  BY <1>0, <1>1, ChangeIsEdit DEF OutboxSound
<1>3. /\ box \in Seq(Edit) /\ Ordered(box) /\ box # <<>>
      /\ EditsIn(box) = EditsIn(outbox[c]) \cup {e}
  BY <1>2, BoxAppended
<1> HIDE DEF e
<1>4. /\ t \in ClientType /\ t.editor = s.editor /\ t.visible = s.editor
      /\ t.conn = s.conn /\ t.signedIn = s.signedIn /\ t.deferred = s.deferred
      /\ t.epoch = s.epoch /\ t.revision = s.revision /\ t.applied = s.applied
  BY <1>0 DEF ClientType
<1> HIDE DEF t
<1>5. /\ client' \in [Client -> ClientType] /\ client'[c] = t
      /\ \A q \in Client \ {c} : client'[q] = client[q]
  BY <1>1, <1>4, SyncFacts, ClientSet
<1>6. /\ outbox' \in [Client -> Document] /\ outbox'[c] = box
      /\ \A q \in Client \ {c} : outbox'[q] = outbox[q]
  BY <1>1, <1>3, SyncFacts, QueueSet DEF Document
<1>7. up' \in [Client -> Document]
  <2>1. <<e>> \in Seq(Edit)
    BY <1>2
  <2> QED BY <1>1, <2>1, SyncFacts, SendTypes
<1>8. TypesSound'
  BY <1>0, <1>1, <1>2, <1>5, <1>6, <1>7, SyncFacts, ClientTypes
<1>9. OutboxSound(c)'
  <2>1. ~Uncaptured(t)
    BY <1>4 DEF Uncaptured
  <2>2. \A x \in EditsIn(box) : x.by = c /\ x.n <= made[c]
    BY <1>0, <1>2, <1>3
  <2> QED BY <1>1, <1>3, <1>5, <1>6, <2>1, <2>2 DEF OutboxSound
<1>10. StreamSound(c)'
  BY <1>0, <1>1, <1>4, <1>5, StreamStays
<1>11. ShownSound(c)'
  BY <1>0, <1>2, <1>3, <1>4, <1>5, <1>6 DEF ShownSound, Negotiated
<1>12. OnlyAt(c)
  BY <1>0, <1>1, <1>5, <1>6 DEF OnlyAt, Durable
<1>13. CapturedSurvives'
  <2>1. Durable' = Durable
    BY <1>1 DEF Durable
  <2>2. \A x \in captured : x \in EditsIn(outbox'[x.by]) \cup Durable
    <3> SUFFICES ASSUME NEW x \in captured PROVE x \in EditsIn(outbox'[x.by]) \cup Durable
      OBVIOUS
    <3>1. x \in EditsIn(outbox[x.by]) \cup Durable /\ x.by \in Client
      BY SyncFacts DEF SyncInvariant, CapturedSurvives, Edit
    <3> QED BY <1>3, <1>6, <3>1
  <2>3. e \in EditsIn(outbox'[e.by])
    BY <1>2, <1>3, <1>6
  <2> QED BY <1>1, <2>1, <2>2, <2>3 DEF CapturedSurvives
<1> QED BY <1>8, <1>9, <1>10, <1>11, <1>12, <1>13, OthersSound DEF SyncInvariant, ClientSound

-----------------------------------------------------------------------------
(***************************************************************************)
(* Connections and sessions.                                               *)
(***************************************************************************)
LEMMA NoFrames ==
  ASSUME NEW r, NEW durable
  PROVE  /\ FramesTrue(<<>>, durable) /\ FramesLater(<<>>) /\ FramesBefore(<<>>, r)
         /\ <<>> \in Seq(FrameType) /\ <<>> \in Document
<1>1. Len(<<>>) = 0 /\ <<>> \in Seq(FrameType) /\ <<>> \in Seq(Edit)
  BY EmptySeq
<1>2. \A i \in 1..0 : FALSE
  OBVIOUS
<1> QED BY <1>1, <1>2 DEF FramesTrue, FramesLater, FramesBefore, Document

LEMMA OneFrame ==
  ASSUME NEW f \in FrameType
  PROVE  /\ <<f>> \in Seq(FrameType) /\ <<f>> # <<>> /\ Len(<<f>>) = 1 /\ <<f>>[1] = f
OBVIOUS

\* The greeting of the room.
LEMMA ConnectSound ==
  ASSUME SyncInvariant, NEW c \in Client, Connect(c)
  PROVE  SyncInvariant'
<1> DEFINE s == client[c]
           t == [s EXCEPT !.conn = "open"]
           f == Hello(c)
<1>0. /\ s \in ClientType /\ outbox[c] \in Seq(Edit) /\ RoomSound(room)
      /\ OutboxSound(c) /\ s.conn = "off" /\ s.signedIn
      /\ Durable = DurableIn(room) /\ Durable \subseteq EditsIn(room.doc)
      /\ EditsIn(room.doc) \subseteq Edit
  BY SyncFacts, SyncTypes, DurableKnown DEF SyncInvariant, ClientSound, Connect, Dials
<1>1. /\ UNCHANGED <<room, up, old, outbox, saved, made, captured, faults>>
      /\ client' = [client EXCEPT ![c] = t] /\ joined' = joined \cup {c}
      /\ down' = [down EXCEPT ![c] = <<f>>]
  BY DEF Connect
<1>2. /\ f \in FrameType /\ f.type = "hello" /\ f.doc = room.doc /\ f.epoch = room.epoch
      /\ f.revision = room.revision /\ f.edits \subseteq EditsIn(room.doc)
      /\ room.revision \in Nat
  <2>1. By(c, Pending) \subseteq EditsIn(room.doc)
    BY DEF By, Pending
  <2>2. By(c, Pending) \in SUBSET Edit
    BY <1>0, <2>1
  <2> QED BY <1>0, <2>1, <2>2 DEF Hello, FrameType, RoomSound, RoomType
<1> HIDE DEF f
<1>3. /\ t \in ClientType /\ t.editor = s.editor /\ t.visible = s.visible
      /\ t.conn = "open" /\ t.signedIn
  BY <1>0 DEF ClientType
<1> HIDE DEF t
<1>4. /\ client' \in [Client -> ClientType] /\ client'[c] = t
      /\ \A q \in Client \ {c} : client'[q] = client[q]
  BY <1>1, <1>3, SyncFacts, ClientSet
<1>5. /\ down' \in [Client -> Seq(FrameType)] /\ down'[c] = <<f>>
      /\ \A q \in Client \ {c} : down'[q] = down[q]
  BY <1>1, <1>2, OneFrame, SyncFacts
<1>6. TypesSound'
  BY <1>0, <1>1, <1>4, <1>5, SyncFacts, ClientTypes
<1>7. OutboxSound(c)'
  BY <1>0, <1>1, <1>3, <1>4 DEF OutboxSound, Uncaptured, Change
<1>8. StreamSound(c)'
  <2>1. ~Negotiated(t) /\ t.conn # "off"
    BY <1>3 DEF Negotiated
  <2>2. Later(f, room)
    BY <1>2 DEF Later
  <2>3. Len(<<f>>) = 1 /\ <<f>>[1] = f /\ <<f>> # <<>>
    BY <1>2, OneFrame
  <2>4. FramesTrue(<<f>>, Durable)
    BY <1>2, <2>3 DEF FramesTrue
  <2>5. FramesLater(<<f>>)
    BY <2>3 DEF FramesLater
  <2>6. FramesBefore(<<f>>, room)
    BY <2>2, <2>3 DEF FramesBefore
  <2>7. Durable' = Durable /\ room' = room
    BY <1>1 DEF Durable
  <2> QED BY <1>2, <1>3, <1>4, <1>5, <2>1, <2>3, <2>4, <2>5, <2>6, <2>7 DEF StreamSound
<1>9. ShownSound(c)'
  BY <1>3, <1>4 DEF ShownSound, Negotiated
<1>10. OnlyAt(c)
  BY <1>0, <1>1, <1>4, <1>5 DEF OnlyAt, Durable
<1>11. CapturedSurvives'
  BY <1>1, CapturedStays DEF SyncInvariant, Durable
<1> QED BY <1>6, <1>7, <1>8, <1>9, <1>10, <1>11, OthersSound DEF SyncInvariant, ClientSound

\* A client that leaves the room has no connection.
LEMMA LeaveSound ==
  ASSUME SyncInvariant, NEW c \in Client, Disconnect(c), NEW t \in ClientType,
         client' = [client EXCEPT ![c] = t], t.conn = "off",
         Uncaptured(t) => Uncaptured(client[c]) /\ t.editor = client[c].editor,
         faults' \in Nat, UNCHANGED <<outbox, saved, made, captured>>
  PROVE  SyncInvariant'
<1>0. /\ RoomSound(room) /\ OutboxSound(c) /\ Durable = DurableIn(room)
      /\ up \in [Client -> Document] /\ old \in [Client -> Document] /\ up[c] \in Document
  BY SyncFacts, SyncTypes DEF SyncInvariant, ClientSound
<1>1. /\ joined' = joined \ {c} /\ up' = [up EXCEPT ![c] = <<>>]
      /\ down' = [down EXCEPT ![c] = <<>>]
      /\ old' = [old EXCEPT ![c] = IF c \in joined THEN up[c] ELSE <<>>]
      /\ room' = room \/ room' = EvictIdle(joined', old', room)
  BY DEF Disconnect
<1>2. RoomSound(room') /\ Durable' = Durable /\ (joined' # {} => room' = room)
  <2>1. RoomSound(room') /\ DurableIn(room') = DurableIn(room)
    BY <1>0, <1>1, EvictedRoom
  <2>2. joined' # {} => room' = room
    BY <1>0, <1>1, EvictedRoom
  <2> QED BY <2>1, <2>2 DEF Durable, DurableIn
<1>3. /\ client' \in [Client -> ClientType] /\ client'[c] = t
      /\ \A q \in Client \ {c} : client'[q] = client[q]
  BY SyncFacts, ClientSet
<1>4. /\ down' \in [Client -> Seq(FrameType)] /\ down'[c] = <<>>
      /\ \A q \in Client \ {c} : down'[q] = down[q]
      /\ up' \in [Client -> Document] /\ old' \in [Client -> Document]
  BY <1>0, <1>1, NoFrames, SyncFacts
<1>5. TypesSound'
  BY <1>1, <1>2, <1>3, <1>4, SyncFacts, ClientTypes
<1>6. OutboxSound(c)'
  BY <1>0, <1>3 DEF OutboxSound, Change
<1>7. StreamSound(c)'
  BY <1>1, <1>3, <1>4, NoFrames DEF StreamSound, Negotiated
<1>8. ShownSound(c)'
  BY <1>3 DEF ShownSound, Negotiated
<1>9. OnlyAt(c)
  BY <1>1, <1>2, <1>3, <1>4 DEF OnlyAt
<1>10. CapturedSurvives'
  BY <1>2, CapturedStays DEF SyncInvariant
<1> QED BY <1>5, <1>6, <1>7, <1>8, <1>9, <1>10, OthersSound DEF SyncInvariant, ClientSound

LEMMA GoneSound ==
  ASSUME SyncInvariant, NEW c \in Client, Cut(c) \/ Renew(c) \/ SignOut(c)
  PROVE  SyncInvariant'
<1> DEFINE s == client[c]
<1>1. s \in ClientType
  BY SyncFacts
<1>2. Disconnect(c) /\ faults' \in Nat /\ UNCHANGED <<outbox, saved, made, captured>>
  BY SyncFacts DEF Cut, Renew, SignOut, Fault
<1>3. CASE client' = [client EXCEPT ![c] = [s EXCEPT !.conn = "off"]]
  <2> DEFINE t == [s EXCEPT !.conn = "off"]
  <2>1. t \in ClientType /\ t.conn = "off" /\ t.editor = s.editor /\ t.visible = s.visible
    BY <1>1 DEF ClientType
  <2> HIDE DEF t
  <2>2. client' = [client EXCEPT ![c] = t]
    BY <1>3 DEF t
  <2> QED BY <1>2, <2>1, <2>2, LeaveSound DEF Uncaptured
<1>4. CASE client' = [client EXCEPT ![c] = [s EXCEPT !.conn = "off", !.signedIn = FALSE]]
  <2> DEFINE t == [s EXCEPT !.conn = "off", !.signedIn = FALSE]
  <2>1. t \in ClientType /\ t.conn = "off" /\ t.editor = s.editor /\ t.visible = s.visible
    BY <1>1 DEF ClientType
  <2> HIDE DEF t
  <2>2. client' = [client EXCEPT ![c] = t]
    BY <1>4 DEF t
  <2> QED BY <1>2, <2>1, <2>2, LeaveSound DEF Uncaptured
<1> QED BY <1>3, <1>4 DEF Cut, Renew, SignOut

LEMMA FreshType ==
  ASSUME NEW doc \in Document
  PROVE  LET t == [Fresh EXCEPT !.editor = doc, !.visible = doc] IN
         /\ t \in ClientType /\ t.conn = "off" /\ ~Uncaptured(t)
         /\ NoFrame \in FrameType
<1>1. <<>> \in Document
  BY EmptySeq DEF Document
<1>2. NoFrame \in FrameType
  BY <1>1 DEF NoFrame, FrameType
<1> QED BY <1>1, <1>2 DEF Fresh, ClientType, Uncaptured

LEMMA ReopenSound ==
  ASSUME SyncInvariant, NEW c \in Client, ClientRestarts(c)
  PROVE  SyncInvariant'
<1>1. PICK doc \in {<<>>, client[c].editor} :
        client' = [client EXCEPT ![c] = [Fresh EXCEPT !.editor = doc, !.visible = doc]]
  BY DEF ClientRestarts
<1>2. doc \in Document
  <2>1. <<>> \in Document
    BY EmptySeq DEF Document
  <2>2. client[c] \in ClientType
    BY SyncFacts
  <2>3. client[c].editor \in Document
    BY <2>2 DEF ClientType
  <2> QED BY <2>1, <2>3
<1> DEFINE t == [Fresh EXCEPT !.editor = doc, !.visible = doc]
<1>3. t \in ClientType /\ t.conn = "off" /\ ~Uncaptured(t)
  BY <1>2, FreshType
<1>4. client' = [client EXCEPT ![c] = t]
  BY <1>1
<1> HIDE DEF t
<1>5. Disconnect(c) /\ faults' \in Nat /\ UNCHANGED <<outbox, saved, made, captured>>
  BY SyncFacts DEF ClientRestarts, Fault
<1> QED BY <1>3, <1>4, <1>5, LeaveSound

\* Who is not signed in is not connected.
LEMMA SignInSound ==
  ASSUME SyncInvariant, NEW c \in Client, SignIn(c)
  PROVE  SyncInvariant'
<1> DEFINE s == client[c]
           t == [s EXCEPT !.signedIn = TRUE, !.visible = s.editor, !.live = s.live \/ saved[c]]
<1>0. /\ s \in ClientType /\ RoomSound(room) /\ OutboxSound(c) /\ StreamSound(c)
      /\ s.conn = "off" /\ saved[c] \in BOOLEAN
  BY SyncFacts DEF SyncInvariant, ClientSound, StreamSound, SignIn
<1>1. /\ UNCHANGED <<room, joined, up, old, down, outbox, saved, made, captured, faults>>
      /\ client' = [client EXCEPT ![c] = t]
  BY DEF SignIn
<1>2. t \in ClientType /\ t.conn = "off" /\ t.editor = s.editor /\ t.visible = s.editor
  <2>1. PICK live \in BOOLEAN : live = (s.live \/ saved[c])
    OBVIOUS
  <2>2. t = [s EXCEPT !.signedIn = TRUE, !.visible = s.editor, !.live = live]
    BY <2>1
  <2> QED BY <1>0, <2>2 DEF ClientType
<1> HIDE DEF t
<1>3. /\ client' \in [Client -> ClientType] /\ client'[c] = t
      /\ \A q \in Client \ {c} : client'[q] = client[q]
  BY <1>1, <1>2, SyncFacts, ClientSet
<1>4. TypesSound'
  BY <1>0, <1>1, <1>3, SyncFacts, ClientTypes
<1>5. OutboxSound(c)'
  BY <1>0, <1>1, <1>2, <1>3 DEF OutboxSound, Uncaptured
<1>6. StreamSound(c)'
  <2>1. c \notin joined
    BY <1>0 DEF StreamSound
  <2> QED BY <1>0, <1>1, <1>2, <1>3, <2>1 DEF StreamSound, Negotiated, Durable
<1>7. ShownSound(c)'
  BY <1>2, <1>3 DEF ShownSound, Negotiated
<1>8. OnlyAt(c)
  BY <1>0, <1>1, <1>3 DEF OnlyAt, Durable
<1>9. CapturedSurvives'
  BY <1>1, CapturedStays DEF SyncInvariant, Durable
<1> QED BY <1>4, <1>5, <1>6, <1>7, <1>8, <1>9, OthersSound DEF SyncInvariant, ClientSound

-----------------------------------------------------------------------------
(***************************************************************************)
(* Frames.                                                                 *)
(***************************************************************************)
\* What is left of the connection when its first frame is taken.
LEMMA ReceiveStream ==
  ASSUME SyncInvariant, NEW c \in Client, down[c] # <<>>
  PROVE  LET f == Head(down[c])
             d == Tail(down[c]) IN
         /\ f \in FrameType /\ d \in Seq(FrameType)
         /\ f.edits \subseteq EditsIn(f.doc) /\ (f.type = "durable" => f.edits \subseteq Durable)
         /\ FramesTrue(d, Durable) /\ FramesLater(d)
         /\ \A i \in 1..Len(d) : Later(f, d[i])
         /\ Negotiated(client[c]) =>
              FramesFollow(Known(client[c]), d) /\ Follows(Known(client[c]), f)
         /\ c \in joined =>
              /\ FramesBefore(d, room) /\ Later(f, room)
              /\ Negotiated(client[c]) => Follows(Known(client[c]), room)
              /\ d # <<>> => d[Len(d)].doc = room.doc
              /\ d = <<>> => f.doc = room.doc
<1>1. down[c] \in Seq(FrameType) /\ StreamSound(c)
  BY SyncFacts DEF SyncInvariant, ClientSound
<1>2. Head(down[c]) = down[c][1] /\ 1 \in 1..Len(down[c])
      /\ Head(down[c]) \in FrameType /\ Tail(down[c]) \in Seq(FrameType)
  BY <1>1, FrameTaken
<1>3. FramesTrue(down[c], Durable) /\ FramesLater(down[c])
  BY <1>1 DEF StreamSound
<1>4. /\ FramesTrue(Tail(down[c]), Durable) /\ FramesLater(Tail(down[c]))
      /\ \A i \in 1..Len(Tail(down[c])) : Later(Head(down[c]), Tail(down[c])[i])
      /\ \A k : FramesFollow(k, down[c]) => FramesFollow(k, Tail(down[c])) /\ Follows(k, Head(down[c]))
      /\ \A r : FramesBefore(down[c], r) => FramesBefore(Tail(down[c]), r) /\ Later(Head(down[c]), r)
      /\ Tail(down[c]) # <<>> => Tail(down[c])[Len(Tail(down[c]))] = down[c][Len(down[c])]
      /\ Tail(down[c]) = <<>> => Head(down[c]) = down[c][Len(down[c])]
  BY <1>1, <1>3, StreamTaken
<1>5. /\ Head(down[c]).edits \subseteq EditsIn(Head(down[c]).doc)
      /\ Head(down[c]).type = "durable" => Head(down[c]).edits \subseteq Durable
  BY <1>2, <1>3 DEF FramesTrue
<1> QED BY <1>1, <1>2, <1>4, <1>5 DEF StreamSound

\* What comes after a frame comes after what the client knows by the frame.
LEMMA KnownByFrame ==
  ASSUME NEW d \in Seq(FrameType), NEW f \in FrameType, NEW k,
         k.epoch = f.epoch, k.revision = f.revision, k.edits \subseteq EditsIn(f.doc)
  PROVE  /\ (\A i \in 1..Len(d) : Later(f, d[i])) => FramesFollow(k, d)
         /\ \A r : Later(f, r) => Follows(k, r)
BY DEF FramesFollow, Follows, Later

\* The stream of a client whose state is now n, and that took its first frame.
LEMMA TakenSound ==
  ASSUME SyncInvariant, NEW c \in Client, down[c] # <<>>, NEW n, client'[c] = n,
         client[c].conn # "off", n.conn = "live", n.signedIn = client[c].signedIn,
         UNCHANGED <<room, joined>>, down'[c] = Tail(down[c]),
         \/ Negotiated(client[c]) /\ Known(n) = Known(client[c])
         \/ /\ Known(n).epoch = Head(down[c]).epoch
            /\ Known(n).revision = Head(down[c]).revision
            /\ Known(n).edits \subseteq EditsIn(Head(down[c]).doc)
  PROVE  StreamSound(c)'
<1> DEFINE f == Head(down[c])
           d == Tail(down[c])
           k == Known(n)
<1>1. /\ f \in FrameType /\ d \in Seq(FrameType)
      /\ FramesTrue(d, Durable) /\ FramesLater(d)
      /\ \A i \in 1..Len(d) : Later(f, d[i])
      /\ Negotiated(client[c]) =>
           FramesFollow(Known(client[c]), d) /\ Follows(Known(client[c]), f)
      /\ c \in joined =>
           /\ FramesBefore(d, room) /\ Later(f, room)
           /\ Negotiated(client[c]) => Follows(Known(client[c]), room)
           /\ d # <<>> => d[Len(d)].doc = room.doc
  BY ReceiveStream
<1>2. ~client[c].signedIn => client[c].conn = "off"
  BY DEF SyncInvariant, ClientSound, StreamSound
<1>3. FramesFollow(k, d) /\ (c \in joined => Follows(k, room))
  <2>1. CASE Negotiated(client[c]) /\ k = Known(client[c])
    BY <1>1, <2>1
  <2>2. CASE k.epoch = f.epoch /\ k.revision = f.revision /\ k.edits \subseteq EditsIn(f.doc)
    <3> HIDE DEF k, f, d
    <3> QED BY <1>1, <2>2, KnownByFrame
  <2> QED BY <2>1, <2>2
<1>4. Durable' = Durable /\ room' = room /\ joined' = joined
  BY DEF Durable
<1> HIDE DEF k, f, d
<1>5. down'[c] = d /\ Known(client'[c]) = k
  BY DEF d, k
<1> QED BY <1>1, <1>2, <1>3, <1>4, <1>5 DEF StreamSound, Negotiated

\* The frame is put off: the document is not touched.
LEMMA DefersSound ==
  ASSUME SyncInvariant, NEW c \in Client, ClientDefers(c)
  PROVE  SyncInvariant'
<1> DEFINE s == client[c]
           f == Head(down[c])
<1>0. /\ s \in ClientType /\ RoomSound(room) /\ OutboxSound(c) /\ ShownSound(c)
      /\ outbox[c] \in Seq(Edit) /\ down[c] \in Seq(FrameType)
  BY SyncFacts, SyncTypes DEF SyncInvariant, ClientSound
<1>1. /\ UNCHANGED <<room, joined, old, outbox, saved, made, captured>>
      /\ s.conn # "off" /\ down[c] # <<>> /\ (f.type = "hello" \/ Negotiated(s))
      /\ Uncaptured(s) /\ Fault /\ Send(c, Drained(f, outbox[c]))
      /\ down' = [down EXCEPT ![c] = Tail(@)]
  BY DEF ClientDefers
<1>2. f \in FrameType /\ f.edits \subseteq EditsIn(f.doc) /\ Tail(down[c]) \in Seq(FrameType)
  BY <1>1, ReceiveStream
<1>3. PICK g \in FrameType : g = IF f.type = "hello" THEN f ELSE s.deferred
  BY <1>0, <1>2 DEF ClientType
<1> DEFINE t == [s EXCEPT !.live = TRUE, !.conn = "live", !.deferred = g]
<1>4. client' = [client EXCEPT ![c] = t]
  BY <1>3 DEF ClientDefers
<1>5. /\ t \in ClientType /\ t.editor = s.editor /\ t.visible = s.visible
      /\ t.conn = "live" /\ t.signedIn = s.signedIn /\ t.deferred = g
      /\ t.epoch = s.epoch /\ t.revision = s.revision /\ t.applied = s.applied
  BY <1>0 DEF ClientType
<1> HIDE DEF t, f
<1>6. /\ client' \in [Client -> ClientType] /\ client'[c] = t
      /\ \A q \in Client \ {c} : client'[q] = client[q]
  BY <1>4, <1>5, SyncFacts, ClientSet
<1>7. /\ down' \in [Client -> Seq(FrameType)] /\ down'[c] = Tail(down[c])
      /\ \A q \in Client \ {c} : down'[q] = down[q]
  BY <1>1, <1>2, SyncFacts
<1>8. up' \in [Client -> Document]
  <2>1. Drained(f, outbox[c]) \in Seq(Edit)
    BY <1>0, EmptySeq DEF Drained
  <2> QED BY <1>1, <2>1, SyncFacts, SendTypes
<1>9. TypesSound'
  BY <1>0, <1>1, <1>6, <1>7, <1>8, SyncFacts, ClientTypes DEF Fault
<1>10. OutboxSound(c)'
  BY <1>0, <1>1, <1>5, <1>6 DEF OutboxSound, Uncaptured, Change
<1>11. f.type = "hello" => g # NoFrame /\ g = f
  BY <1>3 DEF NoFrame
<1>12. StreamSound(c)'
  <2>1. CASE f.type = "hello"
    <3>1. /\ Known(t).epoch = f.epoch /\ Known(t).revision = f.revision
          /\ Known(t).edits \subseteq EditsIn(f.doc)
      BY <1>2, <1>5, <1>11, <2>1 DEF Known
    <3> QED BY <1>1, <1>5, <1>6, <1>7, <3>1, TakenSound DEF f
  <2>2. CASE f.type # "hello"
    <3>1. Negotiated(s) /\ Known(t) = Known(s)
      BY <1>1, <1>3, <1>5, <2>2 DEF Known
    <3> QED BY <1>1, <1>5, <1>6, <1>7, <3>1, TakenSound
  <2> QED BY <2>1, <2>2
<1>13. ShownSound(c)'
  <2>1. Uncaptured(t)
    BY <1>1, <1>5 DEF Uncaptured
  <2>2. t.deferred = NoFrame => Negotiated(s) /\ s.deferred = NoFrame
    BY <1>1, <1>3, <1>5, <1>11
  <2> QED BY <1>0, <1>1, <1>5, <1>6, <2>1, <2>2 DEF ShownSound
<1>14. OnlyAt(c)
  BY <1>0, <1>1, <1>6, <1>7 DEF OnlyAt, Durable
<1>15. CapturedSurvives'
  BY <1>1, CapturedStays DEF SyncInvariant, Durable
<1> QED BY <1>9, <1>10, <1>12, <1>13, <1>14, <1>15, OthersSound DEF SyncInvariant, ClientSound

\* A frame that the client handles is never outdated, and what it says was
\* applied is in the document that it carries.
LEMMA AdoptedState ==
  ASSUME SyncInvariant, NEW c \in Client, down[c] # <<>>, NEW s \in ClientType,
         s.conn = "live", s.signedIn = client[c].signedIn, s.deferred = client[c].deferred,
         s.epoch = client[c].epoch, s.revision = client[c].revision,
         s.applied = client[c].applied,
         Head(down[c]).type = "hello" \/ Negotiated(client[c])
  PROVE  LET f == Head(down[c])
             a == [Adopted(s, f) EXCEPT !.deferred = NoFrame] IN
         /\ a \in ClientType /\ a.conn = "live" /\ a.signedIn = client[c].signedIn
         /\ ~Outdated(a, f)
         /\ f.type # "hello" => a.epoch = f.epoch
         /\ NowApplied(c, a, f) \subseteq EditsIn(f.doc)
<1> DEFINE f == Head(down[c])
           k == Known(client[c])
<1>1. /\ f \in FrameType /\ f.edits \subseteq EditsIn(f.doc)
      /\ Negotiated(client[c]) => Follows(k, f)
  BY ReceiveStream
<1>2. client[c] \in ClientType /\ NoFrame \in FrameType
  <2>1. <<>> \in Document
    BY EmptySeq DEF Document
  <2> QED BY <2>1, SyncFacts DEF NoFrame, FrameType
<1> HIDE DEF f
<1> DEFINE b == Adopted(s, f)
<1>3. b \in ClientType /\ b.conn = "live" /\ b.signedIn = client[c].signedIn
  <2>1. CASE f.type # "hello" /\ s.deferred # NoFrame
    <3>1. /\ s.deferred.epoch \in {-1, 0, 1} /\ s.deferred.revision \in Nat
          /\ s.deferred.edits \in SUBSET Edit
      BY DEF ClientType, FrameType
    <3>2. b = [s EXCEPT !.epoch = s.deferred.epoch, !.revision = s.deferred.revision,
                        !.applied = s.deferred.edits]
      BY <2>1 DEF Adopted
    <3> QED BY <3>1, <3>2 DEF ClientType
  <2>2. CASE ~(f.type # "hello" /\ s.deferred # NoFrame)
    BY <2>2 DEF Adopted
  <2> QED BY <2>1, <2>2
<1>4. f.type # "hello" => b.epoch = k.epoch /\ b.revision = k.revision /\ b.applied = k.edits
  <2> SUFFICES ASSUME f.type # "hello"
               PROVE  b.epoch = k.epoch /\ b.revision = k.revision /\ b.applied = k.edits
    OBVIOUS
  <2>1. CASE s.deferred # NoFrame
    <3>1. b = [s EXCEPT !.epoch = s.deferred.epoch, !.revision = s.deferred.revision,
                        !.applied = s.deferred.edits]
      BY <2>1 DEF Adopted
    <3>2. /\ b.epoch = s.deferred.epoch /\ b.revision = s.deferred.revision
          /\ b.applied = s.deferred.edits
      BY <3>1 DEF ClientType
    <3> QED BY <2>1, <3>2 DEF Known
  <2>2. CASE s.deferred = NoFrame
    BY <2>2 DEF Adopted, Known
  <2> QED BY <2>1, <2>2
<1> DEFINE a == [b EXCEPT !.deferred = NoFrame]
<1> HIDE DEF b
<1>5. /\ a \in ClientType /\ a.conn = "live" /\ a.signedIn = client[c].signedIn
      /\ a.epoch = b.epoch /\ a.revision = b.revision /\ a.applied = b.applied
  BY <1>2, <1>3 DEF ClientType
<1> HIDE DEF a, k
<1>6. f.type # "hello" => /\ a.epoch = f.epoch /\ a.revision <= f.revision
                          /\ a.applied \subseteq EditsIn(f.doc)
  BY <1>1, <1>4, <1>5 DEF Follows, f
<1>7. ~Outdated(a, f)
  <2>1. a.revision \in Nat /\ f.revision \in Nat
    BY <1>1, <1>5 DEF ClientType, FrameType
  <2> QED BY <1>6, <2>1 DEF Outdated
<1>8. NowApplied(c, a, f) \subseteq EditsIn(f.doc)
  BY <1>1, <1>6 DEF NowApplied, By
<1> QED BY <1>5, <1>6, <1>7, <1>8 DEF a, b, f

\* The document of a frame with what waits.
LEMMA OverlayEdits ==
  ASSUME NEW doc \in Seq(Edit), NEW box \in Seq(Edit), NEW applied
  PROVE  /\ Overlay(doc, box, applied) \in Seq(Edit)
         /\ EditsIn(Overlay(doc, box, applied)) = EditsIn(doc) \cup (EditsIn(box) \ applied)
         /\ box = <<>> => Overlay(doc, box, applied) = doc
<1> DEFINE w == Without(box, applied)
<1>1. w \in Seq(Edit) /\ EditsIn(w) = EditsIn(box) \ applied
  BY WithoutEdits
<1>2. ASSUME box = <<>> PROVE w = <<>>
  <2>1. EditsIn(w) = {}
    BY <1>1, <1>2, EditsOf
  <2>2. EditsIn(w) = {w[i] : i \in 1..Len(w)} /\ Len(w) \in Nat
    BY <1>1, EditsOf
  <2> HIDE DEF w
  <2>3. SUFFICES ASSUME Len(w) # 0 PROVE FALSE
    BY <1>1, EmptySeq DEF w
  <2>4. 1 \in 1..Len(w)
    BY <2>2, <2>3
  <2>5. w[1] \in EditsIn(w)
    BY <2>2, <2>4
  <2> QED BY <2>1, <2>5
<1> HIDE DEF w
<1>3. doc \o w \in Seq(Edit) /\ EditsIn(doc \o w) = EditsIn(doc) \cup EditsIn(w)
  BY <1>1, EditsOfBoth
<1>4. doc \o <<>> = doc
  BY ConcatEmptySeq
<1>5. Overlay(doc, box, applied) = doc \o w
  BY DEF Overlay, w
<1> QED BY <1>1, <1>2, <1>3, <1>4, <1>5

\* Only receipts clear, and receipts are of what is durable.
LEMMA BoxCleared ==
  ASSUME SyncInvariant, NEW c \in Client, down[c] # <<>>
  PROVE  LET f    == Head(down[c])
             left == Cleared(c, CapturedOutbox(c), f) IN
         /\ left \in Seq(Edit) /\ Ordered(left)
         /\ EditsIn(left) \subseteq EditsIn(CapturedOutbox(c))
         /\ EditsIn(CapturedOutbox(c)) \subseteq EditsIn(left) \cup Durable
<1> DEFINE f == Head(down[c])
           box == CapturedOutbox(c)
<1>1. f.type = "durable" => f.edits \subseteq Durable
  BY ReceiveStream
<1>2. box \in Seq(Edit) /\ Ordered(box)
  BY BoxCaptured
<1> HIDE DEF f, box
<1>3. CASE f.type = "durable"
  <2>1. Cleared(c, box, f) = Without(box, By(c, f.edits))
    BY <1>3 DEF Cleared
  <2>2. By(c, f.edits) \subseteq Durable
    BY <1>1, <1>3 DEF By
  <2> QED BY <1>2, <2>1, <2>2, WithoutEdits DEF f, box
<1>4. CASE f.type # "durable"
  BY <1>2, <1>4 DEF Cleared, f, box
<1> QED BY <1>3, <1>4

LEMMA ReceivesSound ==
  ASSUME SyncInvariant, NEW c \in Client, ClientReceives(c)
  PROVE  SyncInvariant'
<1> DEFINE f    == Head(down[c])
           s    == [client[c] EXCEPT !.live = TRUE, !.visible = client[c].editor,
                                     !.conn = "live"]
           box  == CapturedOutbox(c)
           left == Cleared(c, box, f)
           a    == [Adopted(s, f) EXCEPT !.deferred = NoFrame]
           t    == Handled(c, s, box, f)
<1>1. /\ UNCHANGED <<room, joined, old, made, faults>>
      /\ client[c].conn # "off" /\ down[c] # <<>> /\ (f.type = "hello" \/ Negotiated(client[c]))
      /\ client' = [client EXCEPT ![c] = t] /\ outbox' = [outbox EXCEPT ![c] = left]
      /\ captured' = captured \cup EditsIn(CapturedEdits(c))
      /\ saved' = [saved EXCEPT ![c] = @ \/ ~Outdated(Adopted(s, f), f)]
      /\ Send(c, CapturedEdits(c) \o Drained(f, left))
      /\ down' = [down EXCEPT ![c] = Tail(@)]
  BY DEF ClientReceives
<1>2. /\ client[c] \in ClientType /\ RoomSound(room) /\ made[c] \in Nat
      /\ down[c] \in Seq(FrameType)
  BY SyncFacts, SyncTypes
<1>3. /\ s \in ClientType /\ s.conn = "live" /\ s.signedIn = client[c].signedIn
      /\ s.deferred = client[c].deferred /\ s.epoch = client[c].epoch
      /\ s.revision = client[c].revision /\ s.applied = client[c].applied
  BY <1>2 DEF ClientType
<1> HIDE DEF s
<1>4. /\ a \in ClientType /\ a.conn = "live" /\ a.signedIn = client[c].signedIn
      /\ ~Outdated(a, f) /\ (f.type # "hello" => a.epoch = f.epoch)
      /\ NowApplied(c, a, f) \subseteq EditsIn(f.doc)
  BY <1>1, <1>3, AdoptedState
<1>5. /\ box \in Seq(Edit) /\ EditsIn(box) = EditsIn(outbox[c]) \cup EditsIn(CapturedEdits(c))
      /\ \A e \in EditsIn(box) : e.by = c /\ e.n <= made[c]
      /\ CapturedEdits(c) \in Seq(Edit) /\ EditsIn(CapturedEdits(c)) \subseteq {Change(c)}
  BY BoxCaptured
<1>6. /\ left \in Seq(Edit) /\ Ordered(left) /\ EditsIn(left) \subseteq EditsIn(box)
      /\ EditsIn(box) \subseteq EditsIn(left) \cup Durable
  BY <1>1, BoxCleared
<1>7. /\ f \in FrameType /\ f.doc \in Seq(Edit) /\ Tail(down[c]) \in Seq(FrameType)
      /\ c \in joined /\ Tail(down[c]) = <<>> => f.doc = room.doc
  BY <1>1, ReceiveStream DEF FrameType, Document
<1> DEFINE applied == NowApplied(c, a, f)
           doc     == Overlay(f.doc, left, applied)
<1>8. /\ doc \in Seq(Edit) /\ (left = <<>> => doc = f.doc)
      /\ EditsIn(doc) = EditsIn(f.doc) \cup (EditsIn(left) \ applied)
  BY <1>6, <1>7, OverlayEdits
<1>9. t = [a EXCEPT !.epoch = IF f.type = "hello" THEN f.epoch ELSE a.epoch,
                    !.revision = f.revision, !.applied = applied,
                    !.editor = doc, !.visible = doc]
  BY <1>4 DEF Handled, Shown
<1>10. applied \in SUBSET Edit /\ applied \subseteq EditsIn(f.doc)
  BY <1>4, <1>7, EditsOf
<1>11. a.deferred = NoFrame
  <2>1. DOMAIN a = DOMAIN Adopted(s, f) /\ "deferred" \in DOMAIN a
    BY <1>4 DEF ClientType
  <2> QED BY <2>1
<1> HIDE DEF a, f, box, left, applied, doc, t
<1>12. /\ t \in ClientType /\ t.conn = "live" /\ t.signedIn = client[c].signedIn
       /\ t.deferred = NoFrame /\ t.epoch = f.epoch /\ t.revision = f.revision
       /\ t.applied = applied /\ t.editor = doc /\ t.visible = doc
  <2>1. PICK epoch \in {0, 1} : epoch = f.epoch
    BY <1>7 DEF FrameType
  <2>2. (IF f.type = "hello" THEN f.epoch ELSE a.epoch) = epoch
    BY <1>4, <2>1
  <2>3. t = [a EXCEPT !.epoch = epoch, !.revision = f.revision, !.applied = applied,
                      !.editor = doc, !.visible = doc]
    BY <1>9, <2>2
  <2>4. f.revision \in Nat /\ doc \in Document
    BY <1>7, <1>8 DEF FrameType, Document
  <2> QED BY <1>4, <1>10, <1>11, <2>1, <2>3, <2>4 DEF ClientType
<1>13. /\ client' \in [Client -> ClientType] /\ client'[c] = t
       /\ \A q \in Client \ {c} : client'[q] = client[q]
  BY <1>1, <1>12, SyncFacts, ClientSet
<1>14. /\ down' \in [Client -> Seq(FrameType)] /\ down'[c] = Tail(down[c])
       /\ \A q \in Client \ {c} : down'[q] = down[q]
  BY <1>1, <1>7, SyncFacts
<1>15. /\ outbox' \in [Client -> Document] /\ outbox'[c] = left
       /\ \A q \in Client \ {c} : outbox'[q] = outbox[q]
  BY <1>1, <1>6, SyncFacts, QueueSet DEF Document
<1>16. up' \in [Client -> Document] /\ saved' \in [Client -> BOOLEAN] /\ captured' \subseteq Edit
  <2>1. Drained(f, left) \in Seq(Edit)
    BY <1>6, EmptySeq DEF Drained
  <2>2. CapturedEdits(c) \o Drained(f, left) \in Seq(Edit)
    BY <1>5, <2>1, ConcatProperties
  <2>3. up' \in [Client -> Document]
    BY <1>1, <2>2, SyncFacts, SendTypes
  <2>4. saved' \in [Client -> BOOLEAN]
    <3>1. PICK known \in BOOLEAN : known = (saved[c] \/ ~Outdated(Adopted(s, f), f))
      OBVIOUS
    <3>2. saved' = [saved EXCEPT ![c] = known]
      BY <1>1, <3>1
    <3> QED BY <3>2, SyncFacts
  <2>5. captured' \subseteq Edit
    BY <1>1, <1>5, EditsOf, SyncFacts
  <2> QED BY <2>3, <2>4, <2>5
<1>17. TypesSound'
  BY <1>1, <1>2, <1>13, <1>14, <1>15, <1>16, SyncFacts, ClientTypes
<1>18. ~Uncaptured(t) /\ EditsIn(left) \subseteq EditsIn(doc)
  BY <1>8, <1>10, <1>12 DEF Uncaptured
<1>19. OutboxSound(c)'
  BY <1>1, <1>5, <1>6, <1>13, <1>15, <1>18 DEF OutboxSound
<1>20. StreamSound(c)'
  <2>1. /\ Known(t).epoch = f.epoch /\ Known(t).revision = f.revision
        /\ Known(t).edits \subseteq EditsIn(f.doc)
    BY <1>10, <1>12 DEF Known
  <2> QED BY <1>1, <1>12, <1>13, <1>14, <2>1, TakenSound DEF f
<1>21. ShownSound(c)'
  BY <1>1, <1>7, <1>8, <1>12, <1>13, <1>14, <1>15, <1>18 DEF ShownSound
<1>22. OnlyAt(c)
  BY <1>1, <1>2, <1>13, <1>14, <1>15 DEF OnlyAt, Durable
<1>23. CapturedSurvives'
  <2>1. Durable' = Durable
    BY <1>1 DEF Durable
  <2>2. \A x \in captured : x \in EditsIn(outbox'[x.by]) \cup Durable
    <3> SUFFICES ASSUME NEW x \in captured PROVE x \in EditsIn(outbox'[x.by]) \cup Durable
      OBVIOUS
    <3>1. x \in EditsIn(outbox[x.by]) \cup Durable /\ x.by \in Client
      BY SyncFacts DEF SyncInvariant, CapturedSurvives, Edit
    <3> QED BY <1>5, <1>6, <1>15, <3>1
  <2>3. \A x \in EditsIn(CapturedEdits(c)) : x \in EditsIn(outbox'[x.by]) \cup Durable
    BY <1>5, <1>6, <1>15
  <2> QED BY <1>1, <2>1, <2>2, <2>3 DEF CapturedSurvives
<1> QED BY <1>17, <1>19, <1>20, <1>21, <1>22, <1>23, OthersSound DEF SyncInvariant, ClientSound

-----------------------------------------------------------------------------
(***************************************************************************)
(* The theorems.                                                           *)
(***************************************************************************)
LEMMA SyncInit ==
  ASSUME SyncAssumption, Init
  PROVE  SyncInvariant
<1>1. /\ <<>> \in Document /\ <<>> \in Seq(FrameType) /\ Len(<<>>) = 0
      /\ NoFrame \in FrameType /\ EditsIn(<<>>) = {}
  <2>1. <<>> \in Document /\ <<>> \in Seq(FrameType) /\ Len(<<>>) = 0
    BY EmptySeq DEF Document
  <2> QED BY <2>1 DEF NoFrame, FrameType, EditsIn, ToSet
<1>2. /\ \A c \in Client : /\ client[c].conn = "off" /\ client[c].signedIn
                           /\ ~Uncaptured(client[c]) /\ down[c] = <<>> /\ outbox[c] = <<>>
      /\ joined = {} /\ captured = {}
  BY DEF Init, Fresh, Uncaptured
<1>3. TypesSound
  <2>1. [Fresh EXCEPT !.signedIn = TRUE] \in ClientType
    BY <1>1 DEF Fresh, ClientType
  <2>2. room \in RoomType /\ room.durable <= Len(room.doc)
    BY <1>1 DEF Init, RoomType
  <2> QED BY <1>1, <2>1, <2>2 DEF Init, TypesSound, SyncAssumption
<1>4. ASSUME NEW c \in Client PROVE ClientSound(c)
  <2>1. OutboxSound(c)
    <3>1. Ordered(<<>>)
      BY <1>1 DEF Ordered
    <3> QED BY <1>1, <1>2, <3>1 DEF OutboxSound
  <2>2. StreamSound(c)
    BY <1>2, NoFrames DEF StreamSound, Negotiated
  <2>3. ShownSound(c)
    BY <1>2 DEF ShownSound, Negotiated
  <2> QED BY <2>1, <2>2, <2>3 DEF ClientSound
<1>5. CapturedSurvives
  BY <1>2 DEF CapturedSurvives
<1> QED BY <1>3, <1>4, <1>5 DEF SyncInvariant

LEMMA SyncStutter ==
  ASSUME SyncInvariant, UNCHANGED vars
  PROVE  SyncInvariant'
<1>1. TypesSound'
  BY DEF SyncInvariant, TypesSound, vars
<1>2. /\ UNCHANGED <<room, joined, down, client, outbox, made, captured>>
      /\ Durable' = Durable
  BY DEF vars, Durable
<1>3. \A c \in Client : ClientSound(c)'
  BY <1>2, BystanderSound DEF SyncInvariant
<1>4. CapturedSurvives'
  BY <1>2, CapturedStays DEF SyncInvariant
<1> QED BY <1>1, <1>3, <1>4 DEF SyncInvariant

LEMMA SyncStep ==
  ASSUME SyncInvariant, [Next]_vars
  PROVE  SyncInvariant'
<1>1. ASSUME NEW c \in Client, ClientStep(c) PROVE SyncInvariant'
  BY <1>1, EditSound, ReceivesSound, DefersSound, RecaptureSound DEF ClientStep
<1>2. ASSUME NEW c \in Client, SessionStep(c) PROVE SyncInvariant'
  BY <1>2, ConnectSound, GoneSound, SignInSound, ReopenSound DEF SessionStep
<1>3. ASSUME NEW n \in 1..Len(room.doc), Flush(n) PROVE SyncInvariant'
  BY <1>3, FlushSound
<1> QED BY <1>1, <1>2, <1>3, ServerStepSound, RestartSound, SyncStutter DEF Next

(***************************************************************************)
(* The parts of the invariant hold together, however clients, connections, *)
(* frames, flushes and restarts of either side interleave.                 *)
(***************************************************************************)
THEOREM SyncIsSound == Spec => []SyncInvariant
<1>1. Init => SyncInvariant
  BY SyncAssumption, SyncInit
<1>2. SyncInvariant /\ [Next]_vars => SyncInvariant'
  BY SyncStep
<1> QED BY <1>1, <1>2, PTL DEF Spec

(***************************************************************************)
(* Every field of the session has its type, and the outbox is ordered by   *)
(* the counter of the client.                                              *)
(***************************************************************************)
THEOREM SyncTypeCorrect == Spec => []TypeOK
<1>1. SyncInvariant => TypeOK
  <2> SUFFICES ASSUME SyncInvariant PROVE TypeOK
    OBVIOUS
  <2>1. /\ room.doc \in Document /\ room.durable \in 0..Len(room.doc)
        /\ room.epoch \in {0, 1} /\ room.revision \in Nat
    BY SyncFacts, DurableKnown DEF RoomSound, RoomType
  <2>2. ASSUME NEW c \in Client
        PROVE  /\ up[c] \in Document /\ old[c] \in Document /\ outbox[c] \in Document
               /\ Ordered(outbox[c])
               /\ client[c].editor \in Document /\ client[c].visible \in Document
               /\ client[c].applied \subseteq Edit
               /\ client[c].conn \in {"off", "open", "live"}
    <3>1. client[c] \in ClientType
      BY SyncFacts
    <3> QED BY <3>1, SyncFacts DEF ClientType, SyncInvariant, ClientSound, OutboxSound
  <2> QED BY <2>1, <2>2, SyncFacts DEF TypeOK, Ordered
<1> QED BY <1>1, SyncIsSound, PTL

(***************************************************************************)
(* An edit that was written to the outbox of a client stays there until it *)
(* is durable: no receipt comes too early, and none is taken back.         *)
(***************************************************************************)
THEOREM CapturedEditsSurvive == Spec => []CapturedSurvives
<1>1. SyncInvariant => CapturedSurvives
  BY DEF SyncInvariant
<1> QED BY <1>1, SyncIsSound, PTL

(***************************************************************************)
(* A connected client shows its own edits that wait in the outbox,         *)
(* whatever the frames said of them.                                       *)
(***************************************************************************)
THEOREM WaitingEditsShown == Spec => []PendingShown
<1>1. SyncInvariant => PendingShown
  BY DEF SyncInvariant, ClientSound, ShownSound, PendingShown
<1> QED BY <1>1, SyncIsSound, PTL

(***************************************************************************)
(* When nothing is on its way and nothing waits, every connected client    *)
(* shows the document of the room.                                         *)
(***************************************************************************)
THEOREM ClientsConverge == Spec => []Converged
<1>1. SyncInvariant => Converged
  BY DEF SyncInvariant, ClientSound, ShownSound, Converged, Settled
<1> QED BY <1>1, SyncIsSound, PTL
=============================================================================
