------------------------------ MODULE MapStore ------------------------------
(***************************************************************************)
(* The documents that one shared map keeps in CouchDB, as the Go backend   *)
(* uses them (src/backend/internal/couch):                                 *)
(*                                                                         *)
(*   - the mutable head, advanced only by compare-and-swap on its revision;*)
(*   - immutable batches, named by the hash of their content, each naming  *)
(*     its parent; only those reachable from the head are committed;       *)
(*   - immutable operation receipts, one per committed operation, written  *)
(*     after the commit and before the next one.                           *)
(*                                                                         *)
(* CouchDB itself is not in the repository: what it promises is taken from *)
(* how the client code treats its answers.  A compare-and-swap whose       *)
(* answer is lost stays in inflight: it may still be applied at any later  *)
(* time, or never.                                                         *)
(***************************************************************************)
EXTENDS Naturals, Sequences, FiniteSets

CONSTANTS
  Account,    \* the accounts that may collaborate on the map
  OpId,       \* keys of live edits: an account and the UUID it chose
  Hash,       \* digests of edit payloads
  Legacy      \* receipts that v1 submissions committed, one batch each

VARIABLES
  head,       \* the authoritative head document
  batches,    \* batches[n] is the immutable batch document named n
  receipts,   \* the operation receipt documents
  inflight,   \* head writes whose answer was lost and that may still land
  log         \* history: the names of the committed batches, in order

storeVars == <<head, batches, receipts, inflight, log>>

LegacyId == {Legacy[i].id : i \in 1..Len(Legacy)}

Edit == [id : OpId, hash : Hash]

\* Live edits and v1 submissions have receipts under different keys.
Operation == Edit \cup {Legacy[i] : i \in 1..Len(Legacy)}

Batch == [parent : Nat, seq : Nat, ops : Seq(Operation), changes : Seq(Operation)]

Receipt == [id : OpId \cup LegacyId, hash : {o.hash : o \in Operation}, seq : Nat]

HeadDoc == [rev : Nat, batch : Nat, seq : Nat, indexed : BOOLEAN,
         live : {1, 2}, writers : SUBSET Account]

ASSUME LegacyAssumption ==
  /\ Legacy \in Seq([id : STRING, hash : STRING])
  /\ LegacyId \cap OpId = {}
  /\ \A i, j \in 1..Len(Legacy) : Legacy[i].id = Legacy[j].id => i = j

-----------------------------------------------------------------------------
NoBatch == 0

OpsOf(n) == IF n = NoBatch THEN <<>> ELSE batches[n].ops

ChangesOf(n) == IF n = NoBatch THEN <<>> ELSE batches[n].changes

ReceiptsOf(n) ==
  {[id |-> OpsOf(n)[i].id, hash |-> OpsOf(n)[i].hash, seq |-> batches[n].seq]
     : i \in 1..Len(OpsOf(n))}

Committed == UNION {ReceiptsOf(log[i]) : i \in 1..Len(log)}

(***************************************************************************)
(* A new map has a head over its first snapshot; a map written by an older *)
(* server has a chain of v1 batches, the receipts of which were never      *)
(* materialised.                                                           *)
(***************************************************************************)
InitStore ==
  /\ batches = [i \in 1..Len(Legacy) |->
                  [parent |-> i - 1, seq |-> i, ops |-> <<Legacy[i]>>,
                   changes |-> SubSeq(Legacy, 1, i)]]
  /\ log = [i \in 1..Len(Legacy) |-> i]
  /\ head = [rev |-> 1, batch |-> Len(Legacy), seq |-> Len(Legacy),
             indexed |-> (Legacy = <<>>), live |-> 1, writers |-> Account]
  /\ receipts = {}
  /\ inflight = {}

(***************************************************************************)
(* Immutable documents.  The name of a batch is the hash of its content:   *)
(* putting the same content again finds it, and any other content gets a   *)
(* name of its own.                                                        *)
(***************************************************************************)
Named(b, n) == n \in 1..Len(batches) /\ batches[n] = b

PutBatch(b, n) ==
  \/ /\ Named(b, n)
     /\ UNCHANGED batches
  \/ /\ \A m \in 1..Len(batches) : batches[m] # b
     /\ n = Len(batches) + 1
     /\ batches' = Append(batches, b)

\* An immutable document that exists with another body is a conflict.
Conflicting(new) ==
  \E r \in new, q \in receipts : q.id = r.id /\ q # r

(***************************************************************************)
(* CompareAndSwapHead.  req is the head document to write; its rev is the  *)
(* revision it was computed from.                                          *)
(***************************************************************************)
Current(req) == req.rev = head.rev

\* Mutant: a head write keeps the revision it was computed from.
Unstamped(req) == req

Stamped(req) == [req EXCEPT !.rev = head.rev + 1]

Install(req) ==
  /\ head' = Stamped(req)
  /\ log' = IF req.batch = head.batch THEN log ELSE Append(log, req.batch)

\* Mutant: a late write is applied without regard to the revision.
LandAnyway(req) ==
  /\ inflight' = inflight \ {req}
  /\ Install(req)
  /\ UNCHANGED <<batches, receipts>>

\* A write whose answer was lost reaches the database after all.
Land(req) ==
  /\ inflight' = inflight \ {req}
  /\ IF Current(req) THEN Install(req) ELSE UNCHANGED <<head, log>>
  /\ UNCHANGED <<batches, receipts>>

\* ... or never does.
Vanish(req) ==
  /\ inflight' = inflight \ {req}
  /\ UNCHANGED <<head, batches, receipts, log>>
=============================================================================
