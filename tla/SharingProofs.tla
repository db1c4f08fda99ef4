--------------------------- MODULE SharingProofs ---------------------------
(***************************************************************************)
(* Proofs about Sharing for every number of accounts, tokens, requests,    *)
(* commits, acceptances and failures.  The idea: a head that a request     *)
(* loaded is the present one unless its revision is older, so two copies   *)
(* of one revision have the same content; and every access list anybody    *)
(* holds is one that the owner offered, so writing any of them is safe.    *)
(***************************************************************************)
EXTENDS Sharing, DataLemmas, TLAPS

-----------------------------------------------------------------------------
(***************************************************************************)
(* The inductive invariant, by parts.                                      *)
(***************************************************************************)
\* An acceptance is of an invitation that was handed out, to its account.
RequestsSound ==
  \A r \in Request :
    /\ ~At(r, "idle") => req[r].who \in Account
    /\ At(r, "grant") \/ At(r, "swap") => req[r].kind = "accept"
    /\ req[r].kind = "accept" =>
         req[r].token \in handed /\ invite[req[r].token].account = req[r].who

\* A copy of the head is old, or it is the head.
CopiesSound ==
  /\ head.rev # 0
  /\ cache.rev <= head.rev
  /\ \A r \in Request :
       /\ req[r].head.rev <= head.rev
       /\ req[r].head.rev = head.rev => req[r].head = head

OfferedOnly(acl) ==
  \A a \in Account :
    \/ acl[a] = NoRole
    \/ a = Owner /\ acl[a] = "owner"
    \/ \E t \in handed : invite[t] = [account |-> a, role |-> acl[a]]

ListsSound ==
  /\ OfferedOnly(head.acl) /\ OfferedOnly(cache.acl)
  /\ \A r \in Request : OfferedOnly(req[r].head.acl)

\* Two copies of one revision have the same content.
Copies == {Free.head, head, cache} \cup {req[r].head : r \in Request}

ContentSound == \A x, y \in Copies : x.rev = y.rev => x.seq = y.seq

\* What a request that is under way may find in the cache.
FloorsSound ==
  \A r \in Request : ~At(r, "idle") =>
    /\ req[r].floor <= req[r].start /\ req[r].start <= head.seq
    /\ \A q \in Request : ~At(q, "idle") => req[r].floor <= req[q].start
    /\ At(r, "compare") \/ At(r, "install") => req[r].head.seq >= req[r].start
    /\ At(r, "read") /\ cache.exists => cache.seq >= req[r].floor

SharingInvariant ==
  /\ TypeOK
  /\ RequestsSound /\ CopiesSound /\ ListsSound
  /\ CurrentMeansEqual
  /\ ContentSound /\ FloorsSound

-----------------------------------------------------------------------------
(***************************************************************************)
(* Types.                                                                  *)
(***************************************************************************)
RequestType ==
  [kind : {"none", "get", "invite", "accept"}, at : Phase,
   who : Account \cup {None}, token : Token \cup {None},
   head : HeadDoc, start : Nat, floor : Nat, began : Nat, oldest : Nat]

\* The other requests are left alone.
Others(r) == \A q \in Request : q # r => req'[q] = req[q]

LEMMA TypeFacts ==
  ASSUME TypeOK
  PROVE  /\ req \in [Request -> RequestType] /\ head \in HeadDoc /\ cache \in Cached
         /\ \A r \in Request : req[r] \in RequestType /\ req[r].head \in HeadDoc
BY DEF TypeOK, RequestType

LEMMA FreeType ==
  ASSUME SharingAssumption
  PROVE  /\ Free \in RequestType /\ Free.head \in HeadDoc /\ Free.at = "idle" /\ Free.kind = "none"
         /\ Free.head.rev = 0 /\ Free.head.seq = 0 /\ Free.head.acl = NoAccess
         /\ OwnerOnly \in AccessList /\ NoMap \in Cached
BY DEF SharingAssumption, Free, RequestType, Phase, HeadDoc, NoAccess, AccessList, NoRole, Role,
       OwnerOnly, NoMap, Cached

\* The request keeps what it was started with.
Keeps(r) ==
  /\ req'[r].kind = req[r].kind /\ req'[r].who = req[r].who /\ req'[r].token = req[r].token
  /\ req'[r].start = req[r].start /\ req'[r].floor = req[r].floor
  /\ req'[r].began = req[r].began /\ req'[r].oldest = req[r].oldest

LEMMA LoadStep ==
  ASSUME TypeOK, NEW r \in Request, NEW at \in Phase, NEW h \in HeadDoc,
         req' = [req EXCEPT ![r].at = at, ![r].head = h]
  PROVE  /\ req' \in [Request -> RequestType] /\ Others(r) /\ Keeps(r)
         /\ req'[r].at = at /\ req'[r].head = h
BY TypeFacts DEF Others, RequestType, Keeps

LEMMA GoStep ==
  ASSUME TypeOK, NEW r \in Request, NEW at \in Phase, Go(r, at)
  PROVE  /\ req' \in [Request -> RequestType] /\ Others(r) /\ Keeps(r)
         /\ req'[r].at = at /\ req'[r].head = req[r].head
BY TypeFacts DEF Go, Others, RequestType, Keeps

LEMMA LeaveStep ==
  ASSUME SharingAssumption, TypeOK, NEW r \in Request, NEW at \in Phase, Leave(r, at)
  PROVE  /\ req' \in [Request -> RequestType] /\ Others(r) /\ Keeps(r)
         /\ req'[r].at = at /\ req'[r].head = Free.head
<1>1. PICK h \in HeadDoc : h = Free.head
  BY FreeType
<1>2. req' = [req EXCEPT ![r].at = at, ![r].head = h]
  BY <1>1 DEF Leave
<1> QED BY <1>1, <1>2, LoadStep

LEMMA FinishStep ==
  ASSUME SharingAssumption, TypeOK, NEW r \in Request, Finish(r)
  PROVE  req' \in [Request -> RequestType] /\ Others(r) /\ req'[r] = Free
BY TypeFacts, FreeType DEF Finish, Others

\* The oldest start among the requests that are under way.
LEMMA BeginStep ==
  ASSUME SharingAssumption, TypeOK, NEW r \in Request, NEW kind \in {"get", "invite", "accept"},
         NEW who \in Account, NEW token \in Token \cup {None}, Begin(r, kind, "load", who, token)
  PROVE  /\ req' \in [Request -> RequestType] /\ Others(r)
         /\ At(r, "idle") /\ req'[r].at = "load" /\ req'[r].kind = kind
         /\ req'[r].who = who /\ req'[r].token = token /\ req'[r].head = Free.head
         /\ req'[r].start = head.seq /\ req'[r].floor <= head.seq
         /\ \A q \in Request : ~At(q, "idle") => req'[r].floor <= req[q].start
         /\ req'[r].began = head.rev /\ req'[r].oldest <= head.rev
         /\ \A q \in Request : ~At(q, "idle") => req'[r].oldest <= req[q].began
<1> DEFINE starts == {head.seq} \cup {req[q].start : q \in Busy}
           floor  == IF kind # "get" THEN 0 ELSE Min(starts)
           begun  == {head.rev} \cup {req[q].began : q \in Busy}
           oldest == IF kind # "accept" THEN 0 ELSE Min(begun)
<1>1. /\ starts \in SUBSET Nat /\ head.seq \in starts
      /\ begun \in SUBSET Nat /\ head.rev \in begun
  BY TypeFacts DEF HeadDoc, RequestType, Busy
<1>2. /\ Min(starts) \in Nat /\ \A y \in starts : Min(starts) <= y
      /\ Min(begun) \in Nat /\ \A y \in begun : Min(begun) <= y
  <2> HIDE DEF starts, begun
  <2>1. Min(starts) \in starts /\ \A y \in starts : Min(starts) <= y
    BY <1>1, LeastExists
  <2>2. Min(begun) \in begun /\ \A y \in begun : Min(begun) <= y
    BY <1>1, LeastExists
  <2> QED BY <1>1, <2>1, <2>2
<1>3. /\ floor \in Nat /\ \A y \in starts : floor <= y
      /\ oldest \in Nat /\ \A y \in begun : oldest <= y
  BY <1>1, <1>2
<1>4. /\ At(r, "idle")
      /\ req' = [req EXCEPT ![r] = [Free EXCEPT !.kind = kind, !.at = "load", !.who = who,
                  !.token = token, !.start = head.seq, !.began = head.rev, !.floor = floor,
                  !.oldest = oldest]]
  BY DEF Begin
<1>5. /\ floor <= head.seq /\ \A q \in Request : ~At(q, "idle") => floor <= req[q].start
      /\ oldest <= head.rev /\ \A q \in Request : ~At(q, "idle") => oldest <= req[q].began
  BY <1>3 DEF Busy
<1> DEFINE new == [Free EXCEPT !.kind = kind, !.at = "load", !.who = who,
                     !.token = token, !.start = head.seq, !.began = head.rev, !.floor = floor,
                     !.oldest = oldest]
<1> HIDE DEF starts, floor, begun, oldest
<1>6. new \in RequestType /\ new.at = "load" /\ new.kind = kind /\ new.who = who
      /\ new.token = token /\ new.head = Free.head /\ new.start = head.seq /\ new.floor = floor
      /\ new.began = head.rev /\ new.oldest = oldest
  BY <1>3, FreeType, TypeFacts DEF RequestType, HeadDoc, Phase
<1>7. req' = [req EXCEPT ![r] = new]
  BY <1>4
<1> HIDE DEF new
<1> QED BY <1>4, <1>5, <1>6, <1>7, TypeFacts DEF Others

LockSound == \A r \in Request : (mu = r) <=> At(r, "swap")

\* A request that does not hold the lock goes on, and does not take it.
LEMMA LockStays ==
  ASSUME TypeOK, NEW r \in Request, Others(r), mu' = mu,
         ~At(r, "swap"), req'[r].at # "swap"
  PROVE  LockSound'
<1> SUFFICES ASSUME NEW q \in Request PROVE (mu = q) <=> (req'[q].at = "swap")
  BY DEF LockSound, At
<1>1. (mu = q) <=> (req[q].at = "swap")
  BY DEF TypeOK, At
<1> QED BY <1>1 DEF Others, At

LEMMA TokensStay ==
  ASSUME TypeOK, UNCHANGED inviteVars
  PROVE  /\ invite' \in [Token -> Invitation \cup {None}]
         /\ inMemory' \cup stored' \cup handed' \subseteq {t \in Token : invite'[t] # None}
BY DEF TypeOK, inviteVars

LEMMA FailType ==
  ASSUME TypeOK, Fail
  PROVE  budget' \in [commits : Nat, accepts : Nat, failures : Nat]
BY DEF TypeOK, Fail

LEMMA Offer ==
  ASSUME TypeOK, RequestsSound, NEW r \in Request, req[r].kind = "accept"
  PROVE  /\ req[r].token \in handed /\ invite[req[r].token] \in Invitation
         /\ Offered(r) \in {"editor", "viewer"}
         /\ invite[req[r].token] = [account |-> req[r].who, role |-> Offered(r)]
<1>1. req[r].token \in handed /\ invite[req[r].token].account = req[r].who
  BY DEF RequestsSound
<1>2. req[r].token \in Token /\ invite[req[r].token] # None
  BY <1>1 DEF TypeOK
<1>3. invite[req[r].token] \in Invitation
  BY <1>2 DEF TypeOK
<1> QED BY <1>1, <1>3 DEF Offered, Invitation

\* What only moves a request: Get, Lookup and the steps that answer.
LEMMA MoveType ==
  ASSUME TypeOK, NEW r \in Request, req' \in [Request -> RequestType], Others(r),
         ~At(r, "swap"), req'[r].at # "swap",
         UNCHANGED <<head, mu, inviteVars>>, cache' \in Cached,
         told' \in AccessList, given' \in [Account -> Nat],
         budget' \in [commits : Nat, accepts : Nat, failures : Nat]
  PROVE  TypeOK'
BY LockStays, TokensStay DEF TypeOK, RequestType, LockSound

LEMMA StartType ==
  ASSUME SharingAssumption, TypeOK, NEW r \in Request, Start(r)
  PROVE  TypeOK'
<1>1. \E kind \in {"get", "invite", "accept"}, who \in Account, t \in Token \cup {None} :
        Begin(r, kind, "load", who, t)
  BY DEF Start, Get, Lookup
<1>2. /\ req' \in [Request -> RequestType] /\ Others(r) /\ At(r, "idle")
      /\ req'[r].at = "load"
  BY <1>1, BeginStep
<1>3. UNCHANGED <<head, cache, mu, inviteVars, told, given>>
  BY DEF Start, Get, Lookup
<1>4. budget' \in [commits : Nat, accepts : Nat, failures : Nat]
  BY DEF Start, Get, Lookup, TypeOK
<1>5. ~At(r, "swap")
  BY <1>2 DEF At
<1> QED BY <1>2, <1>3, <1>4, <1>5, MoveType DEF TypeOK

LEMMA HydrateType ==
  ASSUME SharingAssumption, TypeOK, NEW r \in Request, Hydrate(r) \/ InviteRefused(r)
  PROVE  TypeOK'
<1>1. ~At(r, "swap")
  BY DEF Hydrate, HydrateLoad, HydrateCompare, HydrateInstall, HydrateFails, Read,
         InviteRefused, At
<1>2. UNCHANGED <<head, mu, inviteVars, told, given>>
  BY DEF Hydrate, HydrateLoad, HydrateCompare, HydrateInstall, HydrateFails, Read, InviteRefused
<1>3. budget' \in [commits : Nat, accepts : Nat, failures : Nat]
  BY FailType DEF TypeOK, Hydrate, HydrateLoad, HydrateCompare, HydrateInstall, HydrateFails,
                  Read, InviteRefused
<1>4. cache' \in Cached
  <2>1. CASE HydrateInstall(r)
    BY <2>1, TypeFacts DEF HydrateInstall, Installed, Cached, HeadDoc
  <2> QED BY <2>1 DEF TypeOK, Hydrate, HydrateLoad, HydrateCompare, HydrateFails, Read,
                      InviteRefused
<1>5. \/ \E at \in Phase : at # "swap" /\ (Go(r, at) \/ Leave(r, at))
      \/ Finish(r)
      \/ req' = [req EXCEPT ![r].at = "compare", ![r].head = head]
  BY DEF Hydrate, HydrateLoad, HydrateCompare, HydrateInstall, HydrateFails, Read,
         InviteRefused, Hydrated, Phase
<1>6. req' \in [Request -> RequestType] /\ Others(r) /\ req'[r].at # "swap"
  <2>1. ASSUME NEW at \in Phase, at # "swap", Go(r, at) PROVE <1>6!:
    BY <2>1, GoStep
  <2>2. ASSUME NEW at \in Phase, at # "swap", Leave(r, at) PROVE <1>6!:
    BY <2>2, LeaveStep
  <2>3. CASE Finish(r)
    BY <2>3, FinishStep, FreeType
  <2>4. CASE req' = [req EXCEPT ![r].at = "compare", ![r].head = head]
    <3>1. PICK at \in Phase, h \in HeadDoc : at = "compare" /\ h = head
      BY TypeFacts DEF Phase
    <3>2. req' = [req EXCEPT ![r].at = at, ![r].head = h]
      BY <2>4, <3>1
    <3>3. req' \in [Request -> RequestType] /\ Others(r) /\ req'[r].at = at
      BY <3>2, LoadStep
    <3> QED BY <3>1, <3>3
  <2> QED BY <1>5, <2>1, <2>2, <2>3, <2>4
<1> QED BY <1>1, <1>2, <1>3, <1>4, <1>6, MoveType DEF TypeOK

LEMMA InviteType ==
  ASSUME SharingAssumption, TypeOK, NEW r \in Request, NEW t \in Token, NEW i \in Invitation,
         Invite(r, t, i)
  PROVE  TypeOK'
<1>1. req' \in [Request -> RequestType] /\ Others(r) /\ req'[r].at = "idle" /\ ~At(r, "swap")
  BY FinishStep, FreeType DEF Invite, At
<1>2. LockSound'
  BY <1>1, LockStays DEF Invite
<1>3. invite' \in [Token -> Invitation \cup {None}] /\ invite'[t] # None
      /\ \A u \in Token : u # t => invite'[u] = invite[u]
  BY DEF Invite, TypeOK, SharingAssumption
<1>4. inMemory' \cup stored' \cup handed' \subseteq {u \in Token : invite'[u] # None}
  BY <1>3 DEF Invite, TypeOK
<1>5. budget' \in [commits : Nat, accepts : Nat, failures : Nat]
  BY FailType DEF Invite, TypeOK
<1> QED BY <1>1, <1>2, <1>3, <1>4, <1>5 DEF Invite, TypeOK, RequestType, LockSound

\* The cache after Accept entered the role.
LEMMA EnteredRole ==
  ASSUME TypeOK, RequestsSound, NEW r \in Request, GrantLoad(r)
  PROVE  /\ cache' \in Cached /\ req[r].who \in Account /\ req[r].kind = "accept"
         /\ cache'.exists = cache.exists /\ cache'.seq = cache.seq /\ cache'.rev = cache.rev
         /\ cache'.acl = [cache.acl EXCEPT ![req[r].who] = Offered(r)]
<1>1. At(r, "grant") /\ cache' = [cache EXCEPT !.acl[req[r].who] = Offered(r)]
  BY DEF GrantLoad
<1>2. req[r].kind = "accept" /\ req[r].who \in Account
  BY <1>1 DEF RequestsSound, At
<1>3. Offered(r) \in Role
  BY <1>2, Offer DEF Role
<1>4. cache \in [exists : BOOLEAN, acl : AccessList, seq : Nat, rev : Nat]
  BY TypeFacts DEF Cached
<1>5. [cache.acl EXCEPT ![req[r].who] = Offered(r)] \in AccessList
  BY <1>2, <1>3, <1>4 DEF AccessList
<1>6. cache' = [cache EXCEPT !.acl = [cache.acl EXCEPT ![req[r].who] = Offered(r)]]
  BY <1>1
<1> DEFINE acl == [cache.acl EXCEPT ![req[r].who] = Offered(r)]
<1> HIDE DEF acl
<1>7. cache' = [cache EXCEPT !.acl = acl] /\ acl \in AccessList
  BY <1>5, <1>6 DEF acl
<1>8. /\ cache' \in [exists : BOOLEAN, acl : AccessList, seq : Nat, rev : Nat]
      /\ cache'.exists = cache.exists /\ cache'.seq = cache.seq /\ cache'.rev = cache.rev
      /\ cache'.acl = acl
  BY <1>4, <1>7
<1> QED BY <1>2, <1>8 DEF acl, Cached

\* The head after Accept wrote it back.
LEMMA SwappedHead ==
  ASSUME TypeOK, CopiesSound, NEW r \in Request, SwapHead(r)
  PROVE  /\ head' \in HeadDoc /\ head'.rev = head.rev + 1 /\ head'.seq = head.seq
         /\ head'.acl = cache.acl
<1>1. req[r].head = head
  BY DEF SwapHead, CopiesSound
<1>2. head' = [head EXCEPT !.acl = cache.acl, !.rev = head.rev + 1]
  BY <1>1 DEF SwapHead
<1>3. head \in HeadDoc /\ cache.acl \in AccessList
  BY TypeFacts DEF Cached
<1>4. head.rev + 1 \in Nat
  BY <1>3 DEF HeadDoc
<1> QED BY <1>2, <1>3, <1>4 DEF HeadDoc

LEMMA LockReleased ==
  ASSUME SharingAssumption, TypeOK, NEW r \in Request, At(r, "swap"),
         Others(r), mu' = None, req'[r] = Free
  PROVE  LockSound'
<1> SUFFICES ASSUME NEW q \in Request PROVE mu' # q /\ req'[q].at # "swap"
  BY DEF LockSound, At
<1>1. mu = r
  BY DEF TypeOK
<1>2. q # r => req[q].at # "swap"
  BY <1>1 DEF TypeOK, At
<1> QED BY <1>2, FreeType DEF Others, SharingAssumption

LEMMA AcceptType ==
  ASSUME SharingAssumption, TypeOK, RequestsSound, CopiesSound,
         NEW r \in Request, Accept(r)
  PROVE  TypeOK'
<1>1. CASE GrantUnknown(r) \/ GrantHeld(r)
  <2>1. req' \in [Request -> RequestType] /\ Others(r) /\ req'[r] = Free /\ ~At(r, "swap")
    BY <1>1, FinishStep DEF GrantUnknown, GrantHeld, At
  <2>2. told' \in AccessList
    <3>1. CASE GrantUnknown(r)
      BY <3>1 DEF GrantUnknown, TypeOK
    <3>2. CASE GrantHeld(r)
      <4>1. req[r].kind = "accept"
        BY <3>2 DEF GrantHeld, RequestsSound
      <4> QED BY <3>2, <4>1, Offer DEF GrantHeld, Answered, TypeOK, AccessList, Role
    <3> QED BY <1>1, <3>1, <3>2
  <2> QED BY <1>1, <2>1, <2>2, FreeType, MoveType DEF GrantUnknown, GrantHeld, TypeOK
<1>2. CASE GrantLoad(r)
  <2>1. cache' \in Cached
    BY <1>2, EnteredRole
  <2>2. CASE Fail /\ Finish(r) /\ UNCHANGED mu
    <3>1. req' \in [Request -> RequestType] /\ Others(r) /\ req'[r] = Free /\ ~At(r, "swap")
      BY <1>2, <2>2, FinishStep DEF GrantLoad, At
    <3> QED BY <1>2, <2>1, <2>2, <3>1, FreeType, FailType, MoveType DEF GrantLoad, TypeOK
  <2>3. CASE /\ mu' = r
             /\ req' = [req EXCEPT ![r].at = "swap", ![r].head = head]
             /\ UNCHANGED budget
    <3>1. PICK at \in Phase, h \in HeadDoc : at = "swap" /\ h = head
      BY TypeFacts DEF Phase
    <3>2. req' = [req EXCEPT ![r].at = at, ![r].head = h]
      BY <2>3, <3>1
    <3>3. req' \in [Request -> RequestType] /\ Others(r) /\ req'[r].at = at
      BY <3>2, LoadStep
    <3>4. LockSound'
      <4> SUFFICES ASSUME NEW q \in Request PROVE (mu' = q) <=> (req'[q].at = "swap")
        BY DEF LockSound, At
      <4>1. mu # q
        BY <1>2 DEF GrantLoad, Unlocked, SharingAssumption
      <4>2. req[q].at # "swap"
        BY <4>1 DEF TypeOK, At
      <4> QED BY <2>3, <3>1, <3>3, <4>2 DEF Others
    <3> QED BY <1>2, <2>1, <2>3, <3>3, <3>4, TokensStay
            DEF GrantLoad, TypeOK, RequestType, LockSound
  <2> QED BY <1>2, <2>2, <2>3 DEF GrantLoad
<1>3. CASE GrantStore(r) \/ GrantConflict(r)
  <2>1. At(r, "swap") /\ mu' = None /\ Finish(r)
    BY <1>3 DEF GrantStore, GrantConflict
  <2>2. req' \in [Request -> RequestType] /\ LockSound'
    BY <2>1, FinishStep, LockReleased
  <2>3. head' \in HeadDoc
    BY <1>3, SwappedHead DEF GrantStore, GrantConflict, TypeOK
  <2>4. budget' \in [commits : Nat, accepts : Nat, failures : Nat]
    BY <1>3, FailType DEF GrantStore, GrantConflict, TypeOK
  <2>5. told' \in AccessList
    <3>1. req[r].kind = "accept"
      BY <2>1 DEF RequestsSound
    <3> QED BY <1>3, <3>1, Offer DEF GrantStore, GrantConflict, Answered, TypeOK, AccessList, Role
  <2>6. /\ invite' \in [Token -> Invitation \cup {None}]
        /\ inMemory' \cup stored' \cup handed' \subseteq {t \in Token : invite'[t] # None}
    BY <1>3 DEF GrantStore, GrantConflict, inviteVars, TypeOK
  <2>7. given' \in [Account -> Nat]
    <3>1. head'.rev \in Nat
      BY <2>3 DEF HeadDoc
    <3> QED BY <1>3, <3>1 DEF GrantStore, GrantConflict, TypeOK
  <2> QED BY <1>3, <2>1, <2>2, <2>3, <2>4, <2>5, <2>6, <2>7
          DEF GrantStore, GrantConflict, TypeOK, RequestType, LockSound
<1> QED BY <1>1, <1>2, <1>3 DEF Accept

LEMMA WorldType ==
  ASSUME SharingAssumption, TypeOK, Commit \/ Crash \/ UNCHANGED vars
  PROVE  TypeOK'
<1>1. CASE Commit
  <2>1. head' \in HeadDoc
    <3>1. /\ head \in HeadDoc
          /\ head' = [head EXCEPT !.rev = head.rev + 1, !.seq = head.seq + 1]
      BY <1>1, TypeFacts DEF Commit
    <3>2. head.rev + 1 \in Nat /\ head.seq + 1 \in Nat
      BY <3>1 DEF HeadDoc
    <3> QED BY <3>1, <3>2 DEF HeadDoc
  <2> QED BY <1>1, <2>1, TokensStay DEF Commit, TypeOK, At
<1>2. CASE Crash
  <2>1. req' \in [Request -> RequestType] /\ \A q \in Request : req'[q].at = "idle"
    BY <1>2, FreeType DEF Crash
  <2>2. \A q \in Request : (mu' = q) <=> (req'[q].at = "swap")
    BY <1>2, <2>1 DEF Crash, SharingAssumption
  <2>3. inMemory' \cup stored' \cup handed' \subseteq {t \in Token : invite'[t] # None}
    BY <1>2 DEF Crash, TypeOK
  <2> QED BY <1>2, <2>1, <2>2, <2>3, FreeType, FailType DEF Crash, TypeOK, At, RequestType
<1>3. CASE UNCHANGED vars
  BY <1>3 DEF vars, inviteVars, TypeOK, At
<1> QED BY <1>1, <1>2, <1>3

LEMMA TypeStep ==
  ASSUME SharingAssumption, TypeOK, RequestsSound, CopiesSound, [Next]_vars
  PROVE  TypeOK'
BY StartType, HydrateType, AcceptType, InviteType, WorldType DEF Next

-----------------------------------------------------------------------------
(***************************************************************************)
(* Steps that move a request and leave the head and the cache alone.       *)
(***************************************************************************)
\* The parts of the invariant that are about one request.
RequestSound(r) ==
  /\ req[r].at # "idle" => req[r].who \in Account
  /\ req[r].at \in {"grant", "swap"} => req[r].kind = "accept"
  /\ req[r].kind = "accept" =>
       req[r].token \in handed /\ invite[req[r].token].account = req[r].who

FloorSound(r) ==
  req[r].at # "idle" =>
    /\ req[r].floor <= req[r].start /\ req[r].start <= head.seq
    /\ req[r].at \in {"compare", "install"} => req[r].head.seq >= req[r].start
    /\ req[r].at = "read" /\ cache.exists => cache.seq >= req[r].floor

\* What r may find cannot be older than where q started.
FloorBelow(r, q) ==
  req[r].at # "idle" /\ req[q].at # "idle" => req[r].floor <= req[q].start

LEMMA PartsSound ==
  /\ RequestsSound <=> \A r \in Request : RequestSound(r)
  /\ FloorsSound <=> /\ \A r \in Request : FloorSound(r)
                     /\ \A r, q \in Request : FloorBelow(r, q)
<1>1. RequestsSound <=> \A r \in Request : RequestSound(r)
  BY DEF RequestsSound, RequestSound, At
<1>2. FloorsSound <=> /\ \A r \in Request : FloorSound(r)
                      /\ \A r, q \in Request : FloorBelow(r, q)
  BY DEF FloorsSound, FloorSound, FloorBelow, At
<1> QED BY <1>1, <1>2

LEMMA OfferedStays ==
  ASSUME NEW acl, OfferedOnly(acl), handed \subseteq handed',
         \A t \in handed : invite'[t] = invite[t]
  PROVE  OfferedOnly(acl)'
BY DEF OfferedOnly

LEMMA FreeSound ==
  ASSUME SharingAssumption, TypeOK, CopiesSound
  PROVE  /\ Free.head.rev < head.rev /\ OfferedOnly(Free.head.acl)
         /\ OfferedOnly(NoAccess)
<1>1. head.rev \in Nat
  BY TypeFacts DEF HeadDoc
<1>2. OfferedOnly(NoAccess)
  BY DEF OfferedOnly, NoAccess
<1> QED BY <1>1, <1>2, FreeType DEF CopiesSound

LEMMA MoveSound ==
  ASSUME SharingAssumption, SharingInvariant, NEW r \in Request,
         req' \in [Request -> RequestType], Others(r),
         UNCHANGED <<head, cache, invite, handed>>,
         req'[r].head \in {Free.head, req[r].head, head},
         RequestSound(r)', FloorSound(r)', FloorBelow(r, r)',
         \A q \in Request : q # r => FloorBelow(r, q)' /\ FloorBelow(q, r)'
  PROVE  /\ RequestsSound' /\ CopiesSound' /\ ListsSound' /\ CurrentMeansEqual'
         /\ ContentSound' /\ FloorsSound'
<1> USE DEF SharingInvariant
<1>1. RequestsSound'
  <2> SUFFICES ASSUME NEW q \in Request PROVE RequestSound(q)'
    BY DEF RequestsSound, RequestSound, At
  <2>1. CASE q # r
    BY <2>1, PartsSound DEF Others, RequestSound
  <2> QED BY <2>1
<1>2. CopiesSound'
  <2> SUFFICES ASSUME NEW q \in Request
               PROVE  /\ req'[q].head.rev <= head.rev
                      /\ req'[q].head.rev = head.rev => req'[q].head = head
    BY DEF CopiesSound
  <2>1. req'[q].head \in {Free.head, req[q].head, head}
    BY DEF Others
  <2>2. head.rev \in Nat /\ Free.head.rev < head.rev
    BY FreeSound, TypeFacts DEF HeadDoc
  <2>3. Free.head.rev = 0
    BY FreeType
  <2> QED BY <2>1, <2>2, <2>3 DEF CopiesSound
<1>3. OfferedOnly(head.acl)' /\ OfferedOnly(cache.acl)'
  BY DEF ListsSound, OfferedOnly
<1>4. \A q \in Request : OfferedOnly(req[q].head.acl)'
  <2> SUFFICES ASSUME NEW q \in Request PROVE OfferedOnly(req[q].head.acl)'
    OBVIOUS
  <2>1. req'[q].head \in {Free.head, req[q].head, head}
    BY DEF Others
  <2>2. /\ OfferedOnly(Free.head.acl) /\ OfferedOnly(req[q].head.acl)
        /\ OfferedOnly(head.acl)
    BY FreeSound DEF ListsSound
  <2> QED BY <2>1, <2>2 DEF OfferedOnly
<1>5. CurrentMeansEqual'
  BY DEF CurrentMeansEqual
<1>6. ContentSound'
  <2>1. Copies' \subseteq Copies
    BY DEF Copies, Others
  <2> QED BY <2>1 DEF ContentSound
<1>7. FloorsSound'
  <2>1. \A q \in Request : FloorSound(q)'
    <3> SUFFICES ASSUME NEW q \in Request PROVE FloorSound(q)'
      OBVIOUS
    <3>1. CASE q # r
      BY <3>1, PartsSound DEF Others, FloorSound
    <3> QED BY <3>1
  <2>2. \A p, q \in Request : FloorBelow(p, q)'
    <3> SUFFICES ASSUME NEW p \in Request, NEW q \in Request PROVE FloorBelow(p, q)'
      OBVIOUS
    <3>1. CASE p # r /\ q # r
      BY <3>1, PartsSound DEF Others, FloorBelow
    <3> QED BY <3>1
  <2> QED BY <2>1, <2>2 DEF FloorsSound, FloorSound, FloorBelow, At
<1> QED BY <1>1, <1>2, <1>3, <1>4, <1>5, <1>6, <1>7 DEF ListsSound

RestSound ==
  RequestsSound /\ CopiesSound /\ ListsSound /\ CurrentMeansEqual /\ ContentSound /\ FloorsSound

\* A request that is answered leaves nothing behind.
LEMMA FinishSound ==
  ASSUME SharingAssumption, SharingInvariant, NEW r \in Request, Finish(r),
         UNCHANGED <<head, cache, invite, handed>>
  PROVE  RestSound'
<1>1. /\ req' \in [Request -> RequestType] /\ Others(r)
      /\ req'[r].at = "idle" /\ req'[r].kind = "none" /\ req'[r].head = Free.head
  BY FinishStep, FreeType DEF SharingInvariant
<1>2. RequestSound(r)' /\ FloorSound(r)'
  BY <1>1 DEF RequestSound, FloorSound
<1>3. \A q \in Request : FloorBelow(r, q)' /\ FloorBelow(q, r)'
  BY <1>1 DEF FloorBelow
<1> QED BY <1>1, <1>2, <1>3, MoveSound DEF RestSound

LEMMA StartSound ==
  ASSUME SharingAssumption, SharingInvariant, NEW r \in Request, Start(r)
  PROVE  RestSound'
<1>1. PICK kind \in {"get", "invite", "accept"}, who \in Account, t \in Token \cup {None} :
        /\ Begin(r, kind, "load", who, t)
        /\ kind = "accept" => t \in handed /\ invite[t].account = who
  BY DEF Start, Get, Lookup
<1>2. UNCHANGED <<head, cache, invite, handed>>
  BY DEF Start, Get, Lookup, inviteVars
<1>3. /\ req' \in [Request -> RequestType] /\ Others(r)
      /\ At(r, "idle") /\ req'[r].at = "load" /\ req'[r].kind = kind
      /\ req'[r].who = who /\ req'[r].token = t /\ req'[r].head = Free.head
      /\ req'[r].start = head.seq /\ req'[r].floor <= head.seq
      /\ \A q \in Request : ~At(q, "idle") => req'[r].floor <= req[q].start
  BY <1>1, BeginStep DEF SharingInvariant
<1>4. RequestSound(r)'
  BY <1>1, <1>2, <1>3 DEF RequestSound
<1>5. FloorSound(r)' /\ FloorBelow(r, r)'
  <2>1. head.seq \in Nat
    BY TypeFacts DEF SharingInvariant, HeadDoc
  <2> QED BY <1>2, <1>3, <2>1 DEF FloorSound, FloorBelow
<1>6. ASSUME NEW q \in Request, q # r PROVE FloorBelow(r, q)' /\ FloorBelow(q, r)'
  <2>1. req'[q] = req[q]
    BY <1>3, <1>6 DEF Others
  <2>2. FloorBelow(r, q)'
    BY <1>3, <2>1 DEF FloorBelow, At
  <2>3. req[q].at # "idle" => req[q].floor <= req[q].start /\ req[q].start <= head.seq
    BY PartsSound DEF SharingInvariant, FloorSound
  <2>4. req[q].floor \in Nat /\ req[q].start \in Nat /\ head.seq \in Nat
    BY TypeFacts DEF SharingInvariant, HeadDoc, RequestType
  <2>5. FloorBelow(q, r)'
    BY <1>3, <2>1, <2>3, <2>4 DEF FloorBelow
  <2> QED BY <2>2, <2>5
<1> QED BY <1>2, <1>3, <1>4, <1>5, <1>6, MoveSound DEF RestSound

\* A request that goes on keeps what it may find; only a load or a comparison
\* says more.
LEMMA GoesOnSound ==
  ASSUME SharingAssumption, SharingInvariant, NEW r \in Request,
         req' \in [Request -> RequestType], Others(r), Keeps(r),
         UNCHANGED <<head, cache, invite, handed>>,
         req'[r].head \in {Free.head, req[r].head, head},
         ~At(r, "idle"),
         req'[r].at \in {"grant", "swap"} => req[r].kind = "accept",
         req'[r].at \in {"compare", "install"} => req'[r].head.seq >= req[r].start,
         req'[r].at = "read" /\ cache.exists => cache.seq >= req[r].floor
  PROVE  RestSound'
<1>1. RequestSound(r)'
  BY PartsSound DEF SharingInvariant, RequestSound, Keeps, At
<1>2. FloorSound(r)'
  BY PartsSound DEF SharingInvariant, FloorSound, Keeps, At
<1>3. FloorBelow(r, r)'
  BY PartsSound DEF SharingInvariant, FloorBelow, Keeps, At
<1>4. \A q \in Request : q # r => FloorBelow(r, q)' /\ FloorBelow(q, r)'
  BY PartsSound DEF SharingInvariant, FloorBelow, Keeps, At, Others
<1> QED BY <1>1, <1>2, <1>3, <1>4, MoveSound DEF RestSound

LEMMA LoadSound ==
  ASSUME SharingAssumption, SharingInvariant, NEW r \in Request, HydrateLoad(r)
  PROVE  RestSound'
<1>1. PICK at \in Phase, h \in HeadDoc : at = "compare" /\ h = head
  BY TypeFacts DEF SharingInvariant, Phase
<1>2. req' = [req EXCEPT ![r].at = at, ![r].head = h]
  BY <1>1 DEF HydrateLoad
<1>3. /\ req' \in [Request -> RequestType] /\ Others(r) /\ Keeps(r)
      /\ req'[r].at = at /\ req'[r].head = h
  BY <1>2, LoadStep DEF SharingInvariant
<1>4. ~At(r, "idle") /\ UNCHANGED <<head, cache, invite, handed>>
  BY DEF HydrateLoad, At, inviteVars
<1>5. head.seq >= req[r].start
  <2>1. req[r].start <= head.seq
    BY <1>4, PartsSound DEF SharingInvariant, FloorSound, At
  <2>2. head.seq \in Nat /\ req[r].start \in Nat
    BY TypeFacts DEF SharingInvariant, HeadDoc, RequestType
  <2> QED BY <2>1, <2>2
<1> QED BY <1>1, <1>3, <1>4, <1>5, GoesOnSound

\* The cache has the revision that the request loaded, so it has its content.
LEMMA CompareSound ==
  ASSUME SharingAssumption, SharingInvariant, NEW r \in Request, HydrateCompare(r)
  PROVE  RestSound'
<1> DEFINE h == req[r].head
<1>1. At(r, "compare") /\ UNCHANGED <<head, cache, invite, handed>>
  BY DEF HydrateCompare, inviteVars
<1>2. /\ h.seq >= req[r].start /\ req[r].start >= req[r].floor
      /\ h.seq \in Nat /\ req[r].start \in Nat /\ req[r].floor \in Nat
  <2>1. h.seq >= req[r].start /\ req[r].floor <= req[r].start
    BY <1>1, PartsSound DEF SharingInvariant, FloorSound, At
  <2>2. h.seq \in Nat /\ req[r].start \in Nat /\ req[r].floor \in Nat
    BY TypeFacts DEF SharingInvariant, HeadDoc, RequestType
  <2> QED BY <2>1, <2>2
<1>3. CASE IsCurrent(h) /\ Leave(r, Hydrated(r))
  <2>1. Hydrated(r) \in Phase /\ Hydrated(r) \in {"grant", "read"}
        /\ (Hydrated(r) = "grant" => req[r].kind = "accept")
    BY DEF Hydrated, Phase
  <2>2. /\ req' \in [Request -> RequestType] /\ Others(r) /\ Keeps(r)
        /\ req'[r].at = Hydrated(r) /\ req'[r].head = Free.head
    BY <1>3, <2>1, LeaveStep DEF SharingInvariant
  <2>3. cache.seq = h.seq
    <3>1. cache \in Copies /\ h \in Copies
      BY DEF Copies
    <3> QED BY <1>3, <3>1 DEF SharingInvariant, ContentSound, IsCurrent
  <2>4. cache.seq >= req[r].floor
    BY <1>2, <2>3
  <2> QED BY <1>1, <2>1, <2>2, <2>4, GoesOnSound DEF At
<1>4. CASE Go(r, "install")
  <2>1. /\ req' \in [Request -> RequestType] /\ Others(r) /\ Keeps(r)
        /\ req'[r].at = "install" /\ req'[r].head = h
    BY <1>4, GoStep DEF SharingInvariant, Phase
  <2> QED BY <1>1, <1>2, <2>1, GoesOnSound DEF At
<1>5. CASE req[r].kind = "accept" /\ Leave(r, "grant")
  <2>1. /\ req' \in [Request -> RequestType] /\ Others(r) /\ Keeps(r)
        /\ req'[r].at = "grant" /\ req'[r].head = Free.head
    BY <1>5, LeaveStep DEF SharingInvariant, Phase
  <2> QED BY <1>1, <1>5, <2>1, GoesOnSound DEF At
<1>6. CASE Finish(r)
  BY <1>1, <1>6, FinishSound
<1> QED BY <1>3, <1>4, <1>5, <1>6 DEF HydrateCompare

LEMMA ReadSound ==
  ASSUME SharingAssumption, SharingInvariant, NEW r \in Request, Read(r)
  PROVE  RestSound'
<1>1. At(r, "read") /\ UNCHANGED <<head, cache, invite, handed>>
  BY DEF Read, inviteVars
<1>2. CASE Go(r, "invite")
  <2>1. /\ req' \in [Request -> RequestType] /\ Others(r) /\ Keeps(r)
        /\ req'[r].at = "invite" /\ req'[r].head = req[r].head
    BY <1>2, GoStep DEF SharingInvariant, Phase
  <2> QED BY <1>1, <2>1, GoesOnSound DEF At
<1>3. CASE Finish(r)
  BY <1>1, <1>3, FinishSound
<1> QED BY <1>2, <1>3 DEF Read

-----------------------------------------------------------------------------
(***************************************************************************)
(* Steps that write the cache or the invitations.                          *)
(***************************************************************************)
\* An entry that is overwritten with what any request loaded before is at least
\* as new as the start of that request.
LEMMA InstallSound ==
  ASSUME SharingAssumption, SharingInvariant, NEW r \in Request, HydrateInstall(r)
  PROVE  RestSound'
<1> USE DEF SharingInvariant
<1> DEFINE h == req[r].head
<1>1. /\ At(r, "install") /\ UNCHANGED <<head, invite, handed>>
      /\ cache' = Installed(h)
  BY DEF HydrateInstall, inviteVars
<1>2. Hydrated(r) \in Phase /\ Hydrated(r) \in {"grant", "read"}
      /\ (Hydrated(r) = "grant" => req[r].kind = "accept")
  BY DEF Hydrated, Phase
<1>3. /\ req' \in [Request -> RequestType] /\ Others(r) /\ Keeps(r)
      /\ req'[r].at = Hydrated(r) /\ req'[r].head = Free.head
  BY <1>2, LeaveStep DEF HydrateInstall
<1>4. cache'.exists /\ cache'.acl = h.acl /\ cache'.seq = h.seq /\ cache'.rev = h.rev
  BY <1>1 DEF Installed
<1>5. RequestsSound'
  <2> SUFFICES ASSUME NEW q \in Request PROVE RequestSound(q)'
    BY DEF RequestsSound, RequestSound, At
  <2>1. CASE q # r
    BY <1>1, <1>3, <2>1, PartsSound DEF Others, RequestSound
  <2>2. CASE q = r
    BY <1>1, <1>2, <1>3, <2>2, PartsSound DEF Keeps, RequestSound, At
  <2> QED BY <2>1, <2>2
<1>6. CopiesSound'
  <2> SUFFICES ASSUME NEW q \in Request
               PROVE  /\ req'[q].head.rev <= head.rev
                      /\ req'[q].head.rev = head.rev => req'[q].head = head
    BY <1>1, <1>4 DEF CopiesSound
  <2>1. req'[q].head \in {Free.head, req[q].head}
    BY <1>3 DEF Others
  <2>2. head.rev \in Nat /\ Free.head.rev < head.rev /\ Free.head.rev = 0
    BY FreeSound, FreeType, TypeFacts DEF HeadDoc
  <2> QED BY <2>1, <2>2 DEF CopiesSound
<1>7. ListsSound'
  <2>1. OfferedOnly(head.acl) /\ OfferedOnly(h.acl) /\ OfferedOnly(Free.head.acl)
    BY FreeSound DEF ListsSound
  <2>2. \A q \in Request : req'[q].head \in {Free.head, req[q].head}
    BY <1>3 DEF Others
  <2>3. \A q \in Request : OfferedOnly(req[q].head.acl)
    BY DEF ListsSound
  <2>4. \A q \in Request : OfferedOnly(req[q].head.acl)'
    BY <1>1, <2>1, <2>2, <2>3 DEF OfferedOnly
  <2>5. OfferedOnly(head.acl)' /\ OfferedOnly(cache.acl)'
    BY <1>1, <1>4, <2>1 DEF OfferedOnly
  <2> QED BY <2>4, <2>5 DEF ListsSound
<1>8. CurrentMeansEqual'
  BY <1>1, <1>4 DEF CurrentMeansEqual, CopiesSound
<1>9. ContentSound'
  <2>1. \A x \in Copies' : \E y \in Copies : x.rev = y.rev /\ x.seq = y.seq
    <3> SUFFICES ASSUME NEW x \in Copies'
                 PROVE  \E y \in Copies : x.rev = y.rev /\ x.seq = y.seq
      OBVIOUS
    <3>1. CASE x = cache'
      BY <1>4, <3>1 DEF Copies
    <3>2. CASE x # cache'
      BY <1>1, <1>3, <3>2 DEF Copies, Others
    <3> QED BY <3>1, <3>2
  <2> QED BY <2>1 DEF ContentSound
<1>10. \A q \in Request : req[q].at # "idle" => h.seq >= req[q].floor
  <2> SUFFICES ASSUME NEW q \in Request, req[q].at # "idle" PROVE h.seq >= req[q].floor
    OBVIOUS
  <2>1. h.seq >= req[r].start
    BY <1>1, PartsSound DEF FloorSound, At
  <2>2. req[q].floor <= req[r].start
    BY <1>1, PartsSound DEF FloorBelow, At
  <2>3. h.seq \in Nat /\ req[r].start \in Nat /\ req[q].floor \in Nat
    BY TypeFacts DEF HeadDoc, RequestType
  <2> QED BY <2>1, <2>2, <2>3
<1>11. FloorsSound'
  <2>1. \A q \in Request : FloorSound(q)'
    <3> SUFFICES ASSUME NEW q \in Request PROVE FloorSound(q)'
      OBVIOUS
    <3>1. CASE q # r
      BY <1>1, <1>3, <1>4, <1>10, <3>1, PartsSound DEF Others, FloorSound
    <3>2. CASE q = r
      BY <1>1, <1>2, <1>3, <1>4, <1>10, <3>2, PartsSound DEF Keeps, FloorSound, At
    <3> QED BY <3>1, <3>2
  <2>2. \A p, q \in Request : FloorBelow(p, q)'
    <3> SUFFICES ASSUME NEW p \in Request, NEW q \in Request PROVE FloorBelow(p, q)'
      OBVIOUS
    <3>1. \A u \in Request : /\ req'[u].at # "idle" => req[u].at # "idle"
                             /\ req'[u].floor = req[u].floor /\ req'[u].start = req[u].start
      BY <1>1, <1>3 DEF Others, Keeps, At
    <3> QED BY <3>1, PartsSound DEF FloorBelow
  <2> QED BY <2>1, <2>2 DEF FloorsSound, FloorSound, FloorBelow, At
<1> QED BY <1>5, <1>6, <1>7, <1>8, <1>9, <1>11 DEF RestSound

LEMMA InviteSound ==
  ASSUME SharingAssumption, SharingInvariant, NEW r \in Request,
         NEW t \in Token, NEW i \in Invitation, Invite(r, t, i)
  PROVE  RestSound'
<1> USE DEF SharingInvariant
<1>1. UNCHANGED <<head, cache>> /\ Finish(r) /\ handed \subseteq handed'
  BY DEF Invite
<1>2. \A u \in handed : invite'[u] = invite[u]
  BY DEF Invite, Fresh, TypeOK
<1>3. /\ req' \in [Request -> RequestType] /\ Others(r)
      /\ req'[r].at = "idle" /\ req'[r].kind = "none" /\ req'[r].head = Free.head
  BY <1>1, FinishStep, FreeType
<1>4. RequestsSound'
  <2> SUFFICES ASSUME NEW q \in Request PROVE RequestSound(q)'
    BY DEF RequestsSound, RequestSound, At
  <2>1. CASE q # r
    BY <1>1, <1>2, <1>3, <2>1, PartsSound DEF Others, RequestSound
  <2>2. CASE q = r
    BY <1>3, <2>2 DEF RequestSound
  <2> QED BY <2>1, <2>2
<1>5. \A q \in Request : req'[q].head \in {Free.head, req[q].head}
  BY <1>3 DEF Others
<1>6. CopiesSound'
  <2>1. head.rev \in Nat /\ Free.head.rev < head.rev /\ Free.head.rev = 0
    BY FreeSound, FreeType, TypeFacts DEF HeadDoc
  <2>2. ASSUME NEW q \in Request
        PROVE  /\ req'[q].head.rev <= head.rev
               /\ req'[q].head.rev = head.rev => req'[q].head = head
    BY <1>5, <2>1 DEF CopiesSound
  <2> QED BY <1>1, <2>2 DEF CopiesSound
<1>7. ListsSound'
  <2>1. /\ OfferedOnly(head.acl) /\ OfferedOnly(cache.acl) /\ OfferedOnly(Free.head.acl)
        /\ \A q \in Request : OfferedOnly(req[q].head.acl)
    BY FreeSound DEF ListsSound
  <2>2. \A acl : OfferedOnly(acl) =>
          \A a \in Account :
            \/ acl[a] = NoRole
            \/ a = Owner /\ acl[a] = "owner"
            \/ \E u \in handed' : invite'[u] = [account |-> a, role |-> acl[a]]
    BY <1>1, <1>2 DEF OfferedOnly
  <2>3. OfferedOnly(head.acl)' /\ OfferedOnly(cache.acl)'
    BY <1>1, <2>1, <2>2 DEF OfferedOnly
  <2>4. ASSUME NEW q \in Request PROVE OfferedOnly(req[q].head.acl)'
    BY <1>5, <2>1, <2>2, SMTT(20) DEF OfferedOnly
  <2> QED BY <2>3, <2>4 DEF ListsSound
<1>8. CurrentMeansEqual'
  BY <1>1, <1>2 DEF CurrentMeansEqual
<1>9. ContentSound'
  <2>1. Copies' \subseteq Copies
    BY <1>1, <1>5 DEF Copies
  <2> QED BY <2>1 DEF ContentSound
<1>10. FloorsSound'
  <2>1. \A q \in Request : FloorSound(q)'
    BY <1>1, <1>3, PartsSound DEF Others, FloorSound
  <2>2. \A p, q \in Request : FloorBelow(p, q)'
    BY <1>3, PartsSound DEF Others, FloorBelow
  <2> QED BY <2>1, <2>2 DEF FloorsSound, FloorSound, FloorBelow, At
<1> QED BY <1>4, <1>6, <1>7, <1>8, <1>9, <1>10 DEF RestSound

\* Accept enters the role that was offered, and loads the head under the lock.
LEMMA GrantLoadSound ==
  ASSUME SharingAssumption, SharingInvariant, NEW r \in Request, GrantLoad(r)
  PROVE  RestSound'
<1> USE DEF SharingInvariant
<1>1. /\ At(r, "grant") /\ UNCHANGED <<head, invite, handed>>
      /\ cache'.exists = cache.exists /\ cache'.seq = cache.seq /\ cache'.rev = cache.rev
      /\ cache'.acl = [cache.acl EXCEPT ![req[r].who] = Offered(r)]
      /\ req[r].who \in Account /\ req[r].kind = "accept"
  BY EnteredRole DEF GrantLoad, inviteVars
<1>2. /\ req[r].token \in handed
      /\ invite[req[r].token] = [account |-> req[r].who, role |-> Offered(r)]
  BY <1>1, Offer
<1>3. /\ req' \in [Request -> RequestType] /\ Others(r) /\ req'[r].head \in {Free.head, head}
      /\ \/ Keeps(r) /\ req'[r].at = "swap"
         \/ req'[r] = Free
  <2>1. CASE Finish(r)
    BY <2>1, FinishStep
  <2>2. CASE req' = [req EXCEPT ![r].at = "swap", ![r].head = head]
    <3>1. PICK at \in Phase, h \in HeadDoc : at = "swap" /\ h = head
      BY TypeFacts DEF Phase
    <3>2. req' = [req EXCEPT ![r].at = at, ![r].head = h]
      BY <2>2, <3>1
    <3> QED BY <3>1, <3>2, LoadStep
  <2> QED BY <2>1, <2>2 DEF GrantLoad
<1>4. \A a \in Account : cache'.acl[a] = IF a = req[r].who THEN Offered(r) ELSE cache.acl[a]
  BY <1>1, TypeFacts DEF Cached, AccessList
<1>5. RequestsSound'
  <2> SUFFICES ASSUME NEW q \in Request PROVE RequestSound(q)'
    BY DEF RequestsSound, RequestSound, At
  <2>1. CASE q # r
    BY <1>1, <1>3, <2>1, PartsSound DEF Others, RequestSound
  <2>2. CASE q = r
    BY <1>1, <1>3, <2>2, PartsSound, FreeType DEF Keeps, RequestSound, At
  <2> QED BY <2>1, <2>2
<1>6. \A q \in Request : req'[q].head \in {Free.head, req[q].head, head}
  BY <1>3 DEF Others
<1>7. CopiesSound'
  <2>1. head.rev \in Nat /\ Free.head.rev < head.rev /\ Free.head.rev = 0
    BY FreeSound, FreeType, TypeFacts DEF HeadDoc
  <2>2. ASSUME NEW q \in Request
        PROVE  /\ req'[q].head.rev <= head.rev
               /\ req'[q].head.rev = head.rev => req'[q].head = head
    BY <1>6, <2>1 DEF CopiesSound
  <2> QED BY <1>1, <2>2 DEF CopiesSound
<1>8. ListsSound'
  <2>1. /\ OfferedOnly(head.acl) /\ OfferedOnly(Free.head.acl)
        /\ \A q \in Request : OfferedOnly(req[q].head.acl)
    BY FreeSound DEF ListsSound
  <2>2. OfferedOnly(cache'.acl)
    BY <1>2, <1>4 DEF ListsSound, OfferedOnly
  <2>3. OfferedOnly(head.acl)' /\ OfferedOnly(cache.acl)'
    BY <1>1, <2>1, <2>2 DEF OfferedOnly
  <2>4. ASSUME NEW q \in Request PROVE OfferedOnly(req[q].head.acl)'
    BY <1>1, <1>6, <2>1, SMTT(20) DEF OfferedOnly
  <2> QED BY <2>3, <2>4 DEF ListsSound
<1>9. CurrentMeansEqual'
  BY <1>1, <1>2, <1>4 DEF CurrentMeansEqual
<1>10. ContentSound'
  <2>1. \A x \in Copies' : \E y \in Copies : x.rev = y.rev /\ x.seq = y.seq
    <3> SUFFICES ASSUME NEW x \in Copies'
                 PROVE  \E y \in Copies : x.rev = y.rev /\ x.seq = y.seq
      OBVIOUS
    <3>1. CASE x = cache'
      BY <1>1, <3>1 DEF Copies
    <3>2. CASE x # cache'
      BY <1>1, <1>6, <3>2 DEF Copies
    <3> QED BY <3>1, <3>2
  <2> QED BY <2>1 DEF ContentSound
<1>11. FloorsSound'
  <2>1. \A q \in Request : FloorSound(q)'
    <3> SUFFICES ASSUME NEW q \in Request PROVE FloorSound(q)'
      OBVIOUS
    <3>1. CASE q # r
      BY <1>1, <1>3, <3>1, PartsSound DEF Others, FloorSound
    <3>2. CASE q = r
      BY <1>1, <1>3, <3>2, PartsSound, FreeType DEF Keeps, FloorSound, At
    <3> QED BY <3>1, <3>2
  <2>2. \A p, q \in Request : FloorBelow(p, q)'
    <3> SUFFICES ASSUME NEW p \in Request, NEW q \in Request PROVE FloorBelow(p, q)'
      OBVIOUS
    <3>1. \A u \in Request : req'[u].at # "idle" =>
            /\ req[u].at # "idle"
            /\ req'[u].floor = req[u].floor /\ req'[u].start = req[u].start
      BY <1>1, <1>3, FreeType DEF Others, Keeps, At
    <3> QED BY <3>1, PartsSound DEF FloorBelow
  <2> QED BY <2>1, <2>2 DEF FloorsSound, FloorSound, FloorBelow, At
<1> QED BY <1>5, <1>7, <1>8, <1>9, <1>10, <1>11 DEF RestSound

-----------------------------------------------------------------------------
(***************************************************************************)
(* Steps that write the head: every copy of the head before is now old.    *)
(***************************************************************************)
LEMMA NewHeadSound ==
  ASSUME SharingAssumption, SharingInvariant,
         head' \in HeadDoc, head'.rev = head.rev + 1, head'.seq >= head.seq,
         OfferedOnly(head'.acl), UNCHANGED <<cache, invite, handed>>,
         \A q \in Request : req'[q] = req[q] \/ req'[q] = Free
  PROVE  RestSound'
<1> USE DEF SharingInvariant
<1>1. head.rev \in Nat /\ head'.rev \in Nat /\ head.seq \in Nat /\ head'.seq \in Nat
      /\ cache.rev \in Nat /\ cache.rev < head'.rev /\ Free.head.rev < head'.rev
  BY TypeFacts, FreeSound, FreeType DEF HeadDoc, Cached, CopiesSound
<1>2. ASSUME NEW q \in Request PROVE req'[q].head.rev < head'.rev
  <2>1. req[q].head.rev \in Nat /\ req[q].head.rev <= head.rev
    BY TypeFacts DEF HeadDoc, CopiesSound
  <2> QED BY <1>1, <2>1
<1>3. RequestsSound'
  <2> SUFFICES ASSUME NEW q \in Request PROVE RequestSound(q)'
    BY DEF RequestsSound, RequestSound, At
  <2>1. CASE req'[q] = req[q]
    BY <2>1, PartsSound DEF RequestSound
  <2>2. CASE req'[q] = Free
    BY <2>2, FreeType DEF RequestSound
  <2> QED BY <2>1, <2>2
<1>4. CopiesSound'
  <2>1. head'.rev # 0 /\ cache'.rev <= head'.rev
    BY <1>1, FreeType
  <2>2. ASSUME NEW q \in Request
        PROVE  /\ req'[q].head.rev <= head'.rev
               /\ req'[q].head.rev # head'.rev
    <3>1. req'[q].head.rev \in Nat
      BY FreeType, TypeFacts DEF HeadDoc
    <3> QED BY <1>1, <1>2, <3>1
  <2> QED BY <2>1, <2>2 DEF CopiesSound
<1>5. ListsSound'
  <2>1. OfferedOnly(head.acl)' /\ OfferedOnly(cache.acl)'
    BY DEF ListsSound, OfferedOnly
  <2>2. ASSUME NEW q \in Request PROVE OfferedOnly(req[q].head.acl)'
    <3>1. OfferedOnly(Free.head.acl) /\ OfferedOnly(req[q].head.acl)
      BY FreeSound DEF ListsSound
    <3> QED BY <3>1 DEF OfferedOnly
  <2> QED BY <2>1, <2>2 DEF ListsSound
<1>6. CurrentMeansEqual'
  BY <1>1 DEF CurrentMeansEqual
<1>7. ContentSound'
  <2>1. ASSUME NEW x \in Copies', x # head' PROVE x \in Copies /\ x.rev # head'.rev
    <3>1. CASE x = Free.head
      BY <1>1, <3>1, FreeType DEF Copies
    <3>2. CASE x = cache'
      BY <1>1, <3>2 DEF Copies
    <3>3. CASE \E q \in Request : x = req'[q].head
      <4>1. PICK q \in Request : x = req'[q].head
        BY <3>3
      <4>2. x.rev \in Nat
        BY <4>1, FreeType, TypeFacts DEF HeadDoc
      <4>3. x.rev # head'.rev
        BY <1>1, <1>2, <4>1, <4>2
      <4> QED BY <4>1, <4>3 DEF Copies
    <3> QED BY <2>1, <3>1, <3>2, <3>3 DEF Copies
  <2> QED BY <2>1 DEF ContentSound
<1>8. FloorsSound'
  <2>1. ASSUME NEW q \in Request PROVE FloorSound(q)'
    <3>1. CASE req'[q] = req[q]
      <4>1. req[q].start \in Nat
        BY TypeFacts DEF RequestType
      <4> QED BY <1>1, <3>1, <4>1, PartsSound DEF FloorSound
    <3>2. CASE req'[q] = Free
      BY <3>2, FreeType DEF FloorSound
    <3> QED BY <3>1, <3>2
  <2>2. ASSUME NEW p \in Request, NEW q \in Request PROVE FloorBelow(p, q)'
    BY PartsSound, FreeType DEF FloorBelow
  <2> QED BY <2>1, <2>2 DEF FloorsSound, FloorSound, FloorBelow, At
<1> QED BY <1>3, <1>4, <1>5, <1>6, <1>7, <1>8 DEF RestSound

LEMMA StoreSound ==
  ASSUME SharingAssumption, SharingInvariant, NEW r \in Request, GrantStore(r)
  PROVE  RestSound'
<1>1. /\ head' \in HeadDoc /\ head'.rev = head.rev + 1 /\ head'.seq = head.seq
      /\ head'.acl = cache.acl
  BY SwappedHead DEF GrantStore, SharingInvariant
<1>2. UNCHANGED <<cache, invite, handed>> /\ OfferedOnly(cache.acl)
  BY DEF GrantStore, SharingInvariant, ListsSound
<1>3. \A q \in Request : req'[q] = req[q] \/ req'[q] = Free
  BY FinishStep DEF GrantStore, SharingInvariant, Others
<1>4. head'.seq >= head.seq
  BY <1>1, TypeFacts DEF SharingInvariant, HeadDoc
<1> QED BY <1>1, <1>2, <1>3, <1>4, NewHeadSound

\* The head that a live room writes.
LEMMA CommittedHead ==
  ASSUME TypeOK, Commit
  PROVE  /\ head' \in HeadDoc /\ head'.rev = head.rev + 1 /\ head'.seq >= head.seq
         /\ head'.acl = head.acl
<1>1. /\ head \in HeadDoc
      /\ head' = [head EXCEPT !.rev = head.rev + 1, !.seq = head.seq + 1]
  BY TypeFacts DEF Commit
<1>2. head.rev + 1 \in Nat /\ head.seq + 1 \in Nat /\ head.seq + 1 >= head.seq
  BY <1>1 DEF HeadDoc
<1> QED BY <1>1, <1>2 DEF HeadDoc

LEMMA CommitSound ==
  ASSUME SharingAssumption, SharingInvariant, Commit
  PROVE  RestSound'
<1>1. /\ head' \in HeadDoc /\ head'.rev = head.rev + 1 /\ head'.seq >= head.seq
      /\ head'.acl = head.acl
  BY CommittedHead DEF SharingInvariant
<1>2. UNCHANGED <<cache, invite, handed, req>> /\ OfferedOnly(head.acl)
  BY DEF Commit, inviteVars, SharingInvariant, ListsSound
<1> QED BY <1>1, <1>2, NewHeadSound

\* A restart forgets the cache and the requests.
LEMMA CrashSound ==
  ASSUME SharingAssumption, SharingInvariant, Crash
  PROVE  RestSound'
<1> USE DEF SharingInvariant
<1>1. UNCHANGED <<head, invite, handed>> /\ cache' = NoMap
      /\ \A q \in Request : req'[q] = Free
  BY DEF Crash
<1>2. RequestsSound'
  BY <1>1, FreeType DEF RequestsSound, At
<1>3. head.rev \in Nat /\ Free.head.rev < head.rev /\ Free.head.rev = 0
      /\ OfferedOnly(Free.head.acl) /\ OfferedOnly(NoAccess)
  BY FreeSound, FreeType, TypeFacts DEF HeadDoc
<1>4. CopiesSound'
  BY <1>1, <1>3 DEF CopiesSound, NoMap
<1>5. ListsSound'
  BY <1>1, <1>3 DEF ListsSound, OfferedOnly, NoMap
<1>6. CurrentMeansEqual'
  BY <1>1 DEF CurrentMeansEqual, NoMap
<1>7. ContentSound'
  <2>1. \A x \in Copies' : \E y \in Copies : x.rev = y.rev /\ x.seq = y.seq
    BY <1>1, FreeType DEF Copies, NoMap
  <2> QED BY <2>1 DEF ContentSound
<1>8. FloorsSound'
  BY <1>1, FreeType DEF FloorsSound, At
<1> QED BY <1>2, <1>4, <1>5, <1>6, <1>7, <1>8 DEF RestSound

LEMMA StutterSound ==
  ASSUME SharingInvariant, UNCHANGED vars
  PROVE  RestSound'
BY DEF SharingInvariant, RestSound, vars, inviteVars, RequestsSound, CopiesSound, ListsSound,
       OfferedOnly, CurrentMeansEqual, ContentSound, Copies, FloorsSound, At

LEMMA RestStep ==
  ASSUME SharingAssumption, SharingInvariant, [Next]_vars
  PROVE  RestSound'
<1>1. ASSUME NEW r \in Request, Hydrate(r) PROVE RestSound'
  <2>1. CASE HydrateFails(r)
    BY <2>1, FinishSound DEF HydrateFails, inviteVars
  <2> QED BY <1>1, <2>1, LoadSound, CompareSound, InstallSound, ReadSound DEF Hydrate
<1>2. ASSUME NEW r \in Request, Accept(r) PROVE RestSound'
  <2>1. CASE GrantUnknown(r) \/ GrantHeld(r) \/ GrantConflict(r)
    BY <2>1, FinishSound DEF GrantUnknown, GrantHeld, GrantConflict, inviteVars
  <2> QED BY <1>2, <2>1, GrantLoadSound, StoreSound DEF Accept
<1>3. ASSUME NEW r \in Request, InviteRefused(r) PROVE RestSound'
  BY <1>3, FinishSound DEF InviteRefused, inviteVars
<1>4. ASSUME NEW r \in Request, Start(r) PROVE RestSound'
  BY <1>4, StartSound
<1>5. ASSUME NEW r \in Request, NEW t \in Token, NEW i \in Invitation, Invite(r, t, i)
      PROVE  RestSound'
  BY <1>5, InviteSound
<1> QED BY <1>1, <1>2, <1>3, <1>4, <1>5, CommitSound, CrashSound, StutterSound DEF Next

-----------------------------------------------------------------------------
(***************************************************************************)
(* The theorems.                                                           *)
(***************************************************************************)
LEMMA SharingInit ==
  ASSUME SharingAssumption, Init
  PROVE  SharingInvariant
<1>1. /\ \A r \in Request : req[r] = Free
      /\ head.rev = 1 /\ head.seq = 0 /\ head.acl = OwnerOnly
      /\ cache.rev = 0 /\ cache.seq = 0 /\ cache.acl = OwnerOnly /\ cache.exists
  BY DEF Init
<1>2. TypeOK
  <2>1. /\ head \in HeadDoc /\ cache \in Cached /\ told \in AccessList
        /\ given \in [Account -> Nat]
    BY FreeType DEF Init, HeadDoc, Cached, AccessList, NoAccess
  <2>2. invite \in [Token -> Invitation \cup {None}]
        /\ inMemory \cup stored \cup handed \subseteq {t \in Token : invite[t] # None}
    BY DEF Init
  <2>3. req \in [Request -> RequestType]
    BY FreeType DEF Init
  <2>4. budget \in [commits : Nat, accepts : Nat, failures : Nat]
    BY DEF Init, SharingAssumption
  <2>5. \A r \in Request : mu # r /\ ~At(r, "swap")
    BY <1>1, FreeType DEF Init, SharingAssumption, At
  <2> QED BY <2>1, <2>2, <2>3, <2>4, <2>5 DEF TypeOK, Init, RequestType
<1>3. RequestsSound /\ FloorsSound
  BY <1>1, FreeType DEF RequestsSound, FloorsSound, At
<1>4. CopiesSound
  BY <1>1, FreeType DEF CopiesSound
<1>5. ListsSound
  <2>1. OfferedOnly(OwnerOnly) /\ OfferedOnly(NoAccess)
    BY DEF OfferedOnly, OwnerOnly, NoAccess
  <2> QED BY <1>1, <2>1, FreeType DEF ListsSound
<1>6. CurrentMeansEqual /\ ContentSound
  BY <1>1, FreeType DEF CurrentMeansEqual, ContentSound, Copies
<1> QED BY <1>2, <1>3, <1>4, <1>5, <1>6 DEF SharingInvariant

(***************************************************************************)
(* The parts of the invariant hold together whatever the requests of the   *)
(* service, the live rooms and restarts do in whatever order.              *)
(***************************************************************************)
THEOREM SharingIsSound == Spec => []SharingInvariant
<1>1. Init => SharingInvariant
  BY SharingAssumption, SharingInit
<1>2. SharingInvariant /\ [Next]_vars => SharingInvariant'
  <2> SUFFICES ASSUME SharingInvariant, [Next]_vars PROVE SharingInvariant'
    OBVIOUS
  <2>1. TypeOK'
    BY SharingAssumption, TypeStep DEF SharingInvariant
  <2>2. RestSound'
    BY SharingAssumption, RestStep
  <2> QED BY <2>1, <2>2 DEF SharingInvariant, RestSound
<1> QED BY <1>1, <1>2, PTL DEF Spec

(***************************************************************************)
(* Every field of the service has its type, and s.mu is held across store  *)
(* calls by the acceptance that writes the head and by nobody else.        *)
(***************************************************************************)
THEOREM SharingTypeCorrect == Spec => []TypeOK
<1>1. SharingInvariant => TypeOK
  BY DEF SharingInvariant
<1> QED BY <1>1, SharingIsSound, PTL

(***************************************************************************)
(* hydrateCurrent may trust the revision: an entry with the revision of    *)
(* the head has its content, and its access list up to grants that were    *)
(* not written.                                                            *)
(***************************************************************************)
THEOREM CurrentEntriesAreEqual == Spec => []CurrentMeansEqual
<1>1. SharingInvariant => CurrentMeansEqual
  BY DEF SharingInvariant
<1> QED BY <1>1, SharingIsSound, PTL

(***************************************************************************)
(* Nobody has a role, in the head or in the cache that Accept writes over  *)
(* it, that the owner did not offer to that very account.                  *)
(***************************************************************************)
THEOREM OnlyOfferedRoles == Spec => []RolesWereOffered
<1>1. SharingInvariant => RolesWereOffered
  BY DEF SharingInvariant, ListsSound, OfferedOnly, RolesWereOffered
<1> QED BY <1>1, SharingIsSound, PTL

(***************************************************************************)
(* CompareAndSwapHead in Accept never takes a committed edit back, and     *)
(* the revision of the head moves by one.                                  *)
(***************************************************************************)
THEOREM AcceptKeepsEdits == Spec => NoEditTakenBack
<1> DEFINE Step == head'.seq >= head.seq /\ (head' # head => head'.rev = head.rev + 1)
<1>1. SharingInvariant /\ [Next]_vars => [Step]_vars
  <2> SUFFICES ASSUME SharingInvariant, Next PROVE Step
    OBVIOUS
  <2>0. head.seq \in Nat
    BY TypeFacts DEF SharingInvariant, HeadDoc
  <2>1. CASE UNCHANGED head
    BY <2>0, <2>1
  <2>2. CASE Commit
    BY <2>2, CommittedHead DEF SharingInvariant
  <2>3. ASSUME NEW r \in Request, GrantStore(r) PROVE Step
    BY <2>0, <2>3, SwappedHead DEF SharingInvariant, GrantStore
  <2>4. UNCHANGED head \/ Commit \/ \E r \in Request : GrantStore(r)
    BY DEF Next, Start, Get, Lookup, Hydrate, HydrateLoad, HydrateCompare, HydrateInstall,
           HydrateFails, Read, Accept, GrantUnknown, GrantHeld, GrantLoad, GrantConflict,
           InviteRefused, Invite, Crash
  <2> QED BY <2>1, <2>2, <2>3, <2>4
<1> QED BY <1>1, SharingIsSound, PTL DEF Spec, NoEditTakenBack

(***************************************************************************)
(* What Get answers is at least as new as the head was when the oldest of  *)
(* the requests beside it started: other requests overwrite the cache with *)
(* what they loaded, and none of them loaded before it started.            *)
(***************************************************************************)
THEOREM AnswersAreRecent == Spec => StaleOnlyByOverlap
<1> DEFINE Step == \A r \in Request : Read(r) /\ cache.exists => cache.seq >= req[r].floor
<1>1. SharingInvariant => Step
  <2> SUFFICES ASSUME SharingInvariant, NEW r \in Request, Read(r), cache.exists
               PROVE  cache.seq >= req[r].floor
    OBVIOUS
  <2>1. req[r].at = "read"
    BY DEF Read, At
  <2> QED BY <2>1, PartsSound DEF SharingInvariant, FloorSound
<1> QED BY <1>1, SharingIsSound, PTL DEF Spec, StaleOnlyByOverlap
-----------------------------------------------------------------------------
(***************************************************************************)
(* Roles.  A copy of the head has everyone who has a role since before its *)
(* revision.  An acceptance therefore writes a list that has everyone who  *)
(* has a role since before the oldest request beside it: what is cached is *)
(* from such a request, or is as full as the head after another acceptance *)
(* wrote it, unless nothing was loaded because the map had no owner.       *)
(***************************************************************************)
Held(acl, rev) == \A a \in Account : head.acl[a] # NoRole /\ given[a] <= rev => acl[a] # NoRole

RolesDated == \A a \in Account : given[a] <= head.rev /\ (head.acl[a] # NoRole => given[a] # 0)

CopiesHold ==
  /\ Held(cache.acl, cache.rev)
  /\ \A r \in Request : Held(req[r].head.acl, req[r].head.rev)

Begun(r) ==
  /\ req[r].at # "idle" => req[r].began <= head.rev
  /\ req[r].at \in {"compare", "install"} => req[r].head.rev >= req[r].began

BegunBefore(r, q) == req[r].at # "idle" /\ req[q].at # "idle" => req[r].oldest <= req[q].began

CacheFull == \A a \in Account : head.acl[a] # NoRole => cache.acl[a] # NoRole

Ready(oldest) == CacheFull \/ cache.rev >= oldest \/ Owners(head.acl) = {}

\* It goes on with what is cached, or will because the map has no owner.
Trusts(r) ==
  req[r].at \in {"grant", "swap"} \/ (req[r].at = "compare" /\ Owners(req[r].head.acl) = {})

Granting(r) ==
  /\ Trusts(r) /\ cache.exists => Ready(req[r].oldest)
  /\ req[r].at = "swap" => cache.exists

RolesInvariant ==
  /\ RolesDated /\ CopiesHold
  /\ \A r \in Request : Begun(r) /\ Granting(r) /\ \A q \in Request : BegunBefore(r, q)

LEMMA Numbers ==
  ASSUME SharingAssumption, TypeOK
  PROVE  /\ head.rev \in Nat /\ cache.rev \in Nat /\ Free.head.rev = 0
         /\ \A r \in Request : /\ req[r].head.rev \in Nat /\ req[r].began \in Nat
                               /\ req[r].oldest \in Nat
         /\ \A a \in Account : given[a] \in Nat
BY TypeFacts, FreeType DEF TypeOK, HeadDoc, Cached, RequestType

LEMMA FreeHeld ==
  ASSUME SharingAssumption, TypeOK, RolesDated, NEW acl
  PROVE  Held(acl, 0)
<1> SUFFICES ASSUME NEW a \in Account, head.acl[a] # NoRole, given[a] <= 0 PROVE FALSE
  BY DEF Held
<1> QED BY Numbers DEF RolesDated

\* Steps that move a request and leave the head and the cache alone.
LEMMA MoveRoles ==
  ASSUME SharingAssumption, SharingInvariant, RolesInvariant, NEW r \in Request,
         Others(r), UNCHANGED <<head, cache, given>>,
         req'[r].head \in {Free.head, req[r].head, head},
         Begun(r)', Granting(r)',
         \A q \in Request : BegunBefore(r, q)' /\ BegunBefore(q, r)'
  PROVE  RolesInvariant'
<1>1. RolesDated'
  BY DEF RolesInvariant, RolesDated
<1>2. Held(Free.head.acl, Free.head.rev) /\ Held(head.acl, head.rev)
  BY FreeHeld, FreeType DEF SharingInvariant, RolesInvariant, Held
<1>3. CopiesHold'
  <2>1. \A q \in Request : Held(req'[q].head.acl, req'[q].head.rev)
    BY <1>2 DEF RolesInvariant, CopiesHold, Others
  <2> QED BY <2>1 DEF RolesInvariant, CopiesHold, Held
<1>4. ASSUME NEW p \in Request PROVE Begun(p)' /\ Granting(p)' /\ \A q \in Request : BegunBefore(p, q)'
  <2>1. CASE p = r
    BY <2>1
  <2>2. CASE p # r
    <3>1. req'[p] = req[p]
      BY <2>2 DEF Others
    <3>2. Begun(p)' /\ Granting(p)'
      BY <3>1 DEF RolesInvariant, Begun, Granting, Trusts, Ready, CacheFull
    <3>3. ASSUME NEW q \in Request, q # r PROVE BegunBefore(p, q)'
      BY <3>1, <3>3 DEF RolesInvariant, BegunBefore, Others
    <3> QED BY <3>2, <3>3
  <2> QED BY <2>1, <2>2
<1> QED BY <1>1, <1>3, <1>4 DEF RolesInvariant

LEMMA FinishRoles ==
  ASSUME SharingAssumption, SharingInvariant, RolesInvariant, NEW r \in Request, Finish(r),
         UNCHANGED <<head, cache, given>>
  PROVE  RolesInvariant'
<1>1. Others(r) /\ req'[r].at = "idle" /\ req'[r].head = Free.head
  BY FinishStep, FreeType DEF SharingInvariant
<1>2. Begun(r)' /\ Granting(r)' /\ \A q \in Request : BegunBefore(r, q)' /\ BegunBefore(q, r)'
  BY <1>1 DEF Begun, Granting, Trusts, BegunBefore
<1> QED BY <1>1, <1>2, MoveRoles

\* A request that goes on.
LEMMA GoesOnRoles ==
  ASSUME SharingAssumption, SharingInvariant, RolesInvariant, NEW r \in Request,
         Others(r), Keeps(r), ~At(r, "idle"), UNCHANGED <<head, cache, given>>,
         req'[r].head \in {Free.head, req[r].head, head}, req'[r].at # "swap",
         req'[r].at \in {"compare", "install"} => req'[r].head.rev >= req[r].began,
         Trusts(r)' /\ cache.exists => Ready(req[r].oldest)
  PROVE  RolesInvariant'
<1>1. Begun(r)'
  BY DEF RolesInvariant, Begun, Keeps, At
<1>2. Granting(r)'
  BY DEF Granting, Keeps, Ready, CacheFull
<1>3. \A q \in Request : BegunBefore(r, q)' /\ BegunBefore(q, r)'
  BY DEF RolesInvariant, BegunBefore, Keeps, Others, At
<1> QED BY <1>1, <1>2, <1>3, MoveRoles

LEMMA StartRoles ==
  ASSUME SharingAssumption, SharingInvariant, RolesInvariant, NEW r \in Request, Start(r)
  PROVE  RolesInvariant'
<1>1. PICK kind \in {"get", "invite", "accept"}, who \in Account, t \in Token \cup {None} :
        Begin(r, kind, "load", who, t)
  BY DEF Start, Get, Lookup
<1>2. UNCHANGED <<head, cache, given>>
  BY DEF Start, Get, Lookup
<1>3. /\ Others(r) /\ At(r, "idle") /\ req'[r].at = "load" /\ req'[r].head = Free.head
      /\ req'[r].began = head.rev /\ req'[r].oldest <= head.rev
      /\ \A q \in Request : ~At(q, "idle") => req'[r].oldest <= req[q].began
      /\ req'[r].oldest \in Nat
  BY <1>1, BeginStep DEF SharingInvariant, RequestType
<1>4. Begun(r)' /\ Granting(r)'
  BY <1>2, <1>3, Numbers DEF SharingInvariant, Begun, Granting, Trusts
<1>5. ASSUME NEW q \in Request PROVE BegunBefore(r, q)' /\ BegunBefore(q, r)'
  <2>1. CASE q = r
    BY <1>3, <2>1 DEF BegunBefore
  <2>2. CASE q # r
    <3>1. req'[q] = req[q]
      BY <1>3, <2>2 DEF Others
    <3>2. BegunBefore(r, q)'
      BY <1>3, <3>1 DEF BegunBefore, At
    <3>3. req[q].at # "idle" => req[q].oldest <= req[q].began /\ req[q].began <= head.rev
      BY DEF RolesInvariant, BegunBefore, Begun
    <3>4. BegunBefore(q, r)'
      BY <1>3, <3>1, <3>3, Numbers DEF SharingInvariant, BegunBefore
    <3> QED BY <3>2, <3>4
  <2> QED BY <2>1, <2>2
<1> QED BY <1>2, <1>3, <1>4, <1>5, MoveRoles

LEMMA LoadRoles ==
  ASSUME SharingAssumption, SharingInvariant, RolesInvariant, NEW r \in Request, HydrateLoad(r)
  PROVE  RolesInvariant'
<1>1. PICK at \in Phase, h \in HeadDoc : at = "compare" /\ h = head
  BY TypeFacts DEF SharingInvariant, Phase
<1>2. req' = [req EXCEPT ![r].at = at, ![r].head = h]
  BY <1>1 DEF HydrateLoad
<1>3. Others(r) /\ Keeps(r) /\ req'[r].at = at /\ req'[r].head = h
  BY <1>2, LoadStep DEF SharingInvariant
<1>4. ~At(r, "idle") /\ UNCHANGED <<head, cache, given>>
  BY DEF HydrateLoad, At
<1>5. head.rev >= req[r].began
  BY <1>4, Numbers DEF SharingInvariant, RolesInvariant, Begun, At
<1>6. Trusts(r)' => Ready(req[r].oldest)
  BY <1>1, <1>3 DEF Trusts, Ready
<1> QED BY <1>1, <1>3, <1>4, <1>5, <1>6, GoesOnRoles

LEMMA CompareRoles ==
  ASSUME SharingAssumption, SharingInvariant, RolesInvariant, NEW r \in Request, HydrateCompare(r)
  PROVE  RolesInvariant'
<1> DEFINE h == req[r].head
<1>1. At(r, "compare") /\ ~At(r, "idle") /\ UNCHANGED <<head, cache, given>>
  BY DEF HydrateCompare, At
<1>2. h.rev >= req[r].began /\ req[r].began >= req[r].oldest
  BY <1>1, Numbers DEF SharingInvariant, RolesInvariant, Begun, BegunBefore, At
<1>3. CASE IsCurrent(h) /\ Leave(r, Hydrated(r))
  <2>1. Hydrated(r) \in Phase /\ Hydrated(r) \in {"grant", "read"}
    BY DEF Hydrated, Phase
  <2>2. Others(r) /\ Keeps(r) /\ req'[r].at = Hydrated(r) /\ req'[r].head = Free.head
    BY <1>3, <2>1, LeaveStep DEF SharingInvariant
  <2>3. Ready(req[r].oldest)
    BY <1>2, <1>3, Numbers DEF SharingInvariant, IsCurrent, Ready
  <2> QED BY <1>1, <2>1, <2>2, <2>3, GoesOnRoles
<1>4. CASE Go(r, "install")
  <2>1. Others(r) /\ Keeps(r) /\ req'[r].at = "install" /\ req'[r].head = h
    BY <1>4, GoStep DEF SharingInvariant, Phase
  <2> QED BY <1>1, <1>2, <2>1, GoesOnRoles DEF Trusts
<1>5. CASE Owners(h.acl) = {} /\ Leave(r, "grant")
  <2>1. Others(r) /\ Keeps(r) /\ req'[r].at = "grant" /\ req'[r].head = Free.head
    BY <1>5, LeaveStep DEF SharingInvariant, Phase
  <2>2. cache.exists => Ready(req[r].oldest)
    BY <1>1, <1>5 DEF RolesInvariant, Granting, Trusts, At
  <2> QED BY <1>1, <2>1, <2>2, GoesOnRoles
<1>6. CASE Finish(r)
  BY <1>1, <1>6, FinishRoles
<1> QED BY <1>3, <1>4, <1>5, <1>6 DEF HydrateCompare

LEMMA ReadRoles ==
  ASSUME SharingAssumption, SharingInvariant, RolesInvariant, NEW r \in Request, Read(r)
  PROVE  RolesInvariant'
<1>1. At(r, "read") /\ ~At(r, "idle") /\ UNCHANGED <<head, cache, given>>
  BY DEF Read, At
<1>2. CASE Go(r, "invite")
  <2>1. Others(r) /\ Keeps(r) /\ req'[r].at = "invite" /\ req'[r].head = req[r].head
    BY <1>2, GoStep DEF SharingInvariant, Phase
  <2> QED BY <1>1, <2>1, GoesOnRoles DEF Trusts
<1>3. CASE Finish(r)
  BY <1>1, <1>3, FinishRoles
<1> QED BY <1>2, <1>3 DEF Read

\* What is installed was loaded by a request, so it is not older than that.
LEMMA InstallRoles ==
  ASSUME SharingAssumption, SharingInvariant, RolesInvariant, NEW r \in Request, HydrateInstall(r)
  PROVE  RolesInvariant'
<1> DEFINE h == req[r].head
<1>1. /\ At(r, "install") /\ UNCHANGED <<head, given>>
      /\ cache'.exists /\ cache'.acl = h.acl /\ cache'.rev = h.rev
  BY DEF HydrateInstall, Installed
<1>2. Hydrated(r) \in Phase /\ Hydrated(r) \in {"grant", "read"}
  BY DEF Hydrated, Phase
<1>3. Others(r) /\ Keeps(r) /\ req'[r].at = Hydrated(r) /\ req'[r].head = Free.head
  BY <1>2, LeaveStep DEF HydrateInstall, SharingInvariant
<1>4. RolesDated'
  BY <1>1 DEF RolesInvariant, RolesDated
<1>5. CopiesHold'
  <2>1. Held(Free.head.acl, Free.head.rev)
    BY FreeHeld, FreeType DEF SharingInvariant, RolesInvariant
  <2>2. \A q \in Request : Held(req'[q].head.acl, req'[q].head.rev)
    BY <1>3, <2>1 DEF RolesInvariant, CopiesHold, Others
  <2>3. Held(cache'.acl, cache'.rev)
    BY <1>1 DEF RolesInvariant, CopiesHold
  <2> QED BY <1>1, <2>2, <2>3 DEF CopiesHold, Held
<1>6. ASSUME NEW q \in Request, req[q].at # "idle" PROVE Ready(req[q].oldest)'
  <2>1. h.rev >= req[r].began /\ req[q].oldest <= req[r].began
    BY <1>1, <1>6 DEF RolesInvariant, Begun, BegunBefore, At
  <2>2. h.rev >= req[q].oldest
    BY <2>1, Numbers DEF SharingInvariant
  <2>3. req'[q].oldest = req[q].oldest
    BY <1>3 DEF Others, Keeps
  <2> QED BY <1>1, <2>2, <2>3 DEF Ready
<1>7. ASSUME NEW q \in Request PROVE Begun(q)' /\ Granting(q)'
  <2>1. Begun(q)'
    BY <1>1, <1>2, <1>3 DEF RolesInvariant, Begun, Others, Keeps, At
  <2>2. req[q].at = "idle" => ~Trusts(q)'
    BY <1>1, <1>3 DEF Trusts, Others, At
  <2> QED BY <1>1, <1>6, <2>1, <2>2 DEF Granting
<1>8. ASSUME NEW p \in Request, NEW q \in Request PROVE BegunBefore(p, q)'
  <2>1. \A u \in Request : /\ req'[u].at # "idle" => req[u].at # "idle"
                           /\ req'[u].oldest = req[u].oldest /\ req'[u].began = req[u].began
    BY <1>1, <1>3 DEF Others, Keeps, At
  <2> QED BY <2>1 DEF RolesInvariant, BegunBefore
<1> QED BY <1>4, <1>5, <1>7, <1>8 DEF RolesInvariant

\* The role that is accepted is added to what is cached.
LEMMA GrantLoadRoles ==
  ASSUME SharingAssumption, SharingInvariant, RolesInvariant, NEW r \in Request, GrantLoad(r)
  PROVE  RolesInvariant'
<1>1. /\ At(r, "grant") /\ UNCHANGED <<head, given>> /\ cache.exists
      /\ cache'.exists = cache.exists /\ cache'.rev = cache.rev
      /\ cache'.acl = [cache.acl EXCEPT ![req[r].who] = Offered(r)]
      /\ req[r].who \in Account /\ req[r].kind = "accept"
  BY EnteredRole DEF GrantLoad, SharingInvariant
<1>2. Offered(r) \in {"editor", "viewer"}
  BY <1>1, Offer DEF SharingInvariant
<1>3. \A a \in Account : cache.acl[a] # NoRole => cache'.acl[a] # NoRole
  BY <1>1, <1>2, TypeFacts DEF SharingInvariant, Cached, AccessList, NoRole
<1>4. /\ Others(r) /\ req'[r].head \in {Free.head, head}
      /\ (Keeps(r) /\ req'[r].at = "swap") \/ req'[r] = Free
  <2>1. CASE Finish(r)
    BY <2>1, FinishStep DEF SharingInvariant
  <2>2. CASE req' = [req EXCEPT ![r].at = "swap", ![r].head = head]
    <3>1. PICK at \in Phase, h \in HeadDoc : at = "swap" /\ h = head
      BY TypeFacts DEF SharingInvariant, Phase
    <3>2. req' = [req EXCEPT ![r].at = at, ![r].head = h]
      BY <2>2, <3>1
    <3> QED BY <3>1, <3>2, LoadStep DEF SharingInvariant
  <2> QED BY <2>1, <2>2 DEF GrantLoad
<1>5. RolesDated'
  BY <1>1 DEF RolesInvariant, RolesDated
<1>6. CopiesHold'
  <2>1. Held(Free.head.acl, Free.head.rev) /\ Held(head.acl, head.rev)
    BY FreeHeld, FreeType DEF SharingInvariant, RolesInvariant, Held
  <2>2. \A q \in Request : Held(req'[q].head.acl, req'[q].head.rev)
    BY <1>4, <2>1 DEF RolesInvariant, CopiesHold, Others
  <2>3. Held(cache'.acl, cache'.rev)
    BY <1>1, <1>3 DEF RolesInvariant, CopiesHold, Held
  <2> QED BY <1>1, <2>2, <2>3 DEF CopiesHold, Held
<1>7. ASSUME NEW oldest, Ready(oldest) PROVE CacheFull' \/ cache'.rev >= oldest \/ Owners(head'.acl) = {}
  BY <1>1, <1>3, <1>7 DEF Ready, CacheFull
<1>8. ASSUME NEW q \in Request PROVE Begun(q)' /\ Granting(q)'
  <2>1. CASE q # r
    <3>1. req'[q] = req[q]
      BY <1>4, <2>1 DEF Others
    <3> QED BY <1>1, <1>7, <3>1 DEF RolesInvariant, Begun, Granting, Trusts, Ready
  <2>2. CASE q = r /\ req'[r] = Free
    BY <2>2, FreeType DEF Begun, Granting, Trusts
  <2>3. CASE q = r /\ Keeps(r) /\ req'[r].at = "swap"
    BY <1>1, <1>7, <2>3 DEF RolesInvariant, Begun, Granting, Trusts, Ready, Keeps, At
  <2> QED BY <1>4, <2>1, <2>2, <2>3
<1>9. ASSUME NEW p \in Request, NEW q \in Request PROVE BegunBefore(p, q)'
  <2>1. \A u \in Request : req'[u].at # "idle" =>
          /\ req[u].at # "idle"
          /\ req'[u].oldest = req[u].oldest /\ req'[u].began = req[u].began
    BY <1>1, <1>4, FreeType DEF Others, Keeps, At
  <2> QED BY <2>1 DEF RolesInvariant, BegunBefore
<1> QED BY <1>5, <1>6, <1>8, <1>9 DEF RolesInvariant

\* The head is written: what was copied of it is older than what it gives now.
LEMMA NewHeadRoles ==
  ASSUME SharingAssumption, SharingInvariant, RolesInvariant,
         head'.rev = head.rev + 1, UNCHANGED cache,
         \A q \in Request : req'[q] = req[q] \/ req'[q] = Free,
         \A a \in Account :
           given'[a] = IF head.acl[a] = NoRole /\ head'.acl[a] # NoRole THEN head'.rev ELSE given[a],
         head'.acl = head.acl \/ head'.acl = cache.acl
  PROVE  RolesInvariant'
<1>1. RolesDated'
  <2> SUFFICES ASSUME NEW a \in Account
               PROVE  given'[a] <= head'.rev /\ (head'.acl[a] # NoRole => given'[a] # 0)
    BY DEF RolesDated
  <2> QED BY Numbers DEF SharingInvariant, RolesInvariant, RolesDated
<1>2. ASSUME NEW acl, NEW rev \in Nat, rev <= head.rev, Held(acl, rev)
      PROVE  \A a \in Account : head'.acl[a] # NoRole /\ given'[a] <= rev => acl[a] # NoRole
  BY <1>2, Numbers DEF SharingInvariant, Held
<1>3. CopiesHold'
  <2>1. \A a \in Account : head'.acl[a] # NoRole /\ given'[a] <= cache.rev => cache.acl[a] # NoRole
    BY <1>2, Numbers DEF SharingInvariant, CopiesSound, RolesInvariant, CopiesHold
  <2>2. ASSUME NEW q \in Request
        PROVE  \A a \in Account : head'.acl[a] # NoRole /\ given'[a] <= req'[q].head.rev
                                    => req'[q].head.acl[a] # NoRole
    <3>1. Held(Free.head.acl, Free.head.rev) /\ Free.head.rev \in Nat /\ Free.head.rev <= head.rev
      BY FreeHeld, Numbers DEF SharingInvariant, RolesInvariant
    <3>2. /\ Held(req[q].head.acl, req[q].head.rev) /\ req[q].head.rev \in Nat
          /\ req[q].head.rev <= head.rev
      BY Numbers DEF SharingInvariant, RolesInvariant, CopiesHold, CopiesSound
    <3>3. CASE req'[q] = req[q]
      BY <1>2, <3>2, <3>3
    <3>4. CASE req'[q] = Free
      BY <1>2, <3>1, <3>4
    <3> QED BY <3>3, <3>4
  <2> QED BY <2>1, <2>2 DEF CopiesHold, Held
<1>4. ASSUME NEW oldest, Ready(oldest) PROVE CacheFull' \/ cache'.rev >= oldest \/ Owners(head'.acl) = {}
  <2>1. CASE head'.acl = cache.acl
    BY <2>1 DEF CacheFull
  <2>2. CASE head'.acl = head.acl
    BY <1>4, <2>2 DEF Ready, CacheFull
  <2> QED BY <2>1, <2>2
<1>5. ASSUME NEW q \in Request PROVE Begun(q)' /\ Granting(q)'
  <2>1. CASE req'[q] = req[q]
    <3>1. Begun(q)'
      BY <2>1, Numbers DEF SharingInvariant, RolesInvariant, Begun
    <3>2. Granting(q)'
      BY <1>4, <2>1 DEF RolesInvariant, Granting, Trusts, Ready
    <3> QED BY <3>1, <3>2
  <2>2. CASE req'[q] = Free
    BY <2>2, FreeType DEF Begun, Granting, Trusts
  <2> QED BY <2>1, <2>2
<1>6. ASSUME NEW p \in Request, NEW q \in Request PROVE BegunBefore(p, q)'
  BY FreeType DEF RolesInvariant, BegunBefore
<1> QED BY <1>1, <1>3, <1>5, <1>6 DEF RolesInvariant

LEMMA StoreRoles ==
  ASSUME SharingAssumption, SharingInvariant, RolesInvariant, NEW r \in Request, GrantStore(r)
  PROVE  RolesInvariant'
<1>1. head'.rev = head.rev + 1 /\ head'.acl = cache.acl
  BY SwappedHead DEF GrantStore, SharingInvariant
<1>2. \A q \in Request : req'[q] = req[q] \/ req'[q] = Free
  BY FinishStep DEF GrantStore, SharingInvariant, Others
<1>3. UNCHANGED cache /\ \A a \in Account :
        given'[a] = IF head.acl[a] = NoRole /\ head'.acl[a] # NoRole THEN head'.rev ELSE given[a]
  BY DEF GrantStore
<1> QED BY <1>1, <1>2, <1>3, NewHeadRoles

LEMMA CommitRoles ==
  ASSUME SharingAssumption, SharingInvariant, RolesInvariant, Commit
  PROVE  RolesInvariant'
<1>1. head'.rev = head.rev + 1 /\ head'.acl = head.acl
  BY CommittedHead DEF SharingInvariant
<1>2. UNCHANGED <<cache, req, given>>
  BY DEF Commit
<1> QED BY <1>1, <1>2, NewHeadRoles

LEMMA CrashRoles ==
  ASSUME SharingAssumption, SharingInvariant, RolesInvariant, Crash
  PROVE  RolesInvariant'
<1>1. UNCHANGED <<head, given>> /\ cache' = NoMap /\ \A q \in Request : req'[q] = Free
  BY DEF Crash
<1>2. RolesDated'
  BY <1>1 DEF RolesInvariant, RolesDated
<1>3. CopiesHold'
  <2>1. Held(NoMap.acl, NoMap.rev) /\ Held(Free.head.acl, Free.head.rev)
    BY FreeHeld, FreeType DEF SharingInvariant, RolesInvariant, NoMap
  <2> QED BY <1>1, <2>1 DEF CopiesHold, Held
<1>4. \A q \in Request : /\ Begun(q)' /\ Granting(q)'
                         /\ \A p \in Request : BegunBefore(q, p)'
  BY <1>1, FreeType DEF Begun, Granting, Trusts, BegunBefore
<1> QED BY <1>2, <1>3, <1>4 DEF RolesInvariant

LEMMA RolesStep ==
  ASSUME SharingAssumption, SharingInvariant, RolesInvariant, [Next]_vars
  PROVE  RolesInvariant'
<1>1. ASSUME NEW r \in Request, Hydrate(r) PROVE RolesInvariant'
  <2>1. CASE HydrateFails(r)
    BY <2>1, FinishRoles DEF HydrateFails
  <2> QED BY <1>1, <2>1, LoadRoles, CompareRoles, InstallRoles, ReadRoles DEF Hydrate
<1>2. ASSUME NEW r \in Request, Accept(r) PROVE RolesInvariant'
  <2>1. CASE GrantUnknown(r) \/ GrantHeld(r) \/ GrantConflict(r)
    BY <2>1, FinishRoles DEF GrantUnknown, GrantHeld, GrantConflict
  <2> QED BY <1>2, <2>1, GrantLoadRoles, StoreRoles DEF Accept
<1>3. ASSUME NEW r \in Request, InviteRefused(r) PROVE RolesInvariant'
  BY <1>3, FinishRoles DEF InviteRefused
<1>4. ASSUME NEW r \in Request, NEW t \in Token, NEW i \in Invitation, Invite(r, t, i)
      PROVE  RolesInvariant'
  BY <1>4, FinishRoles DEF Invite
<1>5. CASE UNCHANGED vars
  BY <1>5 DEF vars, RolesInvariant, RolesDated, CopiesHold, Held, Begun, Granting, Trusts, Ready,
              CacheFull, BegunBefore
<1> QED BY <1>1, <1>2, <1>3, <1>4, <1>5, StartRoles, CommitRoles, CrashRoles DEF Next

LEMMA RolesInit ==
  ASSUME SharingAssumption, Init
  PROVE  RolesInvariant
<1>1. /\ \A r \in Request : req[r] = Free
      /\ head.rev = 1 /\ head.acl = OwnerOnly /\ cache.rev = 0 /\ cache.acl = OwnerOnly
      /\ \A a \in Account : given[a] = IF a = Owner THEN 1 ELSE 0
  BY DEF Init
<1>2. \A a \in Account : head.acl[a] # NoRole => a = Owner
  BY <1>1 DEF OwnerOnly, NoAccess
<1>3. RolesDated
  BY <1>1, <1>2 DEF RolesDated
<1>4. CopiesHold
  BY <1>1, <1>2, FreeType DEF CopiesHold, Held
<1>5. \A q \in Request : /\ Begun(q) /\ Granting(q)
                         /\ \A p \in Request : BegunBefore(q, p)
  BY <1>1, FreeType DEF Begun, Granting, Trusts, BegunBefore
<1> QED BY <1>3, <1>4, <1>5 DEF RolesInvariant

(***************************************************************************)
(* Accept writes a cached access list over that of the head; who loses a   *)
(* role by it was given that role while the acceptance, or a request that  *)
(* was under way when it started, was under way, or the map has no owner.  *)
(***************************************************************************)
THEOREM RolesAreKept == Spec => RolesLostOnlyByOverlap
<1> DEFINE Step == \A r \in Request : GrantStore(r) /\ Owners(head.acl) # {} =>
                     \A a \in Account :
                       head.acl[a] # NoRole /\ given[a] <= req[r].oldest => head'.acl[a] # NoRole
<1>1. SharingInvariant /\ RolesInvariant => Step
  <2> SUFFICES ASSUME SharingInvariant, RolesInvariant, NEW r \in Request, GrantStore(r),
                      Owners(head.acl) # {}, NEW a \in Account, head.acl[a] # NoRole,
                      given[a] <= req[r].oldest
               PROVE  head'.acl[a] # NoRole
    OBVIOUS
  <2>1. head'.acl = cache.acl /\ req[r].at = "swap"
    BY SharingAssumption, SwappedHead DEF GrantStore, SharingInvariant, At
  <2>2. CacheFull \/ cache.rev >= req[r].oldest
    BY <2>1 DEF RolesInvariant, Granting, Trusts, Ready
  <2>3. CASE cache.rev >= req[r].oldest
    <3>1. given[a] <= cache.rev
      BY <2>3, SharingAssumption, Numbers DEF SharingInvariant
    <3> QED BY <2>1, <3>1 DEF RolesInvariant, CopiesHold, Held
  <2> QED BY <2>1, <2>2, <2>3 DEF CacheFull
<1>2. Init => RolesInvariant
  BY SharingAssumption, RolesInit
<1>3. SharingInvariant /\ RolesInvariant /\ [Next]_vars => RolesInvariant'
  BY SharingAssumption, RolesStep
<1> QED BY <1>1, <1>2, <1>3, SharingIsSound, PTL DEF Spec, RolesLostOnlyByOverlap
=============================================================================
