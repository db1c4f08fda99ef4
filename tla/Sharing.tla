------------------------------ MODULE Sharing ------------------------------
(***************************************************************************)
(* The sharing service of one map: backend/internal/sharing/service.go as  *)
(* its HTTP handlers use it (httpapi/server.go).                           *)
(*                                                                         *)
(* The service keeps a copy of the map in memory, guarded by s.mu, beside  *)
(* the head document in CouchDB, which is the truth.  A request is a       *)
(* process: it loads the head without the lock and installs what it loaded *)
(* later, so requests overtake each other.  Only Accept keeps the lock     *)
(* while it talks to CouchDB.  Content is the number of the last commit.   *)
(***************************************************************************)
EXTENDS Integers, FiniteSets, FiniteSetsExt

CONSTANTS
  Account, Owner,   \* accounts, and the one that creates the map
  Token,            \* invitation tokens
  Request,          \* requests that the server handles at the same time
  None,             \* no account, no token, no request
  MaxCommits,       \* bound: edits that live rooms commit
  MaxAccepts,       \* bound: acceptances
  MaxFailures       \* bound: failed store calls, lost answers and restarts

VARIABLES
  head,      \* the head document: revision, last commit, access list
  cache,     \* s.maps[id]: access list, content, head it was made from
  mu,        \* the request that holds s.mu across store calls
  invite,    \* what each token stands for
  inMemory,  \* s.invites
  stored,    \* invitation documents
  handed,    \* tokens that were returned to the owner
  req,       \* the requests
  told,      \* history: role each account was told it has by accepting
  given,     \* history: revision of the head that gave each account its role
  budget     \* what is left of the bounds

vars == <<head, cache, mu, invite, inMemory, stored, handed, req, told, given, budget>>
inviteVars == <<invite, inMemory, stored, handed>>

-----------------------------------------------------------------------------
Role == {"owner", "editor", "viewer"}
NoRole == "none"
AccessList == [Account -> Role \cup {NoRole}]

HeadDoc == [rev : Nat, seq : Nat, acl : AccessList]
Cached == [exists : BOOLEAN, acl : AccessList, seq : Nat, rev : Nat]
Invitation == [account : Account, role : {"editor", "viewer"}]

ASSUME SharingAssumption ==
  /\ Owner \in Account
  /\ None \notin Account \cup Token \cup Request \cup Invitation
  /\ MaxCommits \in Nat /\ MaxAccepts \in Nat /\ MaxFailures \in Nat

NoAccess == [a \in Account |-> NoRole]
OwnerOnly == [NoAccess EXCEPT ![Owner] = "owner"]
NoMap == [exists |-> FALSE, acl |-> NoAccess, seq |-> 0, rev |-> 0]

Owners(acl) == {a \in Account : acl[a] = "owner"}

Free == [kind |-> "none", at |-> "idle", who |-> None, token |-> None,
         head |-> [rev |-> 0, seq |-> 0, acl |-> NoAccess], start |-> 0, floor |-> 0,
         began |-> 0, oldest |-> 0]

(***************************************************************************)
(* Create and PersistMap: the entry of a new map is made from no head; the *)
(* head is its first revision.                                             *)
(***************************************************************************)
Init ==
  /\ head = [rev |-> 1, seq |-> 0, acl |-> OwnerOnly]
  /\ cache = [exists |-> TRUE, acl |-> OwnerOnly, seq |-> 0, rev |-> 0]
  /\ mu = None
  /\ invite = [t \in Token |-> None]
  /\ inMemory = {} /\ stored = {} /\ handed = {}
  /\ req = [r \in Request |-> Free]
  /\ told = NoAccess
  /\ given = [a \in Account |-> IF a = Owner THEN 1 ELSE 0]
  /\ budget = [commits |-> MaxCommits, accepts |-> MaxAccepts,
             failures |-> MaxFailures]

-----------------------------------------------------------------------------
At(r, at) == req[r].at = at

Unlocked == mu = None

Go(r, at) == req' = [req EXCEPT ![r].at = at]

\* The same, and the head that was loaded is not needed any more.
Leave(r, at) == req' = [req EXCEPT ![r].at = at, ![r].head = Free.head]

\* The request is answered.
Finish(r) == req' = [req EXCEPT ![r] = Free]

Fail ==
  /\ budget.failures > 0
  /\ budget' = [budget EXCEPT !.failures = @ - 1]

Busy == {r \in Request : ~At(r, "idle")}
Inviting == {r \in Request : req[r].kind = "invite"}
Fresh == {t \in Token : invite[t] = None}

\* A request starts; floor is the content when the oldest request beside it did, and
\* oldest the revision.
Begin(r, kind, at, who, token) ==
  /\ At(r, "idle")
  /\ req' = [req EXCEPT ![r] =
       [Free EXCEPT !.kind = kind, !.at = at, !.who = who, !.token = token,
                    !.start = head.seq, !.began = head.rev,
                    !.floor = IF kind # "get" THEN 0
                      ELSE Min({head.seq} \cup {req[q].start : q \in Busy}),
                    !.oldest = IF kind # "accept" THEN 0
                      ELSE Min({head.rev} \cup {req[q].began : q \in Busy})]]

-----------------------------------------------------------------------------
(***************************************************************************)
(* mapHandler.  GET and POST .../invites first call Get, which checks the  *)
(* role in the head and brings the cache up to date.                       *)
(***************************************************************************)
Get(r, who, kind) ==
  /\ kind \in {"get", "invite"}
  /\ head.acl[who] # NoRole
  /\ kind = "invite" => Cardinality(Inviting) < Cardinality(Fresh)
  /\ Begin(r, kind, "load", who, None)
  /\ UNCHANGED <<head, cache, mu, inviteVars, told, given, budget>>

\* Mutant: an invitation is not bound to its account.
LookupByAnyone(r, who, t) ==
  /\ Unlocked
  /\ t \in handed
  /\ t \in inMemory \cup stored
  /\ budget.accepts > 0
  /\ budget' = [budget EXCEPT !.accepts = @ - 1]
  /\ Begin(r, "accept", "load", who, t)
  /\ UNCHANGED <<head, cache, mu, inviteVars, told, given>>

(***************************************************************************)
(* acceptInvite.  The invitation is looked up in memory, else in CouchDB.  *)
(***************************************************************************)
Lookup(r, who, t) ==
  /\ Unlocked
  /\ t \in handed
  /\ t \in inMemory \cup stored /\ invite[t].account = who
  /\ budget.accepts > 0
  /\ budget' = [budget EXCEPT !.accepts = @ - 1]
  /\ Begin(r, "accept", "load", who, t)
  /\ UNCHANGED <<head, cache, mu, inviteVars, told, given>>

-----------------------------------------------------------------------------
(***************************************************************************)
(* hydrateCurrent: load the head, compare it with that of the cache, load  *)
(* its content, and install both.                                          *)
(***************************************************************************)
HydrateLoad(r) ==
  /\ At(r, "load")
  /\ req' = [req EXCEPT ![r].at = "compare", ![r].head = head]
  /\ UNCHANGED <<head, cache, mu, inviteVars, told, given, budget>>

Hydrated(r) == IF req[r].kind = "accept" THEN "grant" ELSE "read"

\* Mutants: an entry that exists is never loaded again, or only for its content.
IsKnown(h) == cache.exists
HasContent(h) == cache.exists /\ cache.seq = h.seq

IsCurrent(h) == cache.exists /\ cache.rev = h.rev

\* Accept goes on when the map has no owner, the other requests do not.
HydrateCompare(r) ==
  LET h == req[r].head IN
  /\ At(r, "compare") /\ Unlocked
  /\ \/ IsCurrent(h) /\ Leave(r, Hydrated(r))
     \/ ~IsCurrent(h) /\ Owners(h.acl) # {} /\ Go(r, "install")
     \/ /\ ~IsCurrent(h) /\ Owners(h.acl) = {}
        /\ IF req[r].kind = "accept" THEN Leave(r, "grant") ELSE Finish(r)
  /\ UNCHANGED <<head, cache, mu, inviteVars, told, given, budget>>

\* Mutant: the content is left behind when an entry is brought up to date.
InstalledAccess(h) == [exists |-> TRUE, acl |-> h.acl, seq |-> cache.seq, rev |-> h.rev]

Installed(h) == [exists |-> TRUE, acl |-> h.acl, seq |-> h.seq, rev |-> h.rev]

HydrateInstall(r) ==
  /\ At(r, "install") /\ Unlocked
  /\ cache' = Installed(req[r].head)
  /\ Leave(r, Hydrated(r))
  /\ UNCHANGED <<head, mu, inviteVars, told, given, budget>>

\* Role, LoadHead or GetImmutable fails: the request is answered with an error.
HydrateFails(r) ==
  /\ At(r, "load") \/ At(r, "install")
  /\ Fail
  /\ Finish(r)
  /\ UNCHANGED <<head, cache, mu, inviteVars, told, given>>

\* Get copies the entry for the answer, or Invite goes on with it.
Read(r) ==
  /\ At(r, "read") /\ Unlocked
  /\ IF req[r].kind = "invite" /\ cache.exists /\ cache.acl[req[r].who] # NoRole
       THEN Go(r, "invite")
       ELSE Finish(r)
  /\ UNCHANGED <<head, cache, mu, inviteVars, told, given, budget>>

(***************************************************************************)
(* Invite: only the owner; the invitation is entered in memory, then       *)
(* written.  When that fails nobody gets the token.                        *)
(***************************************************************************)
InviteRefused(r) ==
  /\ At(r, "invite") /\ Unlocked
  /\ ~cache.exists \/ cache.acl[req[r].who] # "owner"
  /\ Finish(r)
  /\ UNCHANGED <<head, cache, mu, inviteVars, told, given, budget>>

Invite(r, t, i) ==
  /\ At(r, "invite") /\ Unlocked
  /\ cache.exists /\ cache.acl[req[r].who] = "owner"
  /\ t \in Fresh
  /\ invite' = [invite EXCEPT ![t] = i]
  /\ inMemory' = inMemory \cup {t}
  /\ \/ /\ stored' = stored \cup {t} /\ handed' = handed \cup {t}
        /\ UNCHANGED budget
     \/ /\ Fail
        /\ stored' \in {stored, stored \cup {t}}
        /\ UNCHANGED handed
  /\ Finish(r)
  /\ UNCHANGED <<head, cache, mu, told, given>>

-----------------------------------------------------------------------------
(***************************************************************************)
(* Accept, under the lock: enter the role in the cache, load the head,     *)
(* and write it back with the access list of the cache.                    *)
(***************************************************************************)
Offered(r) == invite[req[r].token].role

Answered(r) == told' = [told EXCEPT ![req[r].who] = Offered(r)]

GrantUnknown(r) ==
  /\ At(r, "grant") /\ Unlocked
  /\ ~cache.exists
  /\ Finish(r)
  /\ UNCHANGED <<head, cache, mu, inviteVars, told, given, budget>>

GrantHeld(r) ==
  /\ At(r, "grant") /\ Unlocked
  /\ cache.exists /\ cache.acl[req[r].who] = Offered(r)
  /\ Finish(r) /\ Answered(r)
  /\ UNCHANGED <<head, cache, mu, inviteVars, given, budget>>

GrantLoad(r) ==
  /\ At(r, "grant") /\ Unlocked
  /\ cache.exists /\ cache.acl[req[r].who] # Offered(r)
  /\ cache' = [cache EXCEPT !.acl[req[r].who] = Offered(r)]
  /\ \/ /\ mu' = r
        /\ req' = [req EXCEPT ![r].at = "swap", ![r].head = head]
        /\ UNCHANGED budget
     \/ /\ Fail /\ Finish(r)
        /\ UNCHANGED mu
  /\ UNCHANGED <<head, inviteVars, told, given>>

\* Mutant: the head is written without comparing its revision.
OverwriteHead(r) ==
  head' = [req[r].head EXCEPT !.acl = cache.acl, !.rev = head.rev + 1]

\* CompareAndSwapHead, with the head the request loaded.
SwapHead(r) ==
  /\ req[r].head.rev = head.rev
  /\ head' = [req[r].head EXCEPT !.acl = cache.acl, !.rev = @ + 1]

GrantStore(r) ==
  /\ At(r, "swap")
  /\ SwapHead(r)
  /\ mu' = None
  /\ \/ /\ inMemory' = inMemory \ {req[r].token}
        /\ Answered(r)
        /\ UNCHANGED budget
     \/ /\ Fail              \* written, but the answer is lost
        /\ UNCHANGED <<inMemory, told>>
  /\ given' = [a \in Account |-> IF head.acl[a] = NoRole /\ head'.acl[a] # NoRole
                                  THEN head'.rev ELSE given[a]]
  /\ Finish(r)
  /\ UNCHANGED <<cache, invite, stored, handed>>

\* Mutant: the lock is not released when the write fails.
GrantConflictLocked(r) ==
  /\ At(r, "swap")
  /\ Finish(r)
  /\ IF req[r].head.rev # head.rev THEN UNCHANGED budget ELSE Fail
  /\ UNCHANGED <<head, cache, mu, inviteVars, told, given>>

GrantConflict(r) ==
  /\ At(r, "swap")
  /\ mu' = None /\ Finish(r)
  /\ IF req[r].head.rev # head.rev THEN UNCHANGED budget ELSE Fail
  /\ UNCHANGED <<head, cache, inviteVars, told, given>>

-----------------------------------------------------------------------------
(***************************************************************************)
(* A live room commits an edit, which keeps the access list it loaded.     *)
(***************************************************************************)
Commit ==
  /\ budget.commits > 0
  /\ budget' = [budget EXCEPT !.commits = @ - 1]
  /\ head' = [head EXCEPT !.rev = @ + 1, !.seq = @ + 1]
  /\ UNCHANGED <<cache, mu, inviteVars, req, told, given>>

\* The server restarts: its memory and the requests are gone.
Crash ==
  /\ Fail
  /\ cache' = NoMap
  /\ inMemory' = {}
  /\ mu' = None
  /\ req' = [r \in Request |-> Free]
  /\ UNCHANGED <<head, invite, stored, handed, told, given>>

Start(r) ==
  \/ \E who \in Account, kind \in {"get", "invite"} : Get(r, who, kind)
  \/ \E who \in Account, t \in Token : Lookup(r, who, t)

Hydrate(r) ==
  \/ HydrateLoad(r) \/ HydrateCompare(r) \/ HydrateInstall(r) \/ HydrateFails(r)
  \/ Read(r)

Accept(r) ==
  \/ GrantUnknown(r) \/ GrantHeld(r) \/ GrantLoad(r)
  \/ GrantStore(r) \/ GrantConflict(r)

Next ==
  \/ \E r \in Request :
       \/ Start(r) \/ Hydrate(r) \/ Accept(r) \/ InviteRefused(r)
       \/ \E t \in Token, i \in Invitation : Invite(r, t, i)
  \/ Commit \/ Crash

Spec == Init /\ [][Next]_vars

-----------------------------------------------------------------------------
Phase == {"idle", "load", "compare", "install", "read", "invite", "grant", "swap"}

\* Every field has its type, and the lock is held by an acceptance at its write.
TypeOK ==
  /\ head \in HeadDoc
  /\ cache \in Cached
  /\ mu \in Request \cup {None}
  /\ invite \in [Token -> Invitation \cup {None}]
  /\ inMemory \cup stored \cup handed \subseteq {t \in Token : invite[t] # None}
  /\ req \in [Request -> [kind : {"none", "get", "invite", "accept"}, at : Phase,
                          who : Account \cup {None}, token : Token \cup {None},
                          head : HeadDoc, start : Nat, floor : Nat,
                          began : Nat, oldest : Nat]]
  /\ told \in AccessList /\ given \in [Account -> Nat]
  /\ budget \in [commits : Nat, accepts : Nat, failures : Nat]
  /\ \A r \in Request : (mu = r) <=> At(r, "swap")

(***************************************************************************)
(* The check of hydrateCurrent that the cache is up to date looks at the   *)
(* revision alone.  An entry with the revision of the head must therefore  *)
(* hold the content of the head, and of its access list everything but     *)
(* grants whose head write failed, however requests overtake each other.   *)
(***************************************************************************)
CurrentMeansEqual ==
  cache.exists /\ cache.rev = head.rev =>
    /\ cache.seq = head.seq
    /\ \A a \in Account :
         \/ cache.acl[a] = head.acl[a]
         \/ \E t \in handed : invite[t].account = a /\ invite[t].role = cache.acl[a]

(***************************************************************************)
(* Nobody has a role that the owner did not offer: neither the head nor    *)
(* the cache, whose list Accept writes over that of the head, holds an     *)
(* account but the owner without an invitation that was handed out.        *)
(***************************************************************************)
RolesWereOffered ==
  \A acl \in {head.acl, cache.acl} : \A a \in Account :
    \/ acl[a] = NoRole
    \/ a = Owner /\ acl[a] = "owner"
    \/ \E t \in handed : invite[t] = [account |-> a, role |-> acl[a]]

(***************************************************************************)
(* An acceptance that races with the commits of a live room loses: no      *)
(* write of the head takes a committed edit back, or moves its revision    *)
(* back.                                                                   *)
(***************************************************************************)
NoEditTakenBack ==
  [][head'.seq >= head.seq /\ (head' # head => head'.rev = head.rev + 1)]_vars

(***************************************************************************)
(* Get answers with the cache, which other requests overwrite with what    *)
(* they loaded before.  What it answers is at least as new as the head was *)
(* when the oldest of the requests beside it started.                      *)
(***************************************************************************)
StaleOnlyByOverlap ==
  [][\A r \in Request : Read(r) /\ cache.exists => cache.seq >= req[r].floor]_vars

(***************************************************************************)
(* Accept writes the access list of the cache over that of the head, and   *)
(* what is cached may be from an older head.  It takes no role away that   *)
(* was given before the oldest of the requests beside it started, as long  *)
(* as the map has an owner (without one nothing is loaded any more).       *)
(***************************************************************************)
RolesLostOnlyByOverlap ==
  [][\A r \in Request : GrantStore(r) /\ Owners(head.acl) # {} =>
       \A a \in Account :
         head.acl[a] # NoRole /\ given[a] <= req[r].oldest => head'.acl[a] # NoRole]_vars

(***************************************************************************)
(* Whoever is told that an invitation was accepted has a role in the head, *)
(* which is what decides on access: grants are durable                     *)
(* (2026-09-20-client-sharing-endtoend-design.md:67, :110).                *)
(***************************************************************************)
AcceptedIsDurable ==
  \A a \in Account : told[a] # NoRole => head.acl[a] # NoRole
=============================================================================
