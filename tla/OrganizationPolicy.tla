-------------------------- MODULE OrganizationPolicy --------------------------
(***************************************************************************)
(* `verglos policy organization fetch` (packages/cli/src/                  *)
(* organization-policy-fetch.ts, organization-policy-cache.ts and          *)
(* packages/shared/src/organization-policy.ts): a call asks the server for *)
(* the policy of a repository, verifies it with the keys it was given, and *)
(* keeps it in a cache file, which a later call may use for Ttl when the   *)
(* server does not answer.  Calls are processes: they overlap, and any     *)
(* number of them share one cache path.                                    *)
(*                                                                         *)
(* A policy is the number the server gave it and the key that signed it.   *)
(* The digest and the signature are one relation: a document that was not  *)
(* signed by the key it names is not genuine.                              *)
(***************************************************************************)
EXTENDS Integers, Sequences

CONSTANTS
  Calls,       \* processes
  Repos,       \* the scopes a call may ask for
  Keys,        \* keys of the organization
  Ttl,         \* cacheTtlMs
  MaxTime,     \* bound of the model: the clock
  MaxPolicies  \* bound of the model: policies published for a repository

ASSUME PolicyConstants ==
  /\ Ttl \in Nat \ {0}
  /\ MaxTime \in Nat
  /\ MaxPolicies \in Nat \ {0}

VARIABLES
  clock,
  active,     \* the keys the trusted-keys file calls active
  published,  \* for each repository what the server has published: key and time
  cache,      \* the file at the cache path
  call        \* the calls

policyVars == <<clock, active, published, cache, call>>

NoEntry == [repo |-> "none"]
Absent == [genuine |-> FALSE, repo |-> "none"]
Idle == [pc |-> "idle", repo |-> "none", offline |-> FALSE, keys |-> {}, at |-> 0,
         cached |-> NoEntry, remote |-> Absent, entry |-> NoEntry]

PolicyInit ==
  /\ clock = 0
  /\ active = Keys
  /\ published \in [Repos -> {<<[key |-> k, at |-> 0]>> : k \in Keys}]
  /\ cache = NoEntry
  /\ call = [c \in Calls |-> Idle]

PolicyTick ==
  /\ clock < MaxTime
  /\ clock' = clock + 1
  /\ UNCHANGED <<active, published, cache, call>>

\* The server publishes a new policy, the operator takes a key off the file.
PublishPolicy(r, k) ==
  /\ Len(published[r]) < MaxPolicies
  /\ published' = [published EXCEPT ![r] = Append(@, [key |-> k, at |-> clock])]
  /\ UNCHANGED <<clock, active, cache, call>>

RevokeKey(k) ==
  /\ active' = active \ {k}
  /\ UNCHANGED <<clock, published, cache, call>>

(* A call reads the keys and takes the time; with that time it judges      *)
(* everything that it reads later.                                         *)
BeginFetch(c, r, offline) ==
  /\ call[c].pc = "idle"
  /\ call' = [call EXCEPT ![c] = [Idle EXCEPT !.pc = "reading", !.repo = r,
       !.offline = offline, !.keys = active, !.at = clock]]
  /\ UNCHANGED <<clock, active, published, cache>>

To(c, pc) == call' = [call EXCEPT ![c].pc = pc]

\* It ends with 78, and another may begin in its place.
Unresolved(c) == call' = [call EXCEPT ![c] = Idle]

\* It has its answer, and goes on with that alone.
Answered(c, pc, entry) ==
  call' = [call EXCEPT ![c] = [Idle EXCEPT !.pc = pc, !.repo = call[c].repo,
    !.keys = call[c].keys, !.at = call[c].at, !.entry = entry]]

ReadCache(c) ==
  /\ call[c].pc = "reading"
  /\ cache = NoEntry \/ cache.repo = call[c].repo
  /\ call' = [call EXCEPT ![c].cached = cache,
                          ![c].pc = IF call[c].offline THEN "resolving" ELSE "fetching"]
  /\ UNCHANGED <<clock, active, published, cache>>

(* A cache of another repository, or one that cannot be read, ends the     *)
(* call, an online one too.                                                *)
ReadCacheFails(c) ==
  /\ call[c].pc = "reading"
  /\ cache # NoEntry
  /\ Unresolved(c)
  /\ UNCHANGED <<clock, active, published, cache>>

\* Unsafe URL, no license key, or an answer that is too large or not JSON.
FetchRefused(c) ==
  /\ call[c].pc = "fetching"
  /\ Unresolved(c)
  /\ UNCHANGED <<clock, active, published, cache>>

\* The server answers with the policy of this moment, or with something else.
Receive(c, genuine) ==
  /\ call[c].pc = "fetching"
  /\ LET r == call[c].repo  v == Len(published[r]) IN
     call' = [call EXCEPT ![c].pc = "resolving",
       ![c].remote = [genuine |-> genuine, repo |-> r, version |-> v,
                      key |-> published[r][v].key]]
  /\ UNCHANGED <<clock, active, published, cache>>

\* An error status, no network, or the timer, which covers the body too.
FetchFails(c) ==
  /\ call[c].pc = "fetching"
  /\ IF call[c].cached = NoEntry THEN Unresolved(c) ELSE To(c, "resolving")
  /\ UNCHANGED <<clock, active, published, cache>>

\* verifyOrganizationPolicy with the keys of the call.
Verified(c, d) == d.genuine /\ d.repo = call[c].repo /\ d.key \in call[c].keys

\* Mutant: a new entry is dated when it is made.
DatedLate(c) == clock

\* cachedAt of a new entry: the time the call began with.
Dated(c) == call[c].at

ResolveRemote(c) ==
  /\ call[c].pc = "resolving" /\ call[c].remote # Absent
  /\ IF Verified(c, call[c].remote)
     THEN Answered(c, "writing",
            [repo |-> call[c].repo, version |-> call[c].remote.version,
             key |-> call[c].remote.key, cachedAt |-> Dated(c), genuine |-> TRUE])
     ELSE Unresolved(c)
  /\ UNCHANGED <<clock, active, published, cache>>

\* Mutant: what is in the cache was verified once.
UsableUnverified(c, e) == e # NoEntry /\ call[c].at < e.cachedAt + Ttl

(* An entry is verified again, with the keys of this call, and is used     *)
(* until the instant it expires.                                           *)
Usable(c, e) == e # NoEntry /\ Verified(c, e) /\ call[c].at < e.cachedAt + Ttl

\* Mutant: what came from the cache is written back.
ResolveAndWriteBack(c) ==
  /\ call[c].pc = "resolving" /\ call[c].remote = Absent
  /\ IF Usable(c, call[c].cached)
     THEN Answered(c, "writing", call[c].cached)
     ELSE Unresolved(c)
  /\ UNCHANGED <<clock, active, published, cache>>

ResolveCached(c) ==
  /\ call[c].pc = "resolving" /\ call[c].remote = Absent
  /\ IF Usable(c, call[c].cached)
     THEN Answered(c, "resolved", call[c].cached)
     ELSE Unresolved(c)
  /\ UNCHANGED <<clock, active, published, cache>>

\* A temporary file renamed over the cache, whatever that holds by now.
WriteCache(c) ==
  /\ call[c].pc = "writing"
  /\ cache' = call[c].entry
  /\ To(c, "resolved")
  /\ UNCHANGED <<clock, active, published>>

WriteCacheFails(c) ==
  /\ call[c].pc = "writing"
  /\ Unresolved(c)
  /\ UNCHANGED <<clock, active, published, cache>>

\* The process is killed, or has ended and is forgotten.
ForgetCall(c) ==
  /\ call[c].pc # "idle"
  /\ call' = [call EXCEPT ![c] = Idle]
  /\ UNCHANGED <<clock, active, published, cache>>

CallStep(c) ==
  \/ ReadCache(c) \/ ReadCacheFails(c)
  \/ (\E g \in BOOLEAN : Receive(c, g)) \/ FetchFails(c) \/ FetchRefused(c)
  \/ ResolveRemote(c) \/ ResolveCached(c) \/ WriteCache(c) \/ WriteCacheFails(c)

PolicyNext ==
  \/ PolicyTick
  \/ \E r \in Repos, k \in Keys : PublishPolicy(r, k)
  \/ \E k \in active : RevokeKey(k)
  \/ \E c \in Calls : \/ \E r \in Repos, o \in BOOLEAN : BeginFetch(c, r, o)
                      \/ CallStep(c)
                      \/ ForgetCall(c)

PolicySpec == PolicyInit /\ [][PolicyNext]_policyVars

-----------------------------------------------------------------------------
Resolved == {c \in Calls : call[c].pc = "resolved"}

(* What a call resolves to was signed for its repository by a key that the *)
(* file called active when the call began: a key taken off the file ends   *)
(* the use of what it signed, the cache included.                          *)
ResolvedWithActiveKey ==
  \A c \in Resolved :
    /\ call[c].entry.repo = call[c].repo
    /\ call[c].entry.key \in call[c].keys
    /\ published[call[c].repo][call[c].entry.version].key = call[c].entry.key

(* However calls overlap, and whichever of them wrote the cache, no call   *)
(* resolves to a policy that had been replaced on the server for Ttl or    *)
(* longer when the call began.                                             *)
SupersededWithinTtl ==
  \A c \in Resolved :
    LET log == published[call[c].repo]  v == call[c].entry.version IN
    v < Len(log) => call[c].at < log[v + 1].at + Ttl

(* The cache falls back from one policy of a repository to an earlier one  *)
(* only through a call that began no later than the newer was published.   *)
FallsBackOnlyIfRaced ==
  [][\A c \in Calls :
       /\ cache # NoEntry /\ cache' # cache
       /\ call[c].pc = "writing" /\ call'[c].pc = "resolved"
       /\ cache'.repo = cache.repo /\ cache'.version < cache.version
       => call[c].at <= published[cache.repo][cache.version].at]_policyVars
=============================================================================
