--------------------------- MODULE GovernanceProofs ---------------------------
(***************************************************************************)
(* Theorems about OrganizationPolicy, for any number of calls, repositories*)
(* and keys, and about ReleaseGate, for any policy, documents and instants.*)
(***************************************************************************)
EXTENDS OrganizationPolicy, ReleaseGate, TLAPS

(* The policy cache.                                                       *)

Phases == {"idle", "reading", "fetching", "resolving", "writing", "resolved"}
Entries == [repo : Repos, version : Nat, key : Keys, cachedAt : Nat, genuine : BOOLEAN]
Remotes == [genuine : BOOLEAN, repo : Repos, version : Nat, key : Keys]
CallRecords == [pc : Phases, repo : Repos \cup {"none"}, offline : BOOLEAN, keys : SUBSET Keys,
                at : Nat, cached : Entries \cup {NoEntry}, remote : Remotes \cup {Absent},
                entry : Entries \cup {NoEntry}]
Publications == [key : Keys, at : Nat]

PolicyTypeOK ==
  /\ clock \in Nat
  /\ active \subseteq Keys
  /\ published \in [Repos -> Seq(Publications)]
  /\ cache \in Entries \cup {NoEntry}
  /\ call \in [Calls -> CallRecords]

\* The server's log of a repository: never empty, in the order of time.
LogsInOrder ==
  \A r \in Repos :
    /\ Len(published[r]) >= 1
    /\ \A v \in 1..Len(published[r]) : published[r][v].at <= clock
    /\ \A v, w \in 1..Len(published[r]) : v <= w => published[r][v].at <= published[r][w].at

\* Version v of r was published with key k, and none after it before time t.
Current(r, v, k, t) ==
  /\ v \in 1..Len(published[r])
  /\ published[r][v].key = k
  /\ v < Len(published[r]) => t <= published[r][v + 1].at

\* An entry is dated before what it keeps was replaced.
Backed(e) == e.cachedAt <= clock /\ Current(e.repo, e.version, e.key, e.cachedAt)

\* What a call has read, received and concluded.
CallHolds(x) ==
  /\ x.at <= clock
  /\ x.pc # "idle" => x.repo \in Repos
  /\ x.cached # NoEntry => Backed(x.cached)
  /\ x.remote # Absent =>
       x.remote.repo = x.repo /\ Current(x.remote.repo, x.remote.version, x.remote.key, x.at)
  /\ x.pc \in {"writing", "resolved"} =>
       /\ x.entry \in Entries /\ Backed(x.entry)
       /\ x.entry.repo = x.repo /\ x.entry.key \in x.keys
       /\ x.at < x.entry.cachedAt + Ttl
  /\ x.pc = "writing" => x.entry.cachedAt = x.at

PolicyInv ==
  /\ PolicyTypeOK
  /\ LogsInOrder
  /\ cache # NoEntry => Backed(cache)
  /\ \A c \in Calls : CallHolds(call[c])

\* A step that changes neither time nor the server, and of the calls only c.
LEMMA OneCallMoves ==
  ASSUME PolicyInv, NEW c \in Calls, UNCHANGED <<clock, published>>,
         active' \subseteq active, cache' = cache \/ (cache' \in Entries /\ Backed(cache')),
         NEW x \in CallRecords, call' = [call EXCEPT ![c] = x], CallHolds(x)
  PROVE  PolicyInv'
<1>1. call' \in [Calls -> CallRecords] /\ \A d \in Calls : CallHolds(call'[d])
  BY DEF PolicyInv, PolicyTypeOK
<1>2. \A d \in Calls : CallHolds(call[d])'
  BY <1>1 DEF CallHolds, Backed, Current
<1>3. PolicyTypeOK' /\ LogsInOrder'
  BY <1>1 DEF PolicyInv, PolicyTypeOK, LogsInOrder
<1>4. cache' # NoEntry => Backed(cache)'
  BY DEF PolicyInv, Backed, Current
<1> QED
  BY <1>2, <1>3, <1>4 DEF PolicyInv

\* What a call holds while nothing of its answer is there.
LEMMA IdleHolds ==
  /\ Idle \in CallRecords
  /\ PolicyInv => CallHolds(Idle)
<1>1. Idle \in CallRecords
  BY SMT DEF Idle, CallRecords, Phases
<1>2. PolicyInv => CallHolds(Idle)
  BY DEF PolicyInv, PolicyTypeOK, CallHolds, Idle
<1> QED
  BY <1>1, <1>2

\* The call gives up, is killed, or is forgotten.
LEMMA UnresolvedKeeps ==
  ASSUME PolicyInv, NEW c \in Calls, Unresolved(c), UNCHANGED <<clock, active, published, cache>>
  PROVE  PolicyInv'
BY IdleHolds, OneCallMoves DEF Unresolved

LEMMA BeginFetchKeeps ==
  ASSUME PolicyInv, NEW c \in Calls, NEW r \in Repos, NEW o \in BOOLEAN, BeginFetch(c, r, o)
  PROVE  PolicyInv'
<1> DEFINE x == [Idle EXCEPT !.pc = "reading", !.repo = r, !.offline = o, !.keys = active,
                             !.at = clock]
<1>1. x \in CallRecords
  BY IdleHolds DEF PolicyInv, PolicyTypeOK, CallRecords, Phases
<1>2. CallHolds(x)
  BY DEF PolicyInv, PolicyTypeOK, CallHolds, Idle
<1>3. call' = [call EXCEPT ![c] = x] /\ UNCHANGED <<clock, active, published, cache>>
  BY DEF BeginFetch
<1> HIDE DEF x
<1> QED
  BY <1>1, <1>2, <1>3, OneCallMoves

LEMMA ReadCacheKeeps ==
  ASSUME PolicyInv, NEW c \in Calls, ReadCache(c)
  PROVE  PolicyInv'
<1> DEFINE x == [call[c] EXCEPT !.cached = cache,
                   !.pc = IF call[c].offline THEN "resolving" ELSE "fetching"]
<1>1. x \in CallRecords
  BY DEF PolicyInv, PolicyTypeOK, CallRecords, Phases
<1>2. CallHolds(x)
  BY DEF PolicyInv, PolicyTypeOK, CallHolds, CallRecords, ReadCache
<1>3. call' = [call EXCEPT ![c] = x] /\ UNCHANGED <<clock, active, published, cache>>
  BY DEF ReadCache, PolicyInv, PolicyTypeOK, CallRecords
<1> HIDE DEF x
<1> QED
  BY <1>1, <1>2, <1>3, OneCallMoves

\* The server answers with its newest policy: nothing has replaced it.
LEMMA ReceiveKeeps ==
  ASSUME PolicyInv, NEW c \in Calls, NEW g \in BOOLEAN, Receive(c, g)
  PROVE  PolicyInv'
<1> DEFINE r == call[c].repo
           v == Len(published[r])
           d == [genuine |-> g, repo |-> r, version |-> v, key |-> published[r][v].key]
           x == [call[c] EXCEPT !.pc = "resolving", !.remote = d]
<1>1. r \in Repos /\ v \in Nat /\ v \in 1..v /\ published[r][v] \in Publications
  BY DEF PolicyInv, PolicyTypeOK, CallHolds, Receive, LogsInOrder
<1>2. d \in Remotes
  BY <1>1 DEF Remotes, Publications
<1>3. x \in CallRecords
  BY <1>2 DEF PolicyInv, PolicyTypeOK, CallRecords, Phases
<1>4. Current(d.repo, d.version, d.key, call[c].at)
  BY <1>1 DEF Current
<1>5. CallHolds(x)
  <2>1. /\ x.at = call[c].at /\ x.repo = call[c].repo /\ x.cached = call[c].cached
        /\ x.remote = d /\ x.pc = "resolving"
    BY DEF PolicyInv, PolicyTypeOK, CallRecords
  <2>2. d.repo = x.repo /\ Current(x.remote.repo, x.remote.version, x.remote.key, x.at)
    BY <1>4, <2>1
  <2> HIDE DEF x, d
  <2> QED
    BY <1>1, <2>1, <2>2 DEF CallHolds, PolicyInv
<1>6. call' = [call EXCEPT ![c] = x] /\ UNCHANGED <<clock, active, published, cache>>
  BY DEF Receive, PolicyInv, PolicyTypeOK, CallRecords
<1> HIDE DEF x
<1> QED
  BY <1>3, <1>5, <1>6, OneCallMoves

LEMMA FetchFailsKeeps ==
  ASSUME PolicyInv, NEW c \in Calls, FetchFails(c)
  PROVE  PolicyInv'
<1>1. CASE call[c].cached = NoEntry
  BY <1>1, UnresolvedKeeps DEF FetchFails
<1>2. CASE call[c].cached # NoEntry
  <2> DEFINE x == [call[c] EXCEPT !.pc = "resolving"]
  <2>1. x \in CallRecords
    BY DEF PolicyInv, PolicyTypeOK, CallRecords, Phases
  <2>2. CallHolds(x)
    BY DEF PolicyInv, PolicyTypeOK, CallHolds, CallRecords, FetchFails
  <2>3. call' = [call EXCEPT ![c] = x] /\ UNCHANGED <<clock, active, published, cache>>
    BY <1>2 DEF FetchFails, To, PolicyInv, PolicyTypeOK, CallRecords
  <2> HIDE DEF x
  <2> QED
    BY <2>1, <2>2, <2>3, OneCallMoves
<1> QED
  BY <1>1, <1>2

LEMMA AnsweredKeeps ==
  ASSUME PolicyInv, NEW c \in Calls, NEW pc \in {"writing", "resolved"}, NEW e \in Entries,
         Backed(e), call[c].repo \in Repos, e.repo = call[c].repo, e.key \in call[c].keys,
         call[c].at < e.cachedAt + Ttl, pc = "writing" => e.cachedAt = call[c].at,
         Answered(c, pc, e), UNCHANGED <<clock, active, published, cache>>
  PROVE  PolicyInv'
<1> DEFINE x == [Idle EXCEPT !.pc = pc, !.repo = call[c].repo, !.keys = call[c].keys,
                             !.at = call[c].at, !.entry = e]
<1>1. x \in CallRecords
  BY IdleHolds DEF PolicyInv, PolicyTypeOK, CallRecords, Phases
<1>2. /\ x.pc = pc /\ x.repo = call[c].repo /\ x.keys = call[c].keys /\ x.at = call[c].at
      /\ x.entry = e /\ x.cached = NoEntry /\ x.remote = Absent
  BY DEF Idle
<1>3. call[c].at <= clock
  BY DEF PolicyInv, CallHolds
<1>4. call' = [call EXCEPT ![c] = x]
  BY DEF Answered
<1> HIDE DEF x
<1>5. CallHolds(x)
  BY <1>2, <1>3 DEF CallHolds
<1> QED
  BY <1>1, <1>4, <1>5, OneCallMoves

(* What was current at the time the call began is dated with that time.    *)
LEMMA ResolveRemoteKeeps ==
  ASSUME PolicyInv, NEW c \in Calls, ResolveRemote(c)
  PROVE  PolicyInv'
<1> USE PolicyConstants
<1>1. CASE ~Verified(c, call[c].remote)
  BY <1>1, UnresolvedKeeps DEF ResolveRemote
<1>2. CASE Verified(c, call[c].remote)
  <2> DEFINE e == [repo |-> call[c].repo, version |-> call[c].remote.version,
                   key |-> call[c].remote.key, cachedAt |-> call[c].at, genuine |-> TRUE]
  <2>1. /\ call[c].remote \in Remotes /\ call[c].at \in Nat /\ call[c].repo \in Repos
        /\ call[c].at <= clock
        /\ Current(call[c].repo, call[c].remote.version, call[c].remote.key, call[c].at)
    BY DEF PolicyInv, PolicyTypeOK, CallRecords, CallHolds, ResolveRemote
  <2>2. e \in Entries
    BY <2>1 DEF Entries, Remotes
  <2>3. Backed(e)
    BY <2>1 DEF Backed
  <2>4. e.key \in call[c].keys /\ e.repo = call[c].repo /\ e.cachedAt = call[c].at
    BY <1>2 DEF Verified
  <2>5. Answered(c, "writing", e) /\ UNCHANGED <<clock, active, published, cache>>
    BY <1>2 DEF ResolveRemote, Dated
  <2>6. call[c].at < e.cachedAt + Ttl
    BY <2>1
  <2> HIDE DEF e
  <2> QED
    BY <2>1, <2>2, <2>3, <2>4, <2>5, <2>6, AnsweredKeeps
<1> QED
  BY <1>1, <1>2

LEMMA ResolveCachedKeeps ==
  ASSUME PolicyInv, NEW c \in Calls, ResolveCached(c)
  PROVE  PolicyInv'
<1>1. CASE ~Usable(c, call[c].cached)
  BY <1>1, UnresolvedKeeps DEF ResolveCached
<1>2. CASE Usable(c, call[c].cached)
  <2> DEFINE e == call[c].cached
  <2>1. e \in Entries /\ Backed(e) /\ call[c].repo \in Repos
    BY <1>2 DEF Usable, PolicyInv, PolicyTypeOK, CallRecords, CallHolds, ResolveCached
  <2>2. e.repo = call[c].repo /\ e.key \in call[c].keys /\ call[c].at < e.cachedAt + Ttl
    BY <1>2 DEF Usable, Verified
  <2>3. Answered(c, "resolved", e) /\ UNCHANGED <<clock, active, published, cache>>
    BY <1>2 DEF ResolveCached
  <2> HIDE DEF e
  <2> QED
    BY <2>1, <2>2, <2>3, AnsweredKeeps
<1> QED
  BY <1>1, <1>2

LEMMA WriteCacheKeeps ==
  ASSUME PolicyInv, NEW c \in Calls, WriteCache(c)
  PROVE  PolicyInv'
<1> DEFINE x == [call[c] EXCEPT !.pc = "resolved"]
<1>1. x \in CallRecords
  BY DEF PolicyInv, PolicyTypeOK, CallRecords, Phases
<1>2. CallHolds(x)
  BY DEF PolicyInv, PolicyTypeOK, CallHolds, CallRecords, WriteCache
<1>3. call' = [call EXCEPT ![c] = x] /\ UNCHANGED <<clock, active, published>>
  BY DEF WriteCache, To, PolicyInv, PolicyTypeOK, CallRecords
<1>4. cache' \in Entries /\ Backed(cache')
  BY DEF WriteCache, PolicyInv, CallHolds, Backed
<1> HIDE DEF x
<1> QED
  BY <1>1, <1>2, <1>3, <1>4, OneCallMoves

LEMMA CallStepKeeps ==
  ASSUME PolicyInv, NEW c \in Calls, CallStep(c)
  PROVE  PolicyInv'
<1>1. CASE ReadCache(c)
  BY <1>1, ReadCacheKeeps
<1>2. CASE ReadCacheFails(c) \/ FetchRefused(c) \/ WriteCacheFails(c)
  BY <1>2, UnresolvedKeeps DEF ReadCacheFails, FetchRefused, WriteCacheFails
<1>3. CASE \E g \in BOOLEAN : Receive(c, g)
  BY <1>3, ReceiveKeeps
<1>4. CASE FetchFails(c)
  BY <1>4, FetchFailsKeeps
<1>5. CASE ResolveRemote(c) \/ ResolveCached(c)
  BY <1>5, ResolveRemoteKeeps, ResolveCachedKeeps
<1>6. CASE WriteCache(c)
  BY <1>6, WriteCacheKeeps
<1> QED
  BY <1>1, <1>2, <1>3, <1>4, <1>5, <1>6 DEF CallStep

\* Whatever the server has published bears a time.
LEMMA PublicationsDated ==
  ASSUME PolicyTypeOK, NEW r \in Repos, NEW v \in 1..Len(published[r])
  PROVE  published[r][v].at \in Nat
<1>1. published[r] \in Seq(Publications)
  BY DEF PolicyTypeOK
<1>2. published[r][v] \in Publications
  <2>1. \A l \in Seq(Publications) : \A u \in 1..Len(l) : l[u] \in Publications
    OBVIOUS
  <2> QED
    BY <1>1, <2>1
<1> QED
  BY <1>2 DEF Publications

LEMMA TickKeeps ==
  ASSUME PolicyInv, PolicyTick
  PROVE  PolicyInv'
<1>1. PolicyTypeOK' /\ LogsInOrder'
  <2>1. PolicyTypeOK'
    BY DEF PolicyInv, PolicyTypeOK, PolicyTick
  <2>2. \A r \in Repos : \A v \in 1..Len(published[r]) : published[r][v].at \in Nat
    BY PublicationsDated DEF PolicyInv
  <2>3. clock \in Nat /\ clock' = clock + 1 /\ published' = published /\ LogsInOrder
    BY DEF PolicyInv, PolicyTypeOK, PolicyTick
  <2>4. ASSUME NEW r \in Repos, NEW v \in 1..Len(published[r])
        PROVE  published[r][v].at <= clock'
    <3>1. v \in Nat /\ published[r][v].at <= clock
      BY <2>3 DEF LogsInOrder
    <3> QED
      BY <2>2, <2>3, <3>1
  <2> QED
    BY <2>1, <2>3, <2>4 DEF LogsInOrder
<1>2. ASSUME NEW e \in Entries, Backed(e)
      PROVE  Backed(e)'
  BY <1>2 DEF PolicyInv, PolicyTypeOK, Backed, Current, PolicyTick, Entries
<1>3. cache # NoEntry => Backed(cache)'
  BY <1>2 DEF PolicyInv, PolicyTypeOK, PolicyTick
<1>4. ASSUME NEW c \in Calls
      PROVE  CallHolds(call[c])'
  <2>1. call[c] \in CallRecords /\ CallHolds(call[c]) /\ call' = call
    BY DEF PolicyInv, PolicyTypeOK, PolicyTick
  <2>2. call[c].at <= clock'
    BY <2>1 DEF PolicyInv, PolicyTypeOK, PolicyTick, CallHolds, CallRecords
  <2>3. call[c].cached # NoEntry => Backed(call[c].cached)'
    BY <1>2, <2>1 DEF CallHolds, CallRecords, PolicyTick
  <2>4. call[c].pc \in {"writing", "resolved"} => Backed(call[c].entry)'
    BY <1>2, <2>1 DEF CallHolds, CallRecords, PolicyTick
  <2> QED
    BY <2>1, <2>2, <2>3, <2>4 DEF CallHolds, PolicyTick, Current
<1> QED
  BY <1>1, <1>3, <1>4 DEF PolicyInv, PolicyTick

(* A new policy is published at the present time: what was current until   *)
(* now was current up to that time.                                        *)
LEMMA PublishKeeps ==
  ASSUME PolicyInv, NEW r \in Repos, NEW k \in Keys, PublishPolicy(r, k)
  PROVE  PolicyInv'
<1> DEFINE p == [key |-> k, at |-> clock]
<1>1. p \in Publications /\ clock \in Nat
  BY DEF PolicyInv, PolicyTypeOK, Publications
<1>2. published' = [published EXCEPT ![r] = Append(@, p)] /\ UNCHANGED <<clock, active, cache, call>>
  BY DEF PublishPolicy
<1>3. published \in [Repos -> Seq(Publications)] /\ published' \in [Repos -> Seq(Publications)]
  BY <1>1, <1>2 DEF PolicyInv, PolicyTypeOK
<1>4. /\ Len(published'[r]) = Len(published[r]) + 1 /\ Len(published[r]) \in Nat
      /\ \A v \in 1..Len(published[r]) : published'[r][v] = published[r][v]
      /\ published'[r][Len(published[r]) + 1] = p
      /\ \A s \in Repos : s # r => published'[s] = published[s]
  <2> HIDE DEF p
  <2> QED
    BY <1>1, <1>2, <1>3
<1>5. \A s \in Repos : \A v \in 1..Len(published[s]) : published[s][v].at \in Nat
  BY PublicationsDated DEF PolicyInv
<1>6. LogsInOrder'
  <2> SUFFICES ASSUME NEW s \in Repos
               PROVE  /\ Len(published'[s]) >= 1
                      /\ \A v \in 1..Len(published'[s]) : published'[s][v].at <= clock
                      /\ \A v, w \in 1..Len(published'[s]) :
                           v <= w => published'[s][v].at <= published'[s][w].at
    BY <1>2 DEF LogsInOrder
  <2>1. /\ Len(published[s]) >= 1
        /\ \A v \in 1..Len(published[s]) : published[s][v].at <= clock
        /\ \A v, w \in 1..Len(published[s]) : v <= w => published[s][v].at <= published[s][w].at
    BY DEF PolicyInv, LogsInOrder
  <2>2. CASE s # r
    BY <1>4, <2>1, <2>2
  <2>3. CASE s = r
    <3>1. \A v \in 1..Len(published'[r]) : v \in 1..Len(published[r]) \/ v = Len(published[r]) + 1
      BY <1>4
    <3>2. \A v \in 1..Len(published'[r]) : published'[r][v].at <= clock
      BY <1>1, <1>4, <2>1, <2>3, <3>1
    <3>3. ASSUME NEW v \in 1..Len(published'[r]), NEW w \in 1..Len(published'[r]), v <= w
          PROVE  published'[r][v].at <= published'[r][w].at
      <4>1. CASE w = Len(published[r]) + 1
        BY <1>4, <3>2, <4>1
      <4>2. CASE w \in 1..Len(published[r])
        <5>1. v \in 1..Len(published[r])
          BY <1>4, <3>3, <4>2
        <5> QED
          BY <1>4, <2>1, <2>3, <3>3, <4>2, <5>1
      <4> QED
        BY <3>1, <4>1, <4>2
    <3> QED
      BY <1>4, <2>1, <2>3, <3>2, <3>3
  <2> QED
    BY <2>2, <2>3
<1>7. ASSUME NEW s \in Repos, NEW v \in Nat, NEW j \in Keys, NEW t \in Nat,
             t <= clock, Current(s, v, j, t)
      PROVE  Current(s, v, j, t)'
  <2>1. v \in 1..Len(published[s]) /\ published[s][v].key = j
        /\ (v < Len(published[s]) => t <= published[s][v + 1].at)
    BY <1>7 DEF Current
  <2>2. CASE s # r
    BY <1>4, <2>1, <2>2 DEF Current
  <2>3. CASE s = r
    <3>1. v \in 1..Len(published'[r]) /\ published'[r][v].key = j
      BY <1>4, <2>1, <2>3
    <3>2. CASE v = Len(published[r])
      <4>1. published'[r][v + 1].at = clock
        BY <1>4, <3>2
      <4> QED
        BY <1>7, <2>3, <3>1, <4>1 DEF Current
    <3>3. CASE v # Len(published[r])
      <4>1. v < Len(published[r]) /\ v + 1 \in 1..Len(published[r])
        BY <1>4, <2>1, <2>3, <3>3
      <4> QED
        BY <1>4, <2>1, <2>3, <3>1, <4>1 DEF Current
    <3> QED
      BY <3>2, <3>3
  <2> QED
    BY <2>2, <2>3
<1>8. ASSUME NEW e \in Entries, Backed(e)
      PROVE  Backed(e)'
  BY <1>2, <1>7, <1>8 DEF Backed, Entries
<1>9. cache # NoEntry => Backed(cache)'
  BY <1>2, <1>8 DEF PolicyInv, PolicyTypeOK
<1>10. ASSUME NEW c \in Calls
       PROVE  CallHolds(call[c])'
  <2>1. call[c] \in CallRecords /\ CallHolds(call[c]) /\ call' = call /\ clock' = clock
    BY <1>2 DEF PolicyInv, PolicyTypeOK
  <2>2. call[c].cached # NoEntry => Backed(call[c].cached)'
    BY <1>2, <1>8, <2>1 DEF CallHolds, CallRecords
  <2>3. call[c].pc \in {"writing", "resolved"} => Backed(call[c].entry)'
    BY <1>2, <1>8, <2>1 DEF CallHolds, CallRecords
  <2>4. ASSUME call[c].remote # Absent
        PROVE  Current(call[c].remote.repo, call[c].remote.version, call[c].remote.key, call[c].at)'
    <3>1. call[c].remote \in Remotes /\ call[c].at \in Nat /\ call[c].at <= clock
          /\ Current(call[c].remote.repo, call[c].remote.version, call[c].remote.key, call[c].at)
      BY <2>1, <2>4 DEF CallHolds, CallRecords
    <3> QED
      BY <1>2, <1>7, <3>1 DEF Remotes
  <2> QED
    BY <2>1, <2>2, <2>3, <2>4 DEF CallHolds
<1>11. PolicyTypeOK'
  BY <1>2, <1>3 DEF PolicyInv, PolicyTypeOK
<1> QED
  BY <1>2, <1>6, <1>9, <1>10, <1>11 DEF PolicyInv

LEMMA RevokeKeeps ==
  ASSUME PolicyInv, NEW k \in active, RevokeKey(k)
  PROVE  PolicyInv'
<1>1. UNCHANGED <<clock, published, cache, call>> /\ active' \subseteq active
  BY DEF RevokeKey
<1> QED
  BY <1>1 DEF PolicyInv, PolicyTypeOK, LogsInOrder, CallHolds, Backed, Current

LEMMA PolicyInvStarts == PolicyInit => PolicyInv
<1> SUFFICES ASSUME PolicyInit
             PROVE  PolicyInv
  OBVIOUS
<1>1. published \in [Repos -> Seq(Publications)]
  <2>1. \A k \in Keys : <<[key |-> k, at |-> 0]>> \in Seq(Publications)
    BY DEF Publications
  <2> QED
    BY <2>1 DEF PolicyInit
<1>2. PolicyTypeOK
  BY <1>1, IdleHolds DEF PolicyInit, PolicyTypeOK
<1>3. LogsInOrder
  <2>1. \A r \in Repos : Len(published[r]) = 1 /\ published[r][1].at = 0
    BY DEF PolicyInit
  <2> QED
    BY <2>1 DEF PolicyInit, LogsInOrder
<1>4. CallHolds(Idle)
  BY DEF PolicyInit, CallHolds, Idle
<1> QED
  BY <1>2, <1>3, <1>4 DEF PolicyInit, PolicyInv

LEMMA PolicyInvKept == PolicyInv /\ [PolicyNext]_policyVars => PolicyInv'
<1> SUFFICES ASSUME PolicyInv, [PolicyNext]_policyVars
             PROVE  PolicyInv'
  OBVIOUS
<1>1. CASE PolicyTick
  BY <1>1, TickKeeps
<1>2. CASE \E r \in Repos, k \in Keys : PublishPolicy(r, k)
  BY <1>2, PublishKeeps
<1>3. CASE \E k \in active : RevokeKey(k)
  BY <1>3, RevokeKeeps
<1>4. CASE \E c \in Calls, r \in Repos, o \in BOOLEAN : BeginFetch(c, r, o)
  BY <1>4, BeginFetchKeeps
<1>5. CASE \E c \in Calls : CallStep(c)
  BY <1>5, CallStepKeeps
<1>6. CASE \E c \in Calls : ForgetCall(c)
  BY <1>6, UnresolvedKeeps DEF ForgetCall, Unresolved
<1>7. CASE UNCHANGED policyVars
  BY <1>7 DEF policyVars, PolicyInv, PolicyTypeOK, LogsInOrder, CallHolds, Backed, Current
<1> QED
  BY <1>1, <1>2, <1>3, <1>4, <1>5, <1>6, <1>7 DEF PolicyNext

(* The inductive invariant of the policy cache, of which the theorems      *)
(* below are consequences.                                                 *)
THEOREM PolicyInvHolds == PolicySpec => []PolicyInv
<1>1. PolicyInit => PolicyInv
  BY PolicyInvStarts
<1>2. PolicyInv /\ [PolicyNext]_policyVars => PolicyInv'
  BY PolicyInvKept
<1> QED
  BY <1>1, <1>2, PTL DEF PolicySpec

(* Whatever the calls, `policy organization fetch` resolves only to what a *)
(* key of the call's own trusted keys signed for its repository.           *)
THEOREM ActiveKeyHolds == PolicySpec => []ResolvedWithActiveKey
<1>1. PolicyInv => ResolvedWithActiveKey
  BY DEF PolicyInv, CallHolds, Backed, Current, ResolvedWithActiveKey, Resolved
<1> QED
  BY <1>1, PolicyInvHolds, PTL

(* A policy resolved to, from the server or from the cache, was replaced   *)
(* less than the time to live before the call began, if at all.            *)
THEOREM SupersededHolds == PolicySpec => []SupersededWithinTtl
<1>1. PolicyInv => SupersededWithinTtl
  <2> SUFFICES ASSUME PolicyInv, NEW c \in Calls, call[c].pc = "resolved",
                      call[c].entry.version < Len(published[call[c].repo])
               PROVE  call[c].at < published[call[c].repo][call[c].entry.version + 1].at + Ttl
    BY DEF SupersededWithinTtl, Resolved
  <2> DEFINE r == call[c].repo
             v == call[c].entry.version
  <2>1. /\ call[c].entry \in Entries /\ Backed(call[c].entry) /\ r \in Repos
        /\ call[c].entry.repo = r /\ call[c].at < call[c].entry.cachedAt + Ttl
    BY DEF PolicyInv, CallHolds
  <2>2. call[c].entry.cachedAt <= published[r][v + 1].at /\ v \in 1..Len(published[r])
    BY <2>1 DEF Backed, Current
  <2>3. v + 1 \in 1..Len(published[r])
    BY <2>2
  <2>4. published[r][v + 1].at \in Nat
    BY <2>1, <2>3, PublicationsDated DEF PolicyInv
  <2>5. call[c].entry.cachedAt \in Nat /\ call[c].at \in Nat /\ Ttl \in Nat
    BY <2>1, PolicyConstants DEF Entries, PolicyInv, PolicyTypeOK, CallRecords
  <2> DEFINE begun == call[c].at
             dated == call[c].entry.cachedAt
             replaced == published[r][v + 1].at
  <2>6. /\ begun \in Nat /\ dated \in Nat /\ replaced \in Nat /\ Ttl \in Nat
        /\ begun < dated + Ttl /\ dated <= replaced
    BY <2>1, <2>2, <2>4, <2>5
  <2>7. begun < replaced + Ttl
    <3> HIDE DEF begun, dated, replaced
    <3> QED
      BY <2>6
  <2> QED
    BY <2>7
<1> QED
  BY <1>1, PolicyInvHolds, PTL

(* Only a call that is older than the policy in the cache puts an earlier  *)
(* policy of the repository in its place.                                  *)
THEOREM FallBackHolds == PolicySpec => FallsBackOnlyIfRaced
<1> DEFINE Fallback(c) ==
      /\ cache # NoEntry /\ cache' # cache
      /\ call[c].pc = "writing" /\ call'[c].pc = "resolved"
      /\ cache'.repo = cache.repo /\ cache'.version < cache.version
<1>1. ASSUME PolicyInv, [PolicyNext]_policyVars, NEW c \in Calls, Fallback(c)
      PROVE  call[c].at <= published[cache.repo][cache.version].at
  <2>1. PICK d \in Calls : WriteCache(d)
    <3>1. (\E d \in Calls : WriteCache(d)) \/ cache' = cache
      BY <1>1 DEF PolicyNext, policyVars, PolicyTick, PublishPolicy, RevokeKey, BeginFetch, CallStep,
         ForgetCall, ReadCache, ReadCacheFails, Receive, FetchFails, FetchRefused, ResolveRemote,
         ResolveCached, WriteCacheFails
    <3> QED
      BY <1>1, <3>1
  <2>2. d = c
    BY <1>1, <2>1 DEF WriteCache, To, PolicyInv, PolicyTypeOK
  <2> DEFINE e == call[c].entry
             w == e.version
  <2>3. cache' = e
    BY <2>1, <2>2 DEF WriteCache
  <2>4. e \in Entries /\ Backed(e) /\ e.cachedAt = call[c].at /\ cache \in Entries /\ Backed(cache)
    BY <1>1 DEF PolicyInv, PolicyTypeOK, CallHolds
  <2>5. e.repo = cache.repo /\ w < cache.version
    BY <1>1, <2>3
  <2>6. cache.version \in 1..Len(published[cache.repo]) /\ w \in Nat /\ cache.repo \in Repos
    BY <2>4 DEF Backed, Current, Entries
  <2>7. w + 1 \in 1..Len(published[cache.repo]) /\ w + 1 <= cache.version
    BY <2>5, <2>6
  <2>8. call[c].at <= published[cache.repo][w + 1].at
    BY <2>4, <2>5, <2>7 DEF Backed, Current
  <2>9. published[cache.repo][w + 1].at <= published[cache.repo][cache.version].at
    BY <1>1, <2>6, <2>7 DEF PolicyInv, LogsInOrder
  <2>10. published[cache.repo][w + 1].at \in Nat /\ published[cache.repo][cache.version].at \in Nat
         /\ call[c].at \in Nat
    BY <1>1, <2>6, <2>7, PublicationsDated DEF PolicyInv, PolicyTypeOK, CallRecords
  <2> QED
    BY <2>8, <2>9, <2>10
<1>2. PolicyInv /\ [PolicyNext]_policyVars =>
        [\A c \in Calls : Fallback(c) => call[c].at <= published[cache.repo][cache.version].at]_policyVars
  BY <1>1
<1> QED
  BY <1>2, PolicyInvHolds, PTL DEF PolicySpec, FallsBackOnlyIfRaced

(* With one caller, or a lock around the call, no two calls are under way. *)
UnderWay == {c \in Calls : call[c].pc \notin {"idle", "resolved"}}
OneCall == \A c, d \in UnderWay : c = d

\* What call x has received or is about to write is no older than the cache.
NoOlder(x) ==
  /\ x.pc \in {"reading", "fetching"} => x.remote = Absent
  /\ cache # NoEntry /\ x.repo = cache.repo =>
       /\ x.pc = "resolving" /\ x.remote # Absent => cache.version <= x.remote.version
       /\ x.pc = "writing" => cache.version <= x.entry.version

AllNoOlder == \A c \in Calls : NoOlder(call[c])

\* The server answers with its newest policy, of which the cache holds this one or an
\* earlier; a call writes what it received.
LEMMA NoOlderKept ==
  ASSUME PolicyInv, NEW c \in Calls, NoOlder(call[c]), CallStep(c), ~WriteCache(c)
  PROVE  NoOlder(call[c])' /\ cache' = cache /\ \A d \in Calls \ {c} : call'[d] = call[d]
<1> DEFINE x == call[c]
<1>0. call \in [Calls -> CallRecords] /\ x \in CallRecords /\ CallHolds(x)
  BY DEF PolicyInv, PolicyTypeOK
<1>1. cache' = cache /\ \A d \in Calls \ {c} : call'[d] = call[d]
  BY <1>0 DEF CallStep, ReadCache, ReadCacheFails, Receive, FetchFails, FetchRefused,
     ResolveRemote, ResolveCached, WriteCacheFails, Unresolved, To, Answered
<1>2. CASE call' = [call EXCEPT ![c] = Idle]
  BY <1>0, <1>1, <1>2 DEF NoOlder, Idle
<1>3. CASE ReadCache(c)
  <2>1. call'[c].remote = Absent /\ call'[c].pc \in {"resolving", "fetching"}
    BY <1>0, <1>3 DEF ReadCache, CallRecords, NoOlder
  <2> QED
    BY <1>1, <2>1 DEF NoOlder
<1>4. ASSUME NEW g \in BOOLEAN, Receive(c, g) PROVE NoOlder(call[c])'
  <2> DEFINE r == x.repo
             v == Len(published[r])
             d == [genuine |-> g, repo |-> r, version |-> v, key |-> published[r][v].key]
  <2>1. call'[c].pc = "resolving" /\ call'[c].remote = d /\ call'[c].repo = r
    BY <1>0, <1>4 DEF Receive, CallRecords
  <2>2. d.version = v
    OBVIOUS
  <2>3. cache # NoEntry /\ r = cache.repo => cache.version <= v
    BY DEF PolicyInv, Backed, Current
  <2> QED
    BY <1>1, <2>1, <2>2, <2>3 DEF NoOlder
<1>5. CASE FetchFails(c) /\ x.cached # NoEntry
  <2>1. call'[c].remote = Absent /\ call'[c].pc = "resolving"
    BY <1>0, <1>5 DEF FetchFails, To, CallRecords, NoOlder
  <2> QED
    BY <1>1, <2>1 DEF NoOlder
<1>6. CASE ResolveRemote(c) /\ Verified(c, x.remote)
  <2> DEFINE e == [repo |-> x.repo, version |-> x.remote.version, key |-> x.remote.key,
                   cachedAt |-> x.at, genuine |-> TRUE]
             y == [Idle EXCEPT !.pc = "writing", !.repo = x.repo, !.keys = x.keys, !.at = x.at,
                               !.entry = e]
  <2>a. call' = [call EXCEPT ![c] = y]
    BY <1>6 DEF ResolveRemote, Answered, Dated
  <2>b. y.pc = "writing" /\ y.repo = x.repo /\ y.entry.version = x.remote.version
    BY DEF Idle
  <2>1. /\ call'[c].pc = "writing" /\ call'[c].repo = x.repo
        /\ call'[c].entry.version = x.remote.version
    <3> HIDE DEF y
    <3> QED
      BY <1>0, <2>a, <2>b
  <2>2. cache # NoEntry /\ x.repo = cache.repo => cache.version <= x.remote.version
    BY <1>6 DEF ResolveRemote, NoOlder
  <2> QED
    BY <1>1, <2>1, <2>2 DEF NoOlder
<1>7. CASE ResolveCached(c) /\ Usable(c, x.cached)
  <2>1. call'[c].pc = "resolved"
    BY <1>0, <1>7 DEF ResolveCached, Answered, Idle
  <2> QED
    BY <1>1, <2>1 DEF NoOlder
<1>8. \/ call' = [call EXCEPT ![c] = Idle]
      \/ ReadCache(c) \/ (\E g \in BOOLEAN : Receive(c, g))
      \/ FetchFails(c) /\ x.cached # NoEntry
      \/ ResolveRemote(c) /\ Verified(c, x.remote)
      \/ ResolveCached(c) /\ Usable(c, x.cached)
  BY DEF CallStep, ReadCacheFails, FetchFails, FetchRefused, ResolveRemote, ResolveCached,
     WriteCacheFails, Unresolved
<1> QED
  BY <1>1, <1>2, <1>3, <1>4, <1>5, <1>6, <1>7, <1>8

\* The only step that changes the cache leaves no other call under way.
LEMMA AllNoOlderKept ==
  ASSUME PolicyInv, OneCall, AllNoOlder, [PolicyNext]_policyVars
  PROVE  /\ AllNoOlder'
         /\ cache # NoEntry /\ cache' # NoEntry /\ cache'.repo = cache.repo =>
              cache.version <= cache'.version
<1>0. call \in [Calls -> CallRecords] /\ (cache # NoEntry => cache.version \in Nat)
  BY DEF PolicyInv, PolicyTypeOK, Entries
<1>1. CASE UNCHANGED <<cache, call>>
  BY <1>0, <1>1 DEF AllNoOlder, NoOlder
<1>2. ASSUME NEW c \in Calls, NEW r \in Repos, NEW o \in BOOLEAN, BeginFetch(c, r, o)
      PROVE  AllNoOlder' /\ cache' = cache
  <2>1. call'[c].remote = Absent /\ call'[c].pc = "reading"
    BY <1>0, <1>2 DEF BeginFetch, Idle
  <2>2. cache' = cache /\ \A d \in Calls \ {c} : call'[d] = call[d]
    BY <1>0, <1>2 DEF BeginFetch
  <2> QED
    BY <2>1, <2>2 DEF AllNoOlder, NoOlder
<1>3. ASSUME NEW c \in Calls, ForgetCall(c) PROVE AllNoOlder' /\ cache' = cache
  <2>1. call'[c].pc = "idle"
    BY <1>0, <1>3 DEF ForgetCall, Idle
  <2>2. cache' = cache /\ \A d \in Calls \ {c} : call'[d] = call[d]
    BY <1>0, <1>3 DEF ForgetCall
  <2> QED
    BY <2>1, <2>2 DEF AllNoOlder, NoOlder
<1>4. ASSUME NEW c \in Calls, CallStep(c), ~WriteCache(c) PROVE AllNoOlder' /\ cache' = cache
  <2>1. NoOlder(call[c])' /\ cache' = cache /\ \A d \in Calls \ {c} : call'[d] = call[d]
    BY <1>4, NoOlderKept DEF AllNoOlder
  <2> QED
    BY <2>1 DEF AllNoOlder, NoOlder
<1>5. ASSUME NEW c \in Calls, WriteCache(c)
      PROVE  /\ AllNoOlder'
             /\ cache # NoEntry /\ cache'.repo = cache.repo => cache.version <= cache'.version
  <2>1. \A d \in Calls \ {c} : call'[d] = call[d] /\ call[d].pc \in {"idle", "resolved"}
    BY <1>0, <1>5 DEF WriteCache, To, OneCall, UnderWay
  <2>2. call'[c].pc = "resolved" /\ cache' = call[c].entry
    BY <1>0, <1>5 DEF WriteCache, To, CallRecords
  <2>3. call[c].pc = "writing" /\ call[c].entry.repo = call[c].repo
    BY <1>5 DEF WriteCache, PolicyInv, CallHolds
  <2>4. AllNoOlder'
    BY <2>1, <2>2 DEF AllNoOlder, NoOlder
  <2> QED
    BY <2>2, <2>3, <2>4 DEF AllNoOlder, NoOlder
<1>6. \/ UNCHANGED <<cache, call>>
      \/ \E c \in Calls : \/ \E r \in Repos, o \in BOOLEAN : BeginFetch(c, r, o)
                          \/ ForgetCall(c) \/ CallStep(c)
  BY DEF PolicyNext, policyVars, PolicyTick, PublishPolicy, RevokeKey
<1>7. ASSUME AllNoOlder', cache' = cache
      PROVE  cache # NoEntry /\ cache' # NoEntry /\ cache'.repo = cache.repo =>
               cache.version <= cache'.version
  BY <1>0, <1>7
<1> QED
  BY <1>1, <1>2, <1>3, <1>4, <1>5, <1>6, <1>7

(* A lock around `policy organization fetch` is all that the cache lacks:  *)
(* while no two calls overlap, it never goes back from a policy of a       *)
(* repository to an earlier one, whatever the server publishes, whichever  *)
(* calls fail and whoever is killed.                                       *)
THEOREM LockKeepsNewest ==
  PolicySpec /\ []OneCall =>
    [][cache # NoEntry /\ cache' # NoEntry /\ cache'.repo = cache.repo =>
         cache.version <= cache'.version]_policyVars
<1>1. PolicyInit => AllNoOlder
  <2>1. ASSUME PolicyInit, NEW c \in Calls PROVE call[c].pc = "idle"
    BY <2>1 DEF PolicyInit, Idle
  <2> QED
    BY <2>1 DEF AllNoOlder, NoOlder
<1>2. PolicyInv /\ OneCall /\ AllNoOlder /\ [PolicyNext]_policyVars => AllNoOlder'
  BY AllNoOlderKept
<1>3. PolicyInv /\ OneCall /\ AllNoOlder /\ [PolicyNext]_policyVars =>
        [cache # NoEntry /\ cache' # NoEntry /\ cache'.repo = cache.repo =>
           cache.version <= cache'.version]_policyVars
  BY AllNoOlderKept
<1> QED
  BY <1>1, <1>2, <1>3, PolicyInvHolds, PTL DEF PolicySpec

-----------------------------------------------------------------------------
(* The release gate.                                                       *)

GateInv ==
  /\ evaluation \in Documents \cup {Nobody}
  /\ GateTellsFacts
  /\ RecordMeetsPolicy
  /\ ExceptionWithinGrant

LEMMA GateInvStarts == GateInit => GateInv
BY DEF GateInit, GateInv, GateTellsFacts, RecordMeetsPolicy, ExceptionWithinGrant, NoGate, NoGrant

\* What a document that parses tells with the two decisions that are about facts.
LEMMA ParsedTells ==
  ASSUME NEW d \in Documents, Parsed(d)
  PROVE  /\ ExitCode[d.decision] = 0 =>
              /\ d.match = "matched" /\ d.observed = "same"
              /\ \A k \in DOMAIN d.checks :
                   LET c == d.checks[k] IN c.status = "satisfied" /\ c.evidence /\ c.until > d.at
         /\ ExitCode[d.decision] = 1 =>
              \A k \in DOMAIN d.checks :
                d.checks[k].level # "advisory" => d.checks[k].status \in {"satisfied", "failed"}
<1>1. IsDocument(d) /\ Consistent(d) /\ d.decision = Derive(d)
  BY GateDocuments DEF Parsed
<1>2. \A k \in DOMAIN d.checks : d.checks[k] \in Claim
  BY <1>1 DEF IsDocument
<1>3. /\ ExitCode[d.decision] = 0 => d.decision = "PASS"
      /\ ExitCode[d.decision] = 1 => d.decision = "BLOCK"
  BY <1>1 DEF IsDocument, Decisions, ExitCode
<1>4. ASSUME d.decision = "PASS", NEW k \in DOMAIN d.checks
      PROVE  d.match = "matched" /\ d.checks[k].status = "satisfied"
  BY <1>1, <1>2, <1>4 DEF Derive, Claim, Levels, Statuses, Unavailable
<1>5. ASSUME d.decision = "PASS"
      PROVE  d.match = "matched" /\ d.observed = "same"
  BY <1>1, <1>4, <1>5 DEF Derive, Consistent
<1>6. ASSUME d.decision = "PASS", NEW k \in DOMAIN d.checks
      PROVE  d.checks[k].evidence /\ d.checks[k].until > d.at
  <2>1. WellFormed(d.checks[k]) /\ FreshAt(d.checks[k], d.at) /\ d.checks[k].status = "satisfied"
    BY <1>1, <1>4, <1>6 DEF Consistent
  <2> QED
    BY <2>1 DEF WellFormed, FreshAt
<1>7. ASSUME d.decision = "BLOCK", NEW k \in DOMAIN d.checks, d.checks[k].level # "advisory"
      PROVE  d.checks[k].status \in {"satisfied", "failed"}
  BY <1>1, <1>2, <1>7 DEF Derive, Claim, Levels, Statuses, Unavailable
<1> QED
  BY <1>3, <1>4, <1>5, <1>6, <1>7

LEMMA CheckPolicyKeeps ==
  ASSUME GateInv, CheckPolicy
  PROVE  GateInv'
<1>1. evaluation' = evaluation /\ grant' = grant /\ gate'.of = evaluation /\ gate'.by = "cli"
  BY DEF CheckPolicy
<1>2. CASE Parsed(evaluation)
  <2>1. evaluation \in Documents /\ gate'.code = ExitCode[evaluation.decision]
    BY <1>2 DEF GateInv, Parsed, CheckPolicy
  <2>2. GateTellsFacts'
    BY <1>1, <1>2, <2>1, ParsedTells DEF GateTellsFacts
  <2> QED
    BY <1>1, <2>2 DEF GateInv, RecordMeetsPolicy, ExceptionWithinGrant
<1>3. CASE ~Parsed(evaluation)
  BY <1>1, <1>3 DEF GateInv, CheckPolicy, GateTellsFacts, RecordMeetsPolicy, ExceptionWithinGrant
<1> QED
  BY <1>2, <1>3

LEMMA CheckSnapshotKeeps ==
  ASSUME GateInv, NEW k \in Checks, CheckSnapshot(k)
  PROVE  GateInv'
<1>1. Derive(WithoutEvaluation(k)) = "INCOMPLETE"
  <2>1. /\ WithoutEvaluation(k).match = "matched" /\ k \in DOMAIN WithoutEvaluation(k).checks
        /\ WithoutEvaluation(k).checks[k].level = "block"
        /\ WithoutEvaluation(k).checks[k].status = "unsupported"
    BY DEF WithoutEvaluation
  <2> QED
    BY <2>1 DEF Derive, Unavailable
<1>2. gate'.code = 3 /\ gate'.by = "cli" /\ evaluation' = evaluation /\ grant' = grant
  BY <1>1 DEF CheckSnapshot, ExitCode
<1> QED
  BY <1>2 DEF GateInv, GateTellsFacts, RecordMeetsPolicy, ExceptionWithinGrant

LEMMA ExplainPolicyKeeps ==
  ASSUME GateInv, ExplainPolicy
  PROVE  GateInv'
<1>1. /\ evaluation \in Documents /\ Parsed(evaluation) /\ Bound(evaluation)
      /\ gate'.code = ExitCode[evaluation.decision] /\ gate'.of = evaluation
      /\ evaluation' = evaluation /\ grant' = grant
  BY DEF ExplainPolicy, GateInv, Parsed
<1>2. GateTellsFacts'
  BY <1>1, ParsedTells DEF GateTellsFacts
<1>3. RecordMeetsPolicy'
  BY <1>1, ParsedTells DEF RecordMeetsPolicy, Bound
<1> QED
  BY <1>1, <1>2, <1>3 DEF GateInv, ExceptionWithinGrant

LEMMA UseExceptionKeeps ==
  ASSUME GateInv, NEW e \in Exception, NEW a \in Approval, NEW t \in Instants, NEW s \in BOOLEAN,
         UseException(e, a, t, s)
  PROVE  GateInv'
<1>1. /\ grant'.applicable = Applies(e, a, t, s) /\ grant'.shown = WithinWindow(e, a, t)
      /\ grant'.e = e /\ grant'.a = a /\ grant'.t = t /\ grant'.inScope = s
  BY DEF UseException
<1>2. WithinWindow(e, a, t) /\ s <=> Applies(e, a, t, s)
  BY DEF WithinWindow, Applies, DecidedFor
<1>3. Applies(e, a, t, s) => e.requested <= a.decided /\ t \in e.from..(e.expires - 1) /\ t < a.until /\ s
  BY GateConstants DEF Applies, Exception, Instants
<1>4. ExceptionWithinGrant'
  BY <1>1, <1>2, <1>3 DEF ExceptionWithinGrant
<1> QED
  BY <1>4 DEF UseException, GateInv, GateTellsFacts, RecordMeetsPolicy

LEMMA GateInvKept == GateInv /\ [GateNext]_gateVars => GateInv'
<1> SUFFICES ASSUME GateInv, [GateNext]_gateVars
             PROVE  GateInv'
  OBVIOUS
<1>1. CASE \/ \E d \in Documents : WriteEvaluation(d)
           \/ \E r \in Referred, t \in Instants : CreateRelease(r, t)
           \/ UNCHANGED gateVars
  BY <1>1 DEF WriteEvaluation, CreateRelease, gateVars, GateInv, GateTellsFacts, RecordMeetsPolicy,
     ExceptionWithinGrant
<1>2. CASE CheckPolicy
  BY <1>2, CheckPolicyKeeps
<1>3. CASE \E k \in Checks : CheckSnapshot(k)
  BY <1>3, CheckSnapshotKeeps
<1>4. CASE ExplainPolicy
  BY <1>4, ExplainPolicyKeeps
<1>5. CASE \E e \in Exception, a \in Approval, t \in Instants, s \in BOOLEAN : UseException(e, a, t, s)
  BY <1>5, UseExceptionKeeps
<1> QED
  BY <1>1, <1>2, <1>3, <1>4, <1>5 DEF GateNext

LEMMA GateInvHolds == GateSpec => []GateInv
<1>1. GateInit => GateInv
  BY GateInvStarts
<1>2. GateInv /\ [GateNext]_gateVars => GateInv'
  BY GateInvKept
<1> QED
  BY <1>1, <1>2, PTL DEF GateSpec

(* PASS and BLOCK mean what the document's own facts say, whoever wrote or *)
(* edited it (policy check and the policy tool of the MCP server).         *)
THEOREM GateTellsFactsHolds == GateSpec => []GateTellsFacts
<1>1. GateInv => GateTellsFacts
  BY DEF GateInv
<1> QED
  BY <1>1, GateInvHolds, PTL

(* A record that the MCP policy tool reports as passed has satisfied every *)
(* check of the policy at the policy's own level.                          *)
THEOREM RecordMeetsPolicyHolds == GateSpec => []RecordMeetsPolicy
<1>1. GateInv => RecordMeetsPolicy
  BY DEF GateInv
<1> QED
  BY <1>1, GateInvHolds, PTL

(* An exception applies only inside its own window and that of its         *)
(* approval, and is shown as applying at the same instants.                *)
THEOREM ExceptionHolds == GateSpec => []ExceptionWithinGrant
<1>1. GateInv => ExceptionWithinGrant
  BY DEF GateInv
<1> QED
  BY <1>1, GateInvHolds, PTL

====
