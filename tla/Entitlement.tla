----------------------------- MODULE Entitlement -----------------------------
(***************************************************************************)
(* What plan a gated CLI command runs under.  resolveEntitlement of        *)
(* packages/cli/src/entitlement.ts runs two tasks at once: loadCapabilities *)
(* (the server, backed by ~/.verglos/capabilities.json) and                *)
(* getVerifiedLicense (the signed token of the credential file, backed by  *)
(* the offline-grace file ~/.verglos/entitlement.json of                   *)
(* packages/entitlement/src/client.ts), and combines their answers.        *)
(*                                                                         *)
(* Several processes share the three files.  The server may cancel or      *)
(* renew a subscription at any time and may be unreachable at any time.    *)
(***************************************************************************)
EXTENDS Integers, FiniteSets

CONSTANTS
  Processes,   \* CLI processes
  Keys,        \* license keys
  Grace,       \* ABSOLUTE_MAX_STALE_MS = OFFLINE_GRACE_MS, seven days
  Ttls,        \* cache lifetimes the server may choose
  Lifetimes,   \* token lifetimes the server may choose
  Versions,    \* token versions the server issues: TRUE for v2, FALSE for legacy
  MaxLife,     \* the longest remaining lifetime verifyEntitlement accepts
  Simulations, \* as_plan requests a founder may make; {} for none
  WriteFaults, \* TRUE: writing a cache file may fail (both failures are swallowed)
  MaxTime      \* bound of the model: the clock stops here

ASSUME EntitlementConstants ==
  /\ Grace \in Nat \ {0}
  /\ Ttls \subseteq Nat
  /\ Lifetimes \subseteq Nat \ {0}
  /\ MaxLife \in Nat
  /\ Versions \subseteq BOOLEAN
  /\ MaxTime \in Nat \ {0}
  /\ WriteFaults \in BOOLEAN
  /\ "none" \notin Keys
  /\ "none" \notin Simulations

VARIABLES
  now,         \* the wall clock
  active,      \* server: which keys have an active paid subscription
  lastActive,  \* history: the last instant each key was active; 0 if never
  refusedAt,   \* history: since when capabilities.json says the key is inactive; 0 if it does not
  creds,       \* credentials.json: license key and entitlement token
  caps,        \* capabilities.json
  grace,       \* entitlement.json: the token last verified and when
  cpc, lpc,    \* where the two tasks of each process are
  req,         \* what loadCapabilities was asked and has read; history: the refusals it found
  ans,         \* what loadCapabilities returned
  lic,         \* what getVerifiedLicense returned
  resolved     \* what resolveEntitlement returned, until the next call

vars == <<now, active, lastActive, refusedAt, creds, caps, grace, cpc, lpc, req, ans, lic,
          resolved>>
server == <<active, lastActive>>
files == <<creds, caps, grace>>

None == "none"
Nothing == [none |-> TRUE]

Tokens == [key : Keys, iat : 0..MaxTime, exp : Int, v2 : BOOLEAN]
CapsEntries == [scope : Keys \cup {None}, active : BOOLEAN, as : Simulations \cup {None},
                fetchedAt : 0..MaxTime, expiresAt : Int]

Unrefused == [k \in Keys |-> 0]

Free == [paid |-> FALSE, source |-> "free", key |-> None, at |-> 0, as |-> None,
         iat |-> 0, exp |-> 0]

Init ==
  /\ now = 1
  /\ active = [k \in Keys |-> TRUE]
  /\ lastActive = [k \in Keys |-> 1]
  /\ refusedAt = Unrefused
  /\ creds = [key |-> None, token |-> Nothing]
  /\ caps = Nothing
  /\ grace = Nothing
  /\ cpc = [p \in Processes |-> "idle"]
  /\ lpc = [p \in Processes |-> "idle"]
  /\ req = [p \in Processes |-> Nothing]
  /\ ans = [p \in Processes |-> Nothing]
  /\ lic = [p \in Processes |-> Nothing]
  /\ resolved = [p \in Processes |-> Free]

-----------------------------------------------------------------------------
(* The environment: time, the subscription service, and the two commands   *)
(* that change the stored key (Credentials has their interleavings).       *)

Tick ==
  /\ now < MaxTime
  /\ now' = now + 1
  /\ lastActive' = [k \in Keys |-> IF active[k] THEN now + 1 ELSE lastActive[k]]
  /\ UNCHANGED <<active, refusedAt, creds, caps, grace, cpc, lpc, req, ans, lic, resolved>>

Cancel(k) ==
  /\ active[k]
  /\ active' = [active EXCEPT ![k] = FALSE]
  /\ UNCHANGED <<now, lastActive, refusedAt, creds, caps, grace, cpc, lpc, req, ans, lic,
                 resolved>>

Renew(k) ==
  /\ ~active[k]
  /\ active' = [active EXCEPT ![k] = TRUE]
  /\ lastActive' = [lastActive EXCEPT ![k] = now]
  /\ UNCHANGED <<now, refusedAt, creds, caps, grace, cpc, lpc, req, ans, lic, resolved>>

\* login: the key changes and the old token stays.
Login(p, k) ==
  /\ cpc[p] = "idle"
  /\ active[k]
  /\ creds' = [creds EXCEPT !.key = k]
  /\ UNCHANGED <<now, server, refusedAt, caps, grace, cpc, lpc, req, ans, lic, resolved>>

\* activate: the server validates the key and issues a v2 or a legacy token.
Activate(p, k, v2, life) ==
  /\ cpc[p] = "idle"
  /\ active[k]
  /\ creds' = [key |-> k, token |-> [key |-> k, iat |-> now, exp |-> now + life, v2 |-> v2]]
  /\ UNCHANGED <<now, server, refusedAt, caps, grace, cpc, lpc, req, ans, lic, resolved>>

-----------------------------------------------------------------------------
(* loadCapabilities.                                                       *)

\* Mutant: a cache entry is usable for as long as the server said, however old it is.
UsableAnyAge(c, k, t) ==
  /\ c # Nothing
  /\ c.scope = k
  /\ t - c.fetchedAt >= 0

\* The cache entry may be used at all: this credential scope, not too old.
Usable(c, k, t) ==
  /\ c # Nothing
  /\ c.scope = k
  /\ t - c.fetchedAt >= 0
  /\ t - c.fetchedAt < Grace

FromCache(c, t) == [paid |-> c.active /\ c.scope # None, active |-> c.active, source |-> "cache",
                    key |-> c.scope, as |-> c.as, at |-> t, fetchedAt |-> c.fetchedAt]
FreeFallback(t) == [paid |-> FALSE, active |-> TRUE, source |-> "free", key |-> None,
                    as |-> None, at |-> t, fetchedAt |-> 0]

(* Both tasks start in one synchronous block and read the credentials;     *)
(* loadCapabilities samples the clock once, for all its decisions.         *)
StartResolve(p, force, as) ==
  /\ cpc[p] = "idle"
  /\ cpc' = [cpc EXCEPT ![p] = "reading"]
  /\ lpc' = [lpc EXCEPT ![p] = "todo"]
  /\ req' = [req EXCEPT ![p] = [key |-> creds.key, token |-> creds.token, as |-> as, at |-> now,
                                force |-> force, cached |-> Nothing, refused |-> Unrefused]]
  /\ resolved' = [resolved EXCEPT ![p] = Free]
  /\ UNCHANGED <<now, server, refusedAt, files, ans, lic>>

(* A fresh cache of the same simulation answers the call unless a refresh  *)
(* is forced.  A cache written since the clock was sampled has a negative  *)
(* age and is not used.                                                    *)
ReadCaps(p) ==
  /\ cpc[p] = "reading"
  /\ LET r == req[p]
         usable == Usable(caps, r.key, r.at)
         fresh == usable /\ caps.expiresAt > r.at /\ caps.as = r.as
     IN  \/ /\ ~r.force /\ fresh
            /\ cpc' = [cpc EXCEPT ![p] = "done"]
            /\ ans' = [ans EXCEPT ![p] = FromCache(caps, r.at)]
            /\ UNCHANGED req
         \/ /\ r.force \/ ~fresh
            /\ cpc' = [cpc EXCEPT ![p] = "fetching"]
            /\ req' = [req EXCEPT ![p].cached = IF usable THEN caps ELSE Nothing,
                                  ![p].refused = refusedAt]
            /\ UNCHANGED ans
  /\ UNCHANGED <<now, server, refusedAt, files, lpc, lic, resolved>>

\* The server's word on key k: inactive keys have no plan, no key has Free.
Subscribed(k) == k = None \/ active[k]

(* A valid answer arrives: it is stamped with the time the call started.   *)
ServerAnswers(p) ==
  /\ cpc[p] = "fetching"
  /\ LET r == req[p] IN
     ans' = [ans EXCEPT ![p] = [paid |-> Subscribed(r.key) /\ r.key # None,
                                active |-> Subscribed(r.key), source |-> "rest",
                                key |-> r.key, as |-> r.as, at |-> r.at, fetchedAt |-> r.at]]
  /\ cpc' = [cpc EXCEPT ![p] = "writing"]
  /\ UNCHANGED <<now, server, refusedAt, files, lpc, req, lic, resolved>>

\* Unreachable, refused or malformed: the usable cache of this simulation, or Free.
ServerFails(p) ==
  /\ cpc[p] = "fetching"
  /\ LET r == req[p] IN
     ans' = [ans EXCEPT ![p] = IF r.cached # Nothing /\ r.cached.as = r.as
                               THEN FromCache(r.cached, r.at)
                               ELSE FreeFallback(r.at)]
  /\ cpc' = [cpc EXCEPT ![p] = "done"]
  /\ UNCHANGED <<now, server, refusedAt, files, lpc, req, lic, resolved>>

\* The entry writeCache stores: an answer, and until when it is fresh.
CapsEntry(a, ttl) == [scope |-> a.key, active |-> a.active, as |-> a.as, fetchedAt |-> a.at,
                      expiresAt |-> a.at + ttl]

\* The keys the file records as refused once answer a is in it, and since when.
Refusals(a) ==
  [k \in Keys |-> IF a.key = k /\ a.as = None /\ ~a.active THEN a.at ELSE 0]

\* Mutant: only an active answer is cached.
WriteActiveCaps(p, ttl) ==
  /\ cpc[p] = "writing"
  /\ caps' = IF ans[p].active THEN CapsEntry(ans[p], ttl) ELSE caps
  /\ refusedAt' = Refusals(ans[p])
  /\ cpc' = [cpc EXCEPT ![p] = "done"]
  /\ UNCHANGED <<now, server, creds, grace, lpc, req, ans, lic, resolved>>

\* writeCache renames a new capabilities.json over the old one.
WriteCaps(p, ttl) ==
  /\ cpc[p] = "writing"
  /\ caps' = CapsEntry(ans[p], ttl)
  /\ refusedAt' = Refusals(ans[p])
  /\ cpc' = [cpc EXCEPT ![p] = "done"]
  /\ UNCHANGED <<now, server, creds, grace, lpc, req, ans, lic, resolved>>

\* "non-fatal - next call will just re-fetch": the old file stays.
WriteCapsFails(p) ==
  /\ WriteFaults
  /\ cpc[p] = "writing"
  /\ cpc' = [cpc EXCEPT ![p] = "done"]
  /\ UNCHANGED <<now, server, refusedAt, files, lpc, req, ans, lic, resolved>>

-----------------------------------------------------------------------------
(* getVerifiedLicense and verifyEntitlement.                               *)

Unlicensed == [ok |-> FALSE, token |-> Nothing, at |-> 0]

\* A stored token of accepted lifetime grants something only to the stored key.
Acceptable(r) == r.token.key = r.key

(* A token that has not expired is written to the grace file, which is     *)
(* truncated first and written after.                                      *)
VerifyFresh(p) ==
  /\ lpc[p] = "todo"
  /\ req[p].token # Nothing /\ req[p].key # None
  /\ req[p].token.exp - now <= MaxLife
  /\ req[p].token.exp >= now
  /\ grace' = Nothing
  /\ lpc' = [lpc EXCEPT ![p] = "remembering"]
  /\ lic' = [lic EXCEPT ![p] = [ok |-> Acceptable(req[p]), token |-> req[p].token,
                                at |-> now]]
  /\ UNCHANGED <<now, server, refusedAt, creds, caps, cpc, req, ans, resolved>>

RememberToken(p) ==
  /\ lpc[p] = "remembering"
  /\ grace' = [token |-> lic[p].token, at |-> lic[p].at]
  /\ lpc' = [lpc EXCEPT ![p] = "done"]
  /\ UNCHANGED <<now, server, refusedAt, creds, caps, cpc, req, ans, lic, resolved>>

\* The write fails after the file was truncated: no offline grace.
RememberFails(p) ==
  /\ WriteFaults
  /\ lpc[p] = "remembering"
  /\ lpc' = [lpc EXCEPT ![p] = "done"]
  /\ UNCHANGED <<now, server, refusedAt, files, cpc, req, ans, lic, resolved>>

\* Mutant: a token that was verified once stays valid.
RemembersForever(g, tok, t) == g # Nothing /\ g.token = tok

\* The grace file vouches for this very token, verified less than Grace ago.
Remembers(g, tok, t) ==
  /\ g # Nothing
  /\ g.token = tok
  /\ t - g.at < Grace

\* An expired token is valid only within its offline grace.
VerifyExpired(p) ==
  /\ lpc[p] = "todo"
  /\ req[p].token # Nothing /\ req[p].key # None
  /\ req[p].token.exp < now
  /\ lic' = [lic EXCEPT ![p] =
               [ok |-> Acceptable(req[p]) /\ Remembers(grace, req[p].token, now),
                token |-> req[p].token, at |-> now]]
  /\ lpc' = [lpc EXCEPT ![p] = "done"]
  /\ UNCHANGED <<now, server, refusedAt, files, cpc, req, ans, resolved>>

\* No token, no key, or a token that outlives the accepted lifetime.
VerifyNothing(p) ==
  /\ lpc[p] = "todo"
  /\ \/ req[p].token = Nothing \/ req[p].key = None
     \/ req[p].token # Nothing /\ req[p].token.exp - now > MaxLife
  /\ lic' = [lic EXCEPT ![p] = Unlicensed]
  /\ lpc' = [lpc EXCEPT ![p] = "done"]
  /\ UNCHANGED <<now, server, refusedAt, files, cpc, req, ans, resolved>>

-----------------------------------------------------------------------------
(* resolveEntitlement: both answers are in.                                *)

FromServer(a) == [paid |-> a.paid, source |-> a.source, key |-> a.key, at |-> a.at,
                  as |-> a.as, iat |-> 0, exp |-> 0]
FromToken(l) == [paid |-> TRUE, source |-> "signed-token", key |-> l.token.key, at |-> l.at,
                 as |-> None, iat |-> l.token.iat, exp |-> l.token.exp]

(* The server, then an active cache unless a newer v2 token replaces it,   *)
(* then a v2 token alone; a legacy token grants nothing.                   *)
Authority(a, l) ==
  LET v2 == l.ok /\ l.token.v2 IN
  IF \/ a.source = "rest"
     \/ a.source = "cache" /\ (~a.active \/ ~v2 \/ l.token.iat <= a.fetchedAt)
     \/ a.source = "free" /\ ~v2
  THEN FromServer(a)
  ELSE FromToken(l)

Combine(p) ==
  /\ cpc[p] = "done" /\ lpc[p] = "done"
  /\ resolved' = [resolved EXCEPT ![p] = Authority(ans[p], lic[p])]
  /\ cpc' = [cpc EXCEPT ![p] = "idle"]
  /\ lpc' = [lpc EXCEPT ![p] = "idle"]
  /\ req' = [req EXCEPT ![p] = Nothing]
  /\ ans' = [ans EXCEPT ![p] = Nothing]
  /\ lic' = [lic EXCEPT ![p] = Nothing]
  /\ UNCHANGED <<now, server, refusedAt, files>>

\* The process dies; a grace file truncated by it stays empty.
Crash(p) ==
  /\ cpc[p] # "idle"
  /\ cpc' = [cpc EXCEPT ![p] = "idle"]
  /\ lpc' = [lpc EXCEPT ![p] = "idle"]
  /\ req' = [req EXCEPT ![p] = Nothing]
  /\ ans' = [ans EXCEPT ![p] = Nothing]
  /\ lic' = [lic EXCEPT ![p] = Nothing]
  /\ UNCHANGED <<now, server, refusedAt, files, resolved>>

Next ==
  \/ Tick
  \/ \E k \in Keys : Cancel(k)
  \/ \E k \in Keys : Renew(k)
  \/ \E p \in Processes :
       \/ \E k \in Keys : Login(p, k)
       \/ \E k \in Keys, v2 \in Versions, life \in Lifetimes : Activate(p, k, v2, life)
       \/ \E force \in BOOLEAN, as \in Simulations \cup {None} : StartResolve(p, force, as)
       \/ ReadCaps(p)
       \/ ServerAnswers(p)
       \/ ServerFails(p)
       \/ \E ttl \in Ttls : WriteCaps(p, ttl)
       \/ WriteCapsFails(p)
       \/ VerifyFresh(p)
       \/ RememberToken(p)
       \/ RememberFails(p)
       \/ VerifyExpired(p)
       \/ VerifyNothing(p)
       \/ Combine(p)
       \/ Crash(p)

Spec == Init /\ [][Next]_vars

-----------------------------------------------------------------------------
Requests == [key : Keys \cup {None}, token : Tokens \cup {Nothing},
             as : Simulations \cup {None}, at : 1..MaxTime, force : BOOLEAN,
             cached : CapsEntries \cup {Nothing}, refused : [Keys -> 0..MaxTime]]
Answers == [paid : BOOLEAN, active : BOOLEAN, source : {"rest", "cache", "free"},
            key : Keys \cup {None}, as : Simulations \cup {None}, at : 1..MaxTime,
            fetchedAt : 0..MaxTime]
Licenses == {l \in [ok : BOOLEAN, token : Tokens \cup {Nothing}, at : 0..MaxTime] : l.ok => l.token # Nothing}
Resolutions == [paid : BOOLEAN, source : {"rest", "cache", "free", "signed-token"},
                key : Keys \cup {None}, at : 0..MaxTime, as : Simulations \cup {None},
                iat : 0..MaxTime, exp : Int]

(* The files, and what each task holds at each point of its run: no call   *)
(* finishes without an answer to combine.                                  *)
TypeOK ==
  /\ now \in 1..MaxTime
  /\ active \in [Keys -> BOOLEAN]
  /\ lastActive \in [Keys -> 1..MaxTime]
  /\ refusedAt \in [Keys -> 0..MaxTime]
  /\ creds \in [key : Keys \cup {None}, token : Tokens \cup {Nothing}]
  /\ caps \in CapsEntries \cup {Nothing}
  /\ grace \in [token : Tokens, at : 1..MaxTime] \cup {Nothing}
  /\ cpc \in [Processes -> {"idle", "reading", "fetching", "writing", "done"}]
  /\ lpc \in [Processes -> {"idle", "todo", "remembering", "done"}]
  /\ req \in [Processes -> Requests \cup {Nothing}]
  /\ ans \in [Processes -> Answers \cup {Nothing}]
  /\ lic \in [Processes -> Licenses \cup {Nothing}]
  /\ resolved \in [Processes -> Resolutions]
  /\ \A p \in Processes :
       /\ cpc[p] = "idle" <=> lpc[p] = "idle"
       /\ req[p] = Nothing <=> cpc[p] = "idle"
       /\ ans[p] = Nothing <=> cpc[p] \in {"idle", "reading", "fetching"}
       /\ lic[p] = Nothing <=> lpc[p] \in {"idle", "todo"}
       /\ lpc[p] = "remembering" => lic[p].token # Nothing /\ lic[p].at > 0

(* An answer loadCapabilities returns is about the license key and the     *)
(* simulation the call was made for, whatever other calls, logins and      *)
(* simulations have written the one cache file: "Bind both online and      *)
(* offline reuse to the request identity".                                 *)
AnsweredAsAsked ==
  \A p \in Processes :
    cpc[p] \in {"writing", "done"} /\ ans[p].source # "free"
      => ans[p].key = req[p].key /\ ans[p].as = req[p].as

(* A paid plan resolved from the server or from its cache belongs to a key *)
(* whose subscription was active less than Grace before the call: a        *)
(* cancelled license keeps its plan offline for at most that long, even if *)
(* the server allowed the answer to be cached longer.                      *)
PaidFromServerIsRecent ==
  \A p \in Processes :
    LET r == resolved[p] IN
    r.paid /\ r.source \in {"rest", "cache"} => r.at - lastActive[r.key] < Grace

(* A paid plan resolved from the signed token is used less than Grace      *)
(* after that token's own expiry, whatever the grace file, which several   *)
(* processes truncate and write, holds.                                    *)
PaidFromTokenIsBounded ==
  \A p \in Processes :
    LET r == resolved[p] IN r.source = "signed-token" => r.at - r.exp < Grace

(* However a plan is resolved, from the server, its cache, the signed      *)
(* token or its offline grace, and however often the license key changed:  *)
(* it is used less than Grace, and the lifetime of the token it rests on,  *)
(* after its key was last subscribed.  A cancelled plan ends.  An answer  *)
(* of the server or its cache rests on no token: PaidFromServerIsRecent.   *)
CancelledPlanEnds ==
  \A p \in Processes :
    LET r == resolved[p] IN
    r.paid => r.at < lastActive[r.key] + (r.exp - r.iat) + Grace

(* For Grace after a refusal that capabilities.json records when a call    *)
(* reads it, a call for the real plan is not answered with a signed token  *)
(* of that key, valid as the token still is.  (A refusal that is written   *)
(* after the call sampled the clock is not used; a simulated call ignores  *)
(* the entry, and its own entry replaces it.)                              *)
RefusalHolds ==
  \A p \in Processes :
    cpc[p] = "done" /\ lpc[p] = "done" /\ req[p].as = None =>
      LET r == Authority(ans[p], lic[p])
          t == req[p].refused[r.key] IN
      r.source = "signed-token" /\ 0 < t /\ t <= req[p].at => req[p].at - t >= Grace
=============================================================================
