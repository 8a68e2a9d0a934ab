------------------------- MODULE CachedAnswersProofs -------------------------
(***************************************************************************)
(* Theorems about the two users of cached answers, for every instance of   *)
(* their constants: Entitlement first, then DependencyScan.                *)
(***************************************************************************)
EXTENDS Entitlement, DependencyScan, FiniteSetTheorems, TLAPS

(* The plan of the license. *)

LEMMA NothingIsNothing ==
  /\ Nothing \notin Tokens /\ Nothing \notin CapsEntries /\ Nothing \notin Requests
  /\ Nothing \notin Answers /\ Nothing \notin Licenses
  /\ Nothing \notin [token : Tokens, at : 1..MaxTime]
BY DEF Nothing, Tokens, CapsEntries, Requests, Answers, Licenses

LEMMA FromCacheType ==
  ASSUME NEW c \in CapsEntries, NEW t \in 1..MaxTime
  PROVE  FromCache(c, t) \in Answers
BY DEF FromCache, CapsEntries, Answers

LEMMA FreeFallbackType ==
  ASSUME NEW t \in 1..MaxTime
  PROVE  FreeFallback(t) \in Answers
BY EntitlementConstants DEF FreeFallback, Answers

LEMMA CapsEntryType ==
  ASSUME NEW a \in Answers, NEW ttl \in Ttls
  PROVE  CapsEntry(a, ttl) \in CapsEntries
BY EntitlementConstants DEF CapsEntry, Answers, CapsEntries

(* The three files, the server and both tasks of every call stay well      *)
(* typed, and each task holds exactly what its program point says.         *)
THEOREM TypeCorrect == Spec => []TypeOK
<1>1. Init => TypeOK
  BY EntitlementConstants, NothingIsNothing
  DEF Init, TypeOK, Free, Resolutions, Unrefused
<1>2. TypeOK /\ [Next]_vars => TypeOK'
  <2> SUFFICES ASSUME TypeOK, [Next]_vars PROVE TypeOK'
    OBVIOUS
  <2> USE EntitlementConstants DEF server, files
  <2>1. CASE Tick
    BY <2>1 DEF Tick, TypeOK
  <2>2. ASSUME NEW k \in Keys, Cancel(k) \/ Renew(k) PROVE TypeOK'
    <3>1. active' \in [Keys -> BOOLEAN]
      BY <2>2 DEF Cancel, Renew, TypeOK
    <3>2. lastActive' \in [Keys -> 1..MaxTime]
      BY <2>2 DEF Cancel, Renew, TypeOK
    <3> QED
      BY <2>2, <3>1, <3>2 DEF Cancel, Renew, TypeOK
  <2>3. ASSUME NEW p \in Processes, NEW k \in Keys, Login(p, k) PROVE TypeOK'
    BY <2>3 DEF Login, TypeOK
  <2>4. ASSUME NEW p \in Processes, NEW k \in Keys, NEW v2 \in Versions, NEW life \in Lifetimes,
               Activate(p, k, v2, life)
        PROVE  TypeOK'
    <3>1. [key |-> k, iat |-> now, exp |-> now + life, v2 |-> v2] \in Tokens
      BY DEF TypeOK, Tokens
    <3> QED
      BY <2>4, <3>1 DEF Activate, TypeOK
  <2>5. ASSUME NEW p \in Processes, NEW force \in BOOLEAN, NEW as \in Simulations \cup {None},
               StartResolve(p, force, as)
        PROVE  TypeOK'
    <3> DEFINE r == [key |-> creds.key, token |-> creds.token, as |-> as, at |-> now,
                     force |-> force, cached |-> Nothing, refused |-> Unrefused]
    <3>0. creds.key \in Keys \cup {None} /\ creds.token \in Tokens \cup {Nothing} /\ now \in 1..MaxTime
      BY DEF TypeOK
    <3>11. Unrefused \in [Keys -> 0..MaxTime]
      BY DEF Unrefused
    <3>1. r \in Requests
      BY <3>0, <3>11 DEF Requests
    <3>4. r # Nothing
      BY <3>1, NothingIsNothing
    <3>2. Free \in Resolutions
      BY DEF Free, Resolutions
    <3>3. req' = [req EXCEPT ![p] = r]
      BY <2>5 DEF StartResolve
    <3> HIDE DEF r
    <3>5. req' \in [Processes -> Requests \cup {Nothing}]
      BY <3>1, <3>3 DEF TypeOK
    <3>6. resolved' \in [Processes -> Resolutions]
      BY <2>5, <3>2 DEF StartResolve, TypeOK
    <3>7. \A q \in Processes : req'[q] = IF q = p THEN r ELSE req[q]
      BY <3>3 DEF TypeOK
    <3>8. \A q \in Processes : /\ cpc'[q] = IF q = p THEN "reading" ELSE cpc[q]
                             /\ lpc'[q] = IF q = p THEN "todo" ELSE lpc[q]
      BY <2>5 DEF StartResolve, TypeOK
    <3>9. cpc[p] = "idle" /\ lpc[p] = "idle" /\ ans' = ans /\ lic' = lic
      BY <2>5 DEF StartResolve, TypeOK
    <3>10. \A q \in Processes :
             /\ cpc'[q] = "idle" <=> lpc'[q] = "idle"
             /\ req'[q] = Nothing <=> cpc'[q] = "idle"
             /\ ans'[q] = Nothing <=> cpc'[q] \in {"idle", "reading", "fetching"}
             /\ lic'[q] = Nothing <=> lpc'[q] \in {"idle", "todo"}
             /\ lpc'[q] = "remembering" => lic'[q].token # Nothing /\ lic'[q].at > 0
      BY <3>4, <3>7, <3>8, <3>9 DEF TypeOK
    <3> QED
      BY <2>5, <3>5, <3>6, <3>10 DEF StartResolve, TypeOK
  <2>6. ASSUME NEW p \in Processes, ReadCaps(p) PROVE TypeOK'
    <3> DEFINE usable == Usable(caps, req[p].key, req[p].at)
    <3>1. req[p] \in Requests
      BY <2>6 DEF ReadCaps, TypeOK
    <3>2. CASE cpc' = [cpc EXCEPT ![p] = "done"]
               /\ usable /\ ans' = [ans EXCEPT ![p] = FromCache(caps, req[p].at)]
               /\ UNCHANGED req
      <4>1. caps \in CapsEntries /\ req[p].at \in 1..MaxTime
        BY <3>1, <3>2 DEF Usable, TypeOK, Requests
      <4>2. FromCache(caps, req[p].at) \in Answers
        BY <4>1, FromCacheType
      <4>3. FromCache(caps, req[p].at) # Nothing
        BY <4>2, NothingIsNothing
      <4> QED
        BY <2>6, <3>2, <4>2, <4>3 DEF ReadCaps, TypeOK
    <3>3. CASE cpc' = [cpc EXCEPT ![p] = "fetching"]
               /\ req' = [req EXCEPT ![p].cached = IF usable THEN caps ELSE Nothing,
                                     ![p].refused = refusedAt]
               /\ UNCHANGED ans
      <4> DEFINE c == IF usable THEN caps ELSE Nothing
      <4>1. c \in CapsEntries \cup {Nothing}
        BY DEF TypeOK
      <4> HIDE DEF c
      <4> DEFINE r == [req[p] EXCEPT !.cached = c, !.refused = refusedAt]
      <4>2. r \in Requests
        BY <3>1, <4>1 DEF Requests, TypeOK
      <4>3. r # Nothing
        BY <4>2, NothingIsNothing
      <4>4. req' = [req EXCEPT ![p] = r]
        BY <3>3 DEF c
      <4> HIDE DEF r
      <4>5. cpc[p] = "reading" /\ cpc' = [cpc EXCEPT ![p] = "fetching"]
            /\ UNCHANGED <<now, active, lastActive, refusedAt, creds, caps, grace, lpc, lic,
                           resolved, ans>>
        BY <2>6, <3>3 DEF ReadCaps
      <4> QED
        BY <4>2, <4>3, <4>4, <4>5 DEF TypeOK
    <3> QED
      BY <2>6, <3>2, <3>3 DEF ReadCaps
  <2>7. ASSUME NEW p \in Processes, NEW a \in Answers, cpc[p] = "fetching",
               ans' = [ans EXCEPT ![p] = a], NEW pt \in {"writing", "done"},
               cpc' = [cpc EXCEPT ![p] = pt],
               UNCHANGED <<now, server, refusedAt, files, lpc, req, lic, resolved>>
        PROVE  TypeOK'
    BY <2>7, NothingIsNothing DEF TypeOK
  <2>8. ASSUME NEW p \in Processes, ServerAnswers(p) PROVE TypeOK'
    <3> DEFINE a == [paid |-> Subscribed(req[p].key) /\ req[p].key # None,
                     active |-> Subscribed(req[p].key), source |-> "rest", key |-> req[p].key,
                     as |-> req[p].as, at |-> req[p].at, fetchedAt |-> req[p].at]
    <3>1. req[p] \in Requests
      BY <2>8 DEF ServerAnswers, TypeOK
    <3>2. Subscribed(req[p].key) \in BOOLEAN
      BY <3>1 DEF Subscribed, TypeOK, Requests
    <3>3. a \in Answers
      BY <3>1, <3>2 DEF Requests, Answers
    <3>4. ans' = [ans EXCEPT ![p] = a]
      BY <2>8 DEF ServerAnswers
    <3> HIDE DEF a
    <3> QED
      BY <2>7, <2>8, <3>3, <3>4 DEF ServerAnswers
  <2>9. ASSUME NEW p \in Processes, ServerFails(p) PROVE TypeOK'
    <3> DEFINE a == IF req[p].cached # Nothing /\ req[p].cached.as = req[p].as
                    THEN FromCache(req[p].cached, req[p].at) ELSE FreeFallback(req[p].at)
    <3>1. req[p] \in Requests
      BY <2>9 DEF ServerFails, TypeOK
    <3>2. req[p].at \in 1..MaxTime /\ req[p].cached \in CapsEntries \cup {Nothing}
      BY <3>1 DEF Requests
    <3>3. a \in Answers
      BY <3>2, FromCacheType, FreeFallbackType
    <3>4. ans' = [ans EXCEPT ![p] = a]
      BY <2>9 DEF ServerFails
    <3> HIDE DEF a
    <3> QED
      BY <2>7, <2>9, <3>3, <3>4 DEF ServerFails
  <2>10. ASSUME NEW p \in Processes, NEW ttl \in Ttls, WriteCaps(p, ttl) PROVE TypeOK'
    <3>1. ans[p] \in Answers
      BY <2>10 DEF WriteCaps, TypeOK
    <3>2. CapsEntry(ans[p], ttl) \in CapsEntries
      BY <3>1, CapsEntryType
    <3>3. ans[p].at \in 1..MaxTime /\ ans[p].key \in Keys \cup {None}
      BY <3>1 DEF Answers
    <3>4. refusedAt' \in [Keys -> 0..MaxTime]
      BY <2>10, <3>3 DEF WriteCaps, Refusals
    <3> QED
      BY <2>10, <3>2, <3>4 DEF WriteCaps, TypeOK
  <2>11. ASSUME NEW p \in Processes, WriteCapsFails(p) PROVE TypeOK'
    BY <2>11 DEF WriteCapsFails, TypeOK
  <2>12. ASSUME NEW p \in Processes, NEW l \in Licenses, lpc[p] = "todo",
                lic' = [lic EXCEPT ![p] = l], NEW pt \in {"remembering", "done"},
                lpc' = [lpc EXCEPT ![p] = pt], grace' \in {grace, Nothing},
                pt = "remembering" => l.token # Nothing /\ l.at > 0,
                UNCHANGED <<now, server, refusedAt, creds, caps, cpc, req, ans, resolved>>
         PROVE  TypeOK'
    BY <2>12, NothingIsNothing DEF TypeOK
  <2>13. ASSUME NEW p \in Processes, VerifyFresh(p) PROVE TypeOK'
    <3> DEFINE l == [ok |-> Acceptable(req[p]), token |-> req[p].token, at |-> now]
    <3>1. req[p] \in Requests
      BY <2>13 DEF VerifyFresh, TypeOK
    <3>2. l \in Licenses
      BY <2>13, <3>1 DEF VerifyFresh, Requests, Licenses, Acceptable, TypeOK
    <3>3. lic' = [lic EXCEPT ![p] = l]
      BY <2>13 DEF VerifyFresh
    <3>4. l.token # Nothing /\ l.at > 0
      BY <2>13 DEF VerifyFresh, TypeOK
    <3> HIDE DEF l
    <3> QED
      BY <2>12, <2>13, <3>2, <3>3, <3>4 DEF VerifyFresh
  <2>14. ASSUME NEW p \in Processes, RememberToken(p) PROVE TypeOK'
    <3>1. lic[p] \in Licenses
      BY <2>14 DEF RememberToken, TypeOK
    <3> QED
      BY <2>14, <3>1 DEF RememberToken, TypeOK, Licenses
  <2>15. ASSUME NEW p \in Processes, RememberFails(p) PROVE TypeOK'
    BY <2>15 DEF RememberFails, TypeOK
  <2>16. ASSUME NEW p \in Processes, VerifyExpired(p) PROVE TypeOK'
    <3> DEFINE l == [ok |-> Acceptable(req[p]) /\ Remembers(grace, req[p].token, now),
                     token |-> req[p].token, at |-> now]
    <3>1. req[p] \in Requests
      BY <2>16 DEF VerifyExpired, TypeOK
    <3>2. l \in Licenses
      BY <2>16, <3>1 DEF VerifyExpired, Requests, Licenses, Acceptable, Remembers, TypeOK
    <3>3. lic' = [lic EXCEPT ![p] = l]
      BY <2>16 DEF VerifyExpired
    <3> HIDE DEF l
    <3> QED
      BY <2>12, <2>16, <3>2, <3>3 DEF VerifyExpired
  <2>17. ASSUME NEW p \in Processes, VerifyNothing(p) PROVE TypeOK'
    <3>1. Unlicensed \in Licenses
      BY DEF Unlicensed, Licenses
    <3> QED
      BY <2>12, <2>17, <3>1 DEF VerifyNothing
  <2>18. ASSUME NEW p \in Processes, cpc' = [cpc EXCEPT ![p] = "idle"],
                lpc' = [lpc EXCEPT ![p] = "idle"], req' = [req EXCEPT ![p] = Nothing],
                ans' = [ans EXCEPT ![p] = Nothing], lic' = [lic EXCEPT ![p] = Nothing],
                resolved' \in [Processes -> Resolutions],
                UNCHANGED <<now, server, refusedAt, files>>
         PROVE  TypeOK'
    BY <2>18 DEF TypeOK
  <2>19. ASSUME NEW p \in Processes, Combine(p) PROVE TypeOK'
    <3>1. ans[p] \in Answers /\ lic[p] \in Licenses
      BY <2>19 DEF Combine, TypeOK
    <3>2. FromServer(ans[p]) \in Resolutions
      BY <3>1 DEF FromServer, Answers, Resolutions
    <3>3. lic[p].ok => FromToken(lic[p]) \in Resolutions
      <4> SUFFICES ASSUME lic[p].ok PROVE FromToken(lic[p]) \in Resolutions
        OBVIOUS
      <4>1. lic[p].token \in Tokens /\ lic[p].at \in 0..MaxTime
        BY <3>1 DEF Licenses
      <4> QED
        BY <4>1 DEF FromToken, Tokens, Resolutions
    <3>4. Authority(ans[p], lic[p]) \in Resolutions
      BY <3>1, <3>2, <3>3 DEF Authority, Answers
    <3>5. resolved' \in [Processes -> Resolutions]
      BY <2>19, <3>4 DEF Combine, TypeOK
    <3> QED
      BY <2>18, <2>19, <3>5 DEF Combine
  <2>20. ASSUME NEW p \in Processes, Crash(p) PROVE TypeOK'
    BY <2>18, <2>20 DEF Crash, TypeOK
  <2>21. CASE UNCHANGED vars
    BY <2>21 DEF vars, TypeOK
  <2> QED
    BY <2>1, <2>2, <2>3, <2>4, <2>5, <2>6, <2>8, <2>9, <2>10, <2>11, <2>13, <2>14, <2>15, <2>16,
       <2>17, <2>19, <2>20, <2>21 DEF Next
<1> QED
  BY <1>1, <1>2, PTL DEF Spec

-----------------------------------------------------------------------------
\* What the grace file and the tasks know of a token they accepted.
VerifiedInTime ==
  /\ grace # Nothing => grace.at <= grace.token.exp
  /\ \A p \in Processes :
       /\ lpc[p] = "remembering" => lic[p].at <= lic[p].token.exp
       /\ lpc[p] \in {"remembering", "done"} /\ lic[p].ok => lic[p].at - lic[p].token.exp < Grace

LEMMA TokenStep ==
  ASSUME TypeOK, TypeOK', VerifiedInTime, PaidFromTokenIsBounded, [Next]_vars
  PROVE  VerifiedInTime' /\ PaidFromTokenIsBounded'
<1> USE EntitlementConstants DEF files, server
<1>1. ASSUME UNCHANGED <<grace, lpc, lic, resolved>>
      PROVE  VerifiedInTime' /\ PaidFromTokenIsBounded'
  BY <1>1 DEF VerifiedInTime, PaidFromTokenIsBounded
<1>2. ASSUME NEW p \in Processes, NEW force \in BOOLEAN, NEW as \in Simulations \cup {None},
             StartResolve(p, force, as)
      PROVE  VerifiedInTime' /\ PaidFromTokenIsBounded'
  <2>1. VerifiedInTime'
    BY <1>2 DEF StartResolve, VerifiedInTime, TypeOK
  <2>2. PaidFromTokenIsBounded'
    BY <1>2 DEF StartResolve, PaidFromTokenIsBounded, TypeOK, Free
  <2> QED
    BY <2>1, <2>2
<1>3. ASSUME NEW p \in Processes, VerifyFresh(p)
      PROVE  VerifiedInTime' /\ PaidFromTokenIsBounded'
  <2>1. lic'[p].at = now /\ lic'[p].token = req[p].token
    BY <1>3 DEF VerifyFresh, TypeOK
  <2>2. req[p].token \in Tokens
    BY <1>3 DEF VerifyFresh, TypeOK, Requests
  <2>3. req[p].token.exp \in Int /\ now \in Int /\ now <= req[p].token.exp
    BY <1>3, <2>2 DEF VerifyFresh, TypeOK, Tokens
  <2>4. lic'[p].at <= lic'[p].token.exp /\ lic'[p].at - lic'[p].token.exp < Grace
    BY <2>1, <2>3
  <2> QED
    BY <1>3, <2>4 DEF VerifyFresh, VerifiedInTime, PaidFromTokenIsBounded, TypeOK
<1>4. ASSUME NEW p \in Processes, RememberToken(p)
      PROVE  VerifiedInTime' /\ PaidFromTokenIsBounded'
  BY <1>4 DEF RememberToken, VerifiedInTime, PaidFromTokenIsBounded, TypeOK
<1>5. ASSUME NEW p \in Processes, RememberFails(p)
      PROVE  VerifiedInTime' /\ PaidFromTokenIsBounded'
  BY <1>5 DEF RememberFails, VerifiedInTime, PaidFromTokenIsBounded, TypeOK
<1>6. ASSUME NEW p \in Processes, VerifyExpired(p)
      PROVE  VerifiedInTime' /\ PaidFromTokenIsBounded'
  <2>1. lic'[p].at = now /\ lic'[p].token = req[p].token
        /\ (lic'[p].ok => Remembers(grace, req[p].token, now))
    <3> DEFINE ok == Acceptable(req[p]) /\ Remembers(grace, req[p].token, now)
    <3>1. lic'[p] = [ok |-> ok, token |-> req[p].token, at |-> now]
      BY <1>6 DEF VerifyExpired, TypeOK
    <3>2. ok => Remembers(grace, req[p].token, now)
      OBVIOUS
    <3> HIDE DEF ok
    <3> QED
      BY <3>1, <3>2
  <2>2. req[p].token \in Tokens /\ now \in Int
    BY <1>6 DEF VerifyExpired, TypeOK, Requests
  <2>3. lic'[p].ok => lic'[p].at - lic'[p].token.exp < Grace
    <3> SUFFICES ASSUME lic'[p].ok PROVE now - req[p].token.exp < Grace
      BY <2>1
    <3>1. grace # Nothing /\ grace.token = req[p].token /\ now - grace.at < Grace
      BY <2>1 DEF Remembers
    <3>2. grace.at <= req[p].token.exp /\ grace.at \in Int /\ req[p].token.exp \in Int
      BY <3>1, <2>2 DEF VerifiedInTime, TypeOK, Tokens
    <3> QED
      BY <2>2, <3>1, <3>2
  <2>4. lpc' = [lpc EXCEPT ![p] = "done"] /\ UNCHANGED <<grace, resolved>>
        /\ \A q \in Processes \ {p} : lic'[q] = lic[q]
    BY <1>6 DEF VerifyExpired, TypeOK
  <2> QED
    BY <2>3, <2>4 DEF VerifiedInTime, PaidFromTokenIsBounded, TypeOK
<1>7. ASSUME NEW p \in Processes, VerifyNothing(p)
      PROVE  VerifiedInTime' /\ PaidFromTokenIsBounded'
  BY <1>7 DEF VerifyNothing, VerifiedInTime, PaidFromTokenIsBounded, TypeOK, Unlicensed
<1>8. ASSUME NEW p \in Processes, Combine(p)
      PROVE  VerifiedInTime' /\ PaidFromTokenIsBounded'
  <2>1. VerifiedInTime'
    BY <1>8 DEF Combine, VerifiedInTime, TypeOK
  <2>2. ans[p] \in Answers /\ resolved'[p] = Authority(ans[p], lic[p])
    BY <1>8 DEF Combine, TypeOK
  <2>3. resolved'[p].source = "signed-token" => lic[p].ok /\ resolved'[p] = FromToken(lic[p])
    BY <2>2 DEF Authority, FromServer, Answers
  <2>4. resolved'[p].source = "signed-token" => resolved'[p].at - resolved'[p].exp < Grace
    BY <1>8, <2>3 DEF Combine, FromToken, VerifiedInTime
  <2> QED
    BY <1>8, <2>1, <2>4 DEF Combine, PaidFromTokenIsBounded, TypeOK
<1>9. ASSUME NEW p \in Processes, Crash(p)
      PROVE  VerifiedInTime' /\ PaidFromTokenIsBounded'
  BY <1>9 DEF Crash, VerifiedInTime, PaidFromTokenIsBounded, TypeOK
<1> QED
  BY <1>1, <1>2, <1>3, <1>4, <1>5, <1>6, <1>7, <1>8, <1>9
  DEF Next, Tick, Cancel, Renew, Login, Activate, ReadCaps, ServerAnswers, ServerFails, WriteCaps,
      WriteCapsFails, vars

(* However the processes interleave, fail and crash in writing the grace   *)
(* file, no token is believed Grace or more after its own expiry.          *)
THEOREM TokenBounded == Spec => []PaidFromTokenIsBounded
<1>1. Init => VerifiedInTime /\ PaidFromTokenIsBounded
  BY DEF Init, VerifiedInTime, PaidFromTokenIsBounded, Free
<1> QED
  BY <1>1, TokenStep, TypeCorrect, PTL DEF Spec
-----------------------------------------------------------------------------
\* An entry that says "active" was fetched no later than the key was last active.
Truthful(c) ==
  c # Nothing /\ c.active /\ c.scope # None => c.fetchedAt <= lastActive[c.scope]

Recent(k, t) == k \in Keys /\ t - lastActive[k] < Grace

ServerKnows ==
  /\ \A k \in Keys : lastActive[k] <= now /\ (active[k] => lastActive[k] = now)
  /\ Truthful(caps)
  /\ \A p \in Processes :
       /\ cpc[p] # "idle" => req[p].at <= now
       /\ cpc[p] # "idle" => Truthful(req[p].cached)
       /\ cpc[p] # "idle" /\ req[p].cached # Nothing => req[p].at - req[p].cached.fetchedAt < Grace
       /\ cpc[p] \in {"writing", "done"} /\ ans[p].paid => Recent(ans[p].key, ans[p].at)
       /\ cpc[p] = "writing" /\ ans[p].active /\ ans[p].key # None
            => ans[p].at <= lastActive[ans[p].key]
       /\ resolved[p].paid /\ resolved[p].source \in {"rest", "cache"}
            => Recent(resolved[p].key, resolved[p].at)

LEMMA CachedIsRecent ==
  ASSUME TypeOK, NEW c \in CapsEntries, Truthful(c), NEW t \in 1..MaxTime,
         t - c.fetchedAt < Grace, FromCache(c, t).paid
  PROVE  Recent(FromCache(c, t).key, FromCache(c, t).at)
<1>1. c.active /\ c.scope # None /\ c.scope \in Keys
  <2> DEFINE paid == c.active /\ c.scope # None
  <2>1. FromCache(c, t).paid = paid
    BY DEF FromCache
  <2>2. paid
    BY <2>1
  <2>3. c.scope \in Keys \cup {None}
    BY DEF CapsEntries
  <2> QED
    BY <2>2, <2>3
<1>2. c.fetchedAt <= lastActive[c.scope]
  BY <1>1, NothingIsNothing DEF Truthful
<1>3. c.fetchedAt \in Int /\ lastActive[c.scope] \in Int /\ t \in Int /\ Grace \in Int
  BY <1>1, EntitlementConstants DEF CapsEntries, TypeOK
<1> QED
  BY <1>1, <1>2, <1>3 DEF FromCache, Recent

(* Time passes, subscriptions end and begin: what was true of the last      *)
(* active instant stays true, because it only grows.                       *)
LEMMA ServerStep ==
  ASSUME TypeOK, TypeOK', ServerKnows, now' >= now,
         \A k \in Keys : lastActive'[k] >= lastActive[k] /\ lastActive'[k] <= now'
                         /\ (active'[k] => lastActive'[k] = now'),
         UNCHANGED <<caps, cpc, req, ans, resolved>>
  PROVE  ServerKnows'
<1> USE EntitlementConstants
<1>1. \A k \in Keys, t \in Int : Recent(k, t) => Recent(k, t)'
  BY DEF Recent, TypeOK
<1>2. \A c \in CapsEntries \cup {Nothing} : Truthful(c) => Truthful(c)'
  BY DEF Truthful, TypeOK, CapsEntries
<1>3. Truthful(caps)'
  BY <1>2 DEF ServerKnows, TypeOK
<1>4. ASSUME NEW p \in Processes
      PROVE  /\ cpc'[p] # "idle" => req'[p].at <= now'
             /\ (cpc[p] # "idle" => Truthful(req[p].cached))'
             /\ cpc'[p] # "idle" /\ req'[p].cached # Nothing
                  => req'[p].at - req'[p].cached.fetchedAt < Grace
  <2>1. cpc[p] # "idle" => req[p] \in Requests
    BY DEF TypeOK
  <2>2. cpc[p] # "idle" => req[p].at \in Int /\ req[p].cached \in CapsEntries \cup {Nothing}
    BY <2>1 DEF Requests
  <2> QED
    BY <1>2, <2>2 DEF ServerKnows, TypeOK
<1>5. ASSUME NEW p \in Processes
      PROVE  /\ (cpc[p] \in {"writing", "done"} /\ ans[p].paid => Recent(ans[p].key, ans[p].at))'
             /\ cpc'[p] = "writing" /\ ans'[p].active /\ ans'[p].key # None
                  => ans'[p].at <= lastActive'[ans'[p].key]
  <2>1. cpc[p] \in {"writing", "done"} => ans[p] \in Answers
    BY DEF TypeOK
  <2>2. cpc[p] \in {"writing", "done"} => ans[p].at \in Int /\ ans[p].key \in Keys \cup {None}
    BY <2>1 DEF Answers
  <2>3. (cpc[p] \in {"writing", "done"} /\ ans[p].paid => Recent(ans[p].key, ans[p].at))'
    BY <1>1, <2>2 DEF ServerKnows, Recent
  <2>4. ASSUME cpc[p] = "writing", ans[p].active, ans[p].key # None
        PROVE  ans[p].at <= lastActive'[ans[p].key]
    BY <2>2, <2>4 DEF ServerKnows, TypeOK
  <2> QED
    BY <2>3, <2>4
<1>6. ASSUME NEW p \in Processes
      PROVE  (resolved[p].paid /\ resolved[p].source \in {"rest", "cache"}
                => Recent(resolved[p].key, resolved[p].at))'
  <2>1. resolved[p].at \in Int
    BY DEF TypeOK, Resolutions
  <2> QED
    BY <1>1, <2>1 DEF ServerKnows, Recent
<1> QED
  BY <1>3, <1>4, <1>5, <1>6 DEF ServerKnows

LEMMA KnowledgeStep ==
  ASSUME TypeOK, TypeOK', ServerKnows, [Next]_vars
  PROVE  ServerKnows'
<1> USE EntitlementConstants DEF server, files
<1>1. CASE Tick
  <2>1. now' = now + 1 /\ now \in Int
    BY <1>1 DEF Tick, TypeOK
  <2>2. \A k \in Keys : lastActive'[k] = IF active[k] THEN now + 1 ELSE lastActive[k]
    BY <1>1 DEF Tick
  <2>3. \A k \in Keys : lastActive[k] \in Int /\ lastActive[k] <= now
    BY DEF TypeOK, ServerKnows
  <2>4. \A k \in Keys : lastActive'[k] >= lastActive[k] /\ lastActive'[k] <= now'
                         /\ (active'[k] => lastActive'[k] = now')
    BY <1>1, <2>1, <2>2, <2>3 DEF Tick
  <2> QED
    BY <1>1, <2>1, <2>4, ServerStep DEF Tick
<1>2. ASSUME NEW k \in Keys, Cancel(k) PROVE ServerKnows'
  <2>1. \A j \in Keys : lastActive'[j] >= lastActive[j] /\ lastActive'[j] <= now'
                         /\ (active'[j] => lastActive'[j] = now')
    BY <1>2 DEF Cancel, TypeOK, ServerKnows
  <2> QED
    BY <1>2, <2>1, ServerStep DEF Cancel, TypeOK
<1>3. ASSUME NEW k \in Keys, Renew(k) PROVE ServerKnows'
  <2>1. \A j \in Keys : lastActive'[j] >= lastActive[j] /\ lastActive'[j] <= now'
                         /\ (active'[j] => lastActive'[j] = now')
    BY <1>3 DEF Renew, TypeOK, ServerKnows
  <2> QED
    BY <1>3, <2>1, ServerStep DEF Renew, TypeOK
<1>4. ASSUME UNCHANGED <<now, active, lastActive, caps, cpc, req, ans, resolved>>
      PROVE  ServerKnows'
  BY <1>4 DEF ServerKnows, Truthful, Recent
<1>5. ASSUME NEW p \in Processes, NEW force \in BOOLEAN, NEW as \in Simulations \cup {None},
             StartResolve(p, force, as)
      PROVE  ServerKnows'
  <2>1. req'[p].at = now /\ req'[p].cached = Nothing /\ cpc'[p] = "reading" /\ resolved'[p] = Free
    BY <1>5 DEF StartResolve, TypeOK
  <2>2. UNCHANGED <<now, active, lastActive, caps, ans>>
        /\ \A q \in Processes \ {p} : UNCHANGED <<cpc[q], req[q], resolved[q]>>
    BY <1>5 DEF StartResolve, TypeOK
  <2>3. now <= now' /\ Truthful(Nothing)' /\ ~Free.paid
    BY <2>2 DEF Truthful, Free, TypeOK
  <2> QED
    BY <2>1, <2>2, <2>3 DEF ServerKnows, Truthful, Recent
<1>6. ASSUME NEW p \in Processes, ReadCaps(p) PROVE ServerKnows'
  <2> DEFINE usable == Usable(caps, req[p].key, req[p].at)
  <2>0. req[p] \in Requests /\ UNCHANGED <<now, active, lastActive, caps, resolved>>
        /\ Truthful(caps)
    BY <1>6 DEF ReadCaps, TypeOK, ServerKnows
  <2>1. CASE cpc' = [cpc EXCEPT ![p] = "done"]
             /\ usable /\ ans' = [ans EXCEPT ![p] = FromCache(caps, req[p].at)]
             /\ UNCHANGED req
    <3>1. caps \in CapsEntries /\ req[p].at \in 1..MaxTime /\ req[p].at - caps.fetchedAt < Grace
      BY <2>0, <2>1 DEF Usable, TypeOK, Requests
    <3>2. ans'[p].paid => Recent(ans'[p].key, ans'[p].at)
      BY <2>0, <2>1, <3>1, CachedIsRecent DEF TypeOK
    <3>3. (cpc[p] \in {"writing", "done"} /\ ans[p].paid => Recent(ans[p].key, ans[p].at))'
      BY <2>0, <3>2 DEF Recent
    <3>4. cpc'[p] = "done" /\ cpc[p] # "idle"
          /\ \A q \in Processes \ {p} : UNCHANGED <<cpc[q], ans[q]>>
      BY <1>6, <2>1 DEF ReadCaps, TypeOK
    <3> QED
      BY <2>0, <2>1, <3>3, <3>4 DEF ServerKnows, Truthful, Recent
  <2>2. CASE cpc' = [cpc EXCEPT ![p] = "fetching"]
             /\ req' = [req EXCEPT ![p].cached = IF usable THEN caps ELSE Nothing,
                                   ![p].refused = refusedAt]
             /\ UNCHANGED ans
    <3> DEFINE c == IF usable THEN caps ELSE Nothing
    <3>1. req'[p].cached = c /\ req'[p].at = req[p].at
      BY <2>0, <2>2 DEF TypeOK, Requests
    <3>2. Truthful(c) /\ (c # Nothing => req[p].at - c.fetchedAt < Grace)
      BY <2>0 DEF Usable, Truthful
    <3> HIDE DEF c
    <3>3. (Truthful(req[p].cached))'
      BY <2>0, <3>1, <3>2 DEF Truthful
    <3>4. cpc'[p] = "fetching" /\ cpc[p] # "idle" /\ ans' = ans
          /\ \A q \in Processes \ {p} : UNCHANGED <<cpc[q], req[q]>>
      BY <1>6, <2>2 DEF ReadCaps, TypeOK
    <3> QED
      BY <2>0, <3>1, <3>2, <3>3, <3>4 DEF ServerKnows, Truthful, Recent
  <2> QED
    BY <1>6, <2>1, <2>2 DEF ReadCaps
<1>7. ASSUME NEW p \in Processes, ServerAnswers(p) PROVE ServerKnows'
  <2>1. req[p] \in Requests /\ cpc[p] = "fetching" /\ UNCHANGED <<now, active, lastActive, caps, req, resolved>>
    BY <1>7 DEF ServerAnswers, TypeOK
  <2>2. /\ ans'[p].paid = (Subscribed(req[p].key) /\ req[p].key # None)
        /\ ans'[p].active = Subscribed(req[p].key) /\ ans'[p].key = req[p].key
        /\ ans'[p].at = req[p].at
    BY <1>7 DEF ServerAnswers, TypeOK
  <2>3. req[p].at \in Int /\ req[p].at <= now /\ req[p].key \in Keys \cup {None} /\ now \in Int
    BY <2>1 DEF Requests, ServerKnows, TypeOK
  <2>4. Subscribed(req[p].key) /\ req[p].key # None
          => req[p].key \in Keys /\ lastActive[req[p].key] = now
    BY <2>3 DEF Subscribed, ServerKnows
  <2>5. ans'[p].active /\ ans'[p].key # None => ans'[p].at <= lastActive'[ans'[p].key]
    BY <2>1, <2>2, <2>3, <2>4
  <2>6. ans'[p].paid => Subscribed(req[p].key) /\ req[p].key # None
    BY <2>2, Zenon
  <2>7. ans'[p].paid => Recent(ans[p].key, ans[p].at)'
    BY <2>1, <2>2, <2>3, <2>4, <2>6 DEF Recent
  <2>8. cpc'[p] = "writing" /\ \A q \in Processes \ {p} : UNCHANGED <<cpc[q], ans[q]>>
    BY <1>7 DEF ServerAnswers, TypeOK
  <2> QED
    BY <2>1, <2>5, <2>7, <2>8 DEF ServerKnows, Truthful, Recent
<1>8. ASSUME NEW p \in Processes, ServerFails(p) PROVE ServerKnows'
  <2>1. req[p] \in Requests /\ cpc[p] = "fetching" /\ UNCHANGED <<now, active, lastActive, caps, req, resolved>>
    BY <1>8 DEF ServerFails, TypeOK
  <2>2. req[p].at \in 1..MaxTime /\ req[p].cached \in CapsEntries \cup {Nothing}
    BY <2>1 DEF Requests
  <2>3. CASE ans'[p] = FromCache(req[p].cached, req[p].at) /\ req[p].cached # Nothing
    <3>1. ans'[p].paid => Recent(ans'[p].key, ans'[p].at)
      BY <2>1, <2>2, <2>3, CachedIsRecent DEF ServerKnows
    <3> QED
      BY <1>8, <2>1, <3>1 DEF ServerFails, ServerKnows, Truthful, Recent, TypeOK
  <2>4. CASE ans'[p] = FreeFallback(req[p].at)
    <3>1. ~ans'[p].paid
      BY <2>4 DEF FreeFallback
    <3> QED
      BY <1>8, <2>1, <3>1 DEF ServerFails, ServerKnows, Truthful, Recent, TypeOK
  <2> QED
    BY <1>8, <2>3, <2>4 DEF ServerFails, TypeOK
<1>9. ASSUME NEW p \in Processes, NEW ttl \in Ttls, WriteCaps(p, ttl) PROVE ServerKnows'
  <2>1. ans[p] \in Answers /\ cpc[p] = "writing" /\ UNCHANGED <<now, active, lastActive, req, ans, resolved>>
        /\ caps' = CapsEntry(ans[p], ttl) /\ cpc' = [cpc EXCEPT ![p] = "done"]
    BY <1>9 DEF WriteCaps, TypeOK
  <2>2. caps'.active = ans[p].active /\ caps'.scope = ans[p].key /\ caps'.fetchedAt = ans[p].at
    BY <2>1 DEF CapsEntry
  <2>3. Truthful(caps)'
    BY <2>1, <2>2 DEF Truthful, ServerKnows
  <2> QED
    BY <2>1, <2>3 DEF ServerKnows, Truthful, Recent, TypeOK
<1>10. ASSUME NEW p \in Processes, WriteCapsFails(p) PROVE ServerKnows'
  BY <1>10 DEF WriteCapsFails, ServerKnows, Truthful, Recent, TypeOK
<1>11. ASSUME NEW p \in Processes, Combine(p) PROVE ServerKnows'
  <2>1. ans[p] \in Answers /\ cpc[p] = "done" /\ resolved'[p] = Authority(ans[p], lic[p])
        /\ UNCHANGED <<now, active, lastActive, caps>>
    BY <1>11 DEF Combine, TypeOK
  <2>2. resolved'[p].source # "signed-token" => resolved'[p] = FromServer(ans[p])
    BY <2>1 DEF Authority, FromToken
  <2>3. resolved'[p].paid /\ resolved'[p].source \in {"rest", "cache"}
          => Recent(resolved'[p].key, resolved'[p].at)
    BY <2>1, <2>2 DEF FromServer, ServerKnows
  <2>4. cpc'[p] = "idle" /\ \A q \in Processes \ {p} : UNCHANGED <<cpc[q], ans[q], req[q], resolved[q]>>
    BY <1>11 DEF Combine, TypeOK
  <2> QED
    BY <2>1, <2>3, <2>4 DEF ServerKnows, Truthful, Recent
<1>12. ASSUME NEW p \in Processes, Crash(p) PROVE ServerKnows'
  BY <1>12 DEF Crash, ServerKnows, Truthful, Recent, TypeOK
<1> QED
  BY <1>1, <1>2, <1>3, <1>4, <1>5, <1>6, <1>7, <1>8, <1>9, <1>10, <1>11, <1>12
  DEF Next, Login, Activate, VerifyFresh, RememberToken, RememberFails, VerifyExpired,
      VerifyNothing, vars

(* A paid answer of the server or of its cache is never older than Grace:  *)
(* a cancelled subscription cannot live on in capabilities.json.           *)
THEOREM ServerRecent == Spec => []PaidFromServerIsRecent
<1>1. Init => ServerKnows
  BY EntitlementConstants DEF Init, ServerKnows, Truthful, Free
<1>2. TypeOK /\ ServerKnows => PaidFromServerIsRecent
  BY DEF ServerKnows, Recent, PaidFromServerIsRecent
<1> QED
  BY <1>1, <1>2, KnowledgeStep, TypeCorrect, PTL DEF Spec

-----------------------------------------------------------------------------
\* A token was issued to its key no later than the key was last active.
Issued(tok) == tok # Nothing => tok.key \in Keys /\ tok.iat <= lastActive[tok.key]

(* What every token in play, and every resolution made from one, says of   *)
(* its key; and that nothing but a token has a term of its own.            *)
TokensIssued ==
  /\ Issued(creds.token)
  /\ \A p \in Processes :
       /\ cpc[p] # "idle" => Issued(req[p].token)
       /\ lpc[p] \in {"remembering", "done"} => Issued(lic[p].token)
       /\ ans[p] # Nothing /\ ans[p].source = "free" => ~ans[p].paid

PlansIssued ==
  \A p \in Processes :
    LET r == resolved[p] IN
    IF r.source = "signed-token" THEN r.key \in Keys /\ r.iat <= lastActive[r.key]
    ELSE r.iat = 0 /\ r.exp = 0 /\ (r.source = "free" => ~r.paid)

\* What is said of a token stays true: the last active instant only grows.
LEMMA IssuedStays ==
  ASSUME TypeOK, TypeOK', \A k \in Keys : lastActive'[k] >= lastActive[k]
  PROVE  /\ \A tok \in Tokens \cup {Nothing} : Issued(tok) => Issued(tok)'
         /\ resolved' = resolved /\ PlansIssued => PlansIssued'
<1>1. \A k \in Keys : lastActive[k] \in Int /\ lastActive'[k] \in Int
  BY DEF TypeOK
<1>2. \A tok \in Tokens \cup {Nothing} : Issued(tok) => Issued(tok)'
  BY <1>1 DEF Issued, Tokens
<1>3. \A p \in Processes : resolved[p].iat \in Int
  BY DEF TypeOK, Resolutions
<1> QED
  BY <1>1, <1>2, <1>3 DEF PlansIssued

\* The last active instant of a key never goes back.
LEMMA LastActiveGrows ==
  ASSUME TypeOK, ServerKnows, [Next]_vars
  PROVE  \A k \in Keys : lastActive'[k] >= lastActive[k]
<1>1. \A k \in Keys : lastActive[k] \in Int /\ lastActive[k] <= now /\ now \in Int
  BY DEF TypeOK, ServerKnows
<1>2. CASE Tick
  BY <1>1, <1>2 DEF Tick
<1>3. CASE \E k \in Keys : Renew(k)
  BY <1>1, <1>3 DEF Renew, TypeOK
<1>4. CASE UNCHANGED lastActive
  BY <1>1, <1>4
<1> QED
  BY <1>2, <1>3, <1>4 DEF Next, vars, server, Cancel, Login, Activate, StartResolve, ReadCaps,
     ServerAnswers, ServerFails, WriteCaps, WriteCapsFails, VerifyFresh, RememberToken,
     RememberFails, VerifyExpired, VerifyNothing, Combine, Crash

LEMMA IssueStep ==
  ASSUME TypeOK, TypeOK', ServerKnows, TokensIssued, PlansIssued, [Next]_vars
  PROVE  TokensIssued' /\ PlansIssued'
<1> USE EntitlementConstants DEF server, files
<1>1. /\ \A tok \in Tokens \cup {Nothing} : Issued(tok) => Issued(tok)'
      /\ resolved' = resolved => PlansIssued'
  BY IssuedStays, LastActiveGrows
<1>2. /\ creds.token \in Tokens \cup {Nothing}
      /\ \A p \in Processes : /\ cpc[p] # "idle" => req[p].token \in Tokens \cup {Nothing}
                              /\ lpc[p] \in {"remembering", "done"}
                                   => lic[p].token \in Tokens \cup {Nothing}
  <2>1. \A p \in Processes : cpc[p] # "idle" => req[p] \in Requests
    BY DEF TypeOK
  <2>2. \A p \in Processes : lpc[p] \in {"remembering", "done"} => lic[p] \in Licenses
    BY DEF TypeOK
  <2> QED
    BY <2>1, <2>2 DEF TypeOK, Requests, Licenses
<1>3. ASSUME UNCHANGED <<creds, cpc, lpc, req, ans, lic, resolved>>
      PROVE  TokensIssued' /\ PlansIssued'
  BY <1>1, <1>2, <1>3 DEF TokensIssued
<1>4. ASSUME NEW p \in Processes, NEW k \in Keys, Login(p, k)
      PROVE  TokensIssued' /\ PlansIssued'
  <2>1. creds'.token = creds.token
    BY <1>4 DEF Login, TypeOK
  <2> QED
    BY <1>1, <1>2, <1>4, <2>1 DEF Login, TokensIssued
<1>5. ASSUME NEW p \in Processes, NEW k \in Keys, NEW v2 \in Versions, NEW life \in Lifetimes,
             Activate(p, k, v2, life)
      PROVE  TokensIssued' /\ PlansIssued'
  <2>1. creds'.token.key = k /\ creds'.token.iat = now
    BY <1>5 DEF Activate
  <2>2. lastActive'[k] = now
    BY <1>5 DEF Activate, ServerKnows
  <2>3. now <= now
    BY DEF TypeOK
  <2>4. Issued(creds.token)'
    BY <2>1, <2>2, <2>3 DEF Issued
  <2> QED
    BY <1>1, <1>2, <1>5, <2>4 DEF Activate, TokensIssued
<1>6. ASSUME NEW p \in Processes, NEW force \in BOOLEAN, NEW as \in Simulations \cup {None},
             StartResolve(p, force, as)
      PROVE  TokensIssued' /\ PlansIssued'
  <2>1. /\ req'[p].token = creds.token /\ cpc'[p] = "reading" /\ lpc'[p] = "todo"
        /\ resolved'[p] = Free
        /\ \A q \in Processes \ {p} : UNCHANGED <<cpc[q], lpc[q], req[q], resolved[q]>>
        /\ UNCHANGED <<lastActive, creds, ans, lic>>
    BY <1>6 DEF StartResolve, TypeOK
  <2>2. TokensIssued'
    BY <2>1 DEF TokensIssued, Issued
  <2>3. PlansIssued'
    BY <2>1 DEF PlansIssued, Free
  <2> QED
    BY <2>2, <2>3
<1>7. ASSUME NEW p \in Processes, ReadCaps(p)
      PROVE  TokensIssued' /\ PlansIssued'
  <2>1. /\ UNCHANGED <<lastActive, creds, lpc, lic, resolved>> /\ cpc[p] = "reading"
        /\ \A q \in Processes \ {p} : UNCHANGED <<cpc[q], req[q], ans[q]>>
    BY <1>7 DEF ReadCaps, TypeOK
  <2>2. req'[p].token = req[p].token
    <3>1. req[p] \in Requests
      BY <1>7 DEF ReadCaps, TypeOK
    <3> QED
      BY <1>7, <3>1 DEF ReadCaps, TypeOK, Requests
  <2>3. ans'[p] = ans[p] \/ ans'[p].source # "free"
    BY <1>7 DEF ReadCaps, TypeOK, FromCache
  <2> QED
    BY <1>1, <2>1, <2>2, <2>3 DEF TokensIssued, Issued
<1>8. ASSUME NEW p \in Processes, ServerAnswers(p) \/ ServerFails(p)
      PROVE  TokensIssued' /\ PlansIssued'
  <2>1. /\ UNCHANGED <<lastActive, creds, lpc, req, lic, resolved>> /\ cpc[p] = "fetching"
        /\ \A q \in Processes \ {p} : UNCHANGED <<cpc[q], ans[q]>>
    BY <1>8 DEF ServerAnswers, ServerFails, TypeOK
  <2>2. ans'[p].source = "free" => ~ans'[p].paid
    BY <1>8 DEF ServerAnswers, ServerFails, TypeOK, FromCache, FreeFallback
  <2> QED
    BY <1>1, <2>1, <2>2 DEF TokensIssued, Issued
<1>9. ASSUME NEW p \in Processes, NEW l,
             lic' = [lic EXCEPT ![p] = l], l.token \in {req[p].token, Nothing},
             cpc[p] # "idle", UNCHANGED <<lastActive, creds, cpc, req, ans, resolved>>,
             \A q \in Processes \ {p} : lpc'[q] = lpc[q]
      PROVE  TokensIssued' /\ PlansIssued'
  <2>1. lic'[p] = l /\ \A q \in Processes \ {p} : lic'[q] = lic[q]
    BY <1>9 DEF TypeOK
  <2> QED
    BY <1>1, <1>9, <2>1 DEF TokensIssued, Issued
<1>10. ASSUME NEW p \in Processes, VerifyFresh(p) \/ VerifyExpired(p) \/ VerifyNothing(p)
       PROVE  TokensIssued' /\ PlansIssued'
  <2>1. cpc[p] # "idle" /\ \A q \in Processes \ {p} : lpc'[q] = lpc[q]
    BY <1>10 DEF VerifyFresh, VerifyExpired, VerifyNothing, TypeOK
  <2>2. CASE VerifyFresh(p)
    BY <1>9, <2>1, <2>2 DEF VerifyFresh
  <2>3. CASE VerifyExpired(p)
    BY <1>9, <2>1, <2>3 DEF VerifyExpired
  <2>4. CASE VerifyNothing(p)
    BY <1>9, <2>1, <2>4 DEF VerifyNothing, Unlicensed
  <2> QED
    BY <1>10, <2>2, <2>3, <2>4
<1>11. ASSUME NEW p \in Processes, RememberToken(p) \/ RememberFails(p)
       PROVE  TokensIssued' /\ PlansIssued'
  BY <1>1, <1>11 DEF RememberToken, RememberFails, TokensIssued, Issued, TypeOK
<1>12. ASSUME NEW p \in Processes, (\E ttl \in Ttls : WriteCaps(p, ttl)) \/ WriteCapsFails(p)
       PROVE  TokensIssued' /\ PlansIssued'
  BY <1>1, <1>12 DEF WriteCaps, WriteCapsFails, TokensIssued, Issued, TypeOK
<1>13. ASSUME NEW p \in Processes, cpc' = [cpc EXCEPT ![p] = "idle"],
              lpc' = [lpc EXCEPT ![p] = "idle"], req' = [req EXCEPT ![p] = Nothing],
              ans' = [ans EXCEPT ![p] = Nothing], lic' = [lic EXCEPT ![p] = Nothing],
              UNCHANGED <<lastActive, creds>>
       PROVE  TokensIssued'
  BY <1>13 DEF TokensIssued, Issued, TypeOK
<1>14. ASSUME NEW p \in Processes, Combine(p)
       PROVE  TokensIssued' /\ PlansIssued'
  <2>1. ans[p] \in Answers /\ lic[p] \in Licenses /\ lpc[p] = "done"
        /\ resolved'[p] = Authority(ans[p], lic[p])
    BY <1>14 DEF Combine, TypeOK
  <2>4. TokensIssued'
    BY <1>13, <1>14 DEF Combine
  <2>5. lastActive' = lastActive /\ \A q \in Processes \ {p} : resolved'[q] = resolved[q]
    BY <1>14 DEF Combine, TypeOK
  <2>2. CASE resolved'[p] = FromServer(ans[p])
    <3>1. /\ resolved'[p].source = ans[p].source /\ resolved'[p].paid = ans[p].paid
          /\ resolved'[p].iat = 0 /\ resolved'[p].exp = 0
      BY <2>2 DEF FromServer
    <3>2. ans[p] # Nothing /\ ans[p].source # "signed-token"
      BY <2>1, NothingIsNothing DEF Answers
    <3>3. resolved'[p].source = "free" => ~resolved'[p].paid
      BY <3>1, <3>2 DEF TokensIssued
    <3> QED
      BY <2>4, <2>5, <3>1, <3>2, <3>3 DEF PlansIssued
  <2>3. CASE resolved'[p] = FromToken(lic[p]) /\ lic[p].ok
    <3>1. lic[p].token # Nothing /\ Issued(lic[p].token)
      BY <2>1, <2>3 DEF Licenses, TokensIssued
    <3>2. /\ resolved'[p].source = "signed-token"
          /\ resolved'[p].key \in Keys /\ resolved'[p].iat <= lastActive[resolved'[p].key]
      BY <2>3, <3>1 DEF FromToken, Issued
    <3> QED
      BY <2>4, <2>5, <3>2 DEF PlansIssued
  <2> QED
    BY <2>1, <2>2, <2>3 DEF Authority, Answers
<1>15. ASSUME NEW p \in Processes, Crash(p)
       PROVE  TokensIssued' /\ PlansIssued'
  BY <1>1, <1>13, <1>15 DEF Crash
<1> QED
  BY <1>3, <1>4, <1>5, <1>6, <1>7, <1>8, <1>10, <1>11, <1>12, <1>14, <1>15
  DEF Next, Tick, Cancel, Renew, vars

(* For any number of processes, keys and lifetimes, over failing writes,   *)
(* crashes and changes of the key: a plan is used less than Grace, and the *)
(* lifetime of its token, after its key was last subscribed.               *)
THEOREM CancelledEnds == Spec => []CancelledPlanEnds
<1>1. Init => TokensIssued /\ PlansIssued
  BY DEF Init, TokensIssued, PlansIssued, Issued, Free
<1>2. Init => ServerKnows
  BY EntitlementConstants DEF Init, ServerKnows, Truthful, Free
<1>3. TypeOK /\ ServerKnows /\ PlansIssued /\ PaidFromTokenIsBounded => CancelledPlanEnds
  <2> SUFFICES ASSUME TypeOK, ServerKnows, PlansIssued, PaidFromTokenIsBounded,
                      NEW p \in Processes, resolved[p].paid
               PROVE  resolved[p].at < lastActive[resolved[p].key]
                                         + (resolved[p].exp - resolved[p].iat) + Grace
    BY DEF CancelledPlanEnds
  <2>1. resolved[p] \in Resolutions /\ Grace \in Int
    BY EntitlementConstants DEF TypeOK
  <2>2. resolved[p].at \in Int /\ resolved[p].exp \in Int /\ resolved[p].iat \in Int
        /\ resolved[p].source \in {"rest", "cache", "free", "signed-token"}
    BY <2>1 DEF Resolutions
  <2>3. CASE resolved[p].source = "signed-token"
    <3>1. resolved[p].key \in Keys /\ resolved[p].iat <= lastActive[resolved[p].key]
      BY <2>3 DEF PlansIssued
    <3>2. lastActive[resolved[p].key] \in Int
      BY <3>1 DEF TypeOK
    <3>3. resolved[p].at - resolved[p].exp < Grace
      BY <2>3 DEF PaidFromTokenIsBounded
    <3> QED
      BY <2>1, <2>2, <3>1, <3>2, <3>3
  <2>4. CASE resolved[p].source \in {"rest", "cache"}
    <3>1. Recent(resolved[p].key, resolved[p].at)
      BY <2>4 DEF ServerKnows
    <3>2. resolved[p].iat = 0 /\ resolved[p].exp = 0
      BY <2>4 DEF PlansIssued
    <3>3. lastActive[resolved[p].key] \in Int
      BY <3>1 DEF Recent, TypeOK
    <3> QED
      BY <2>1, <2>2, <3>1, <3>2, <3>3 DEF Recent
  <2>5. CASE resolved[p].source = "free"
    BY <2>5 DEF PlansIssued
  <2> QED
    BY <2>2, <2>3, <2>4, <2>5
<1> QED
  BY <1>1, <1>2, <1>3, IssueStep, KnowledgeStep, TypeCorrect, TokenBounded, PTL DEF Spec

-----------------------------------------------------------------------------
(* What a call has read of the cache is about its own key, and so is what  *)
(* it answers with.                                                        *)
ReadAsAsked ==
  /\ AnsweredAsAsked
  /\ \A p \in Processes :
       cpc[p] = "fetching" /\ req[p].cached # Nothing => req[p].cached.scope = req[p].key

(* For any number of processes that write one cache file for any keys and  *)
(* simulations: a call is answered about the key and the simulation it     *)
(* was made for.                                                           *)
THEOREM AskedHolds == Spec => []AnsweredAsAsked
<1>1. Init => ReadAsAsked
  BY DEF Init, ReadAsAsked, AnsweredAsAsked
<1>2. TypeOK /\ ReadAsAsked /\ [Next]_vars => ReadAsAsked'
  <2> SUFFICES ASSUME TypeOK, ReadAsAsked, [Next]_vars PROVE ReadAsAsked'
    OBVIOUS
  <2>1. CASE UNCHANGED <<cpc, req, ans>>
    BY <2>1 DEF ReadAsAsked, AnsweredAsAsked
  <2>2. ASSUME NEW p \in Processes, cpc' = [cpc EXCEPT ![p] = "idle"],
               \A q \in Processes \ {p} : req'[q] = req[q] /\ ans'[q] = ans[q]
        PROVE  ReadAsAsked'
    BY <2>2 DEF ReadAsAsked, AnsweredAsAsked, TypeOK
  <2>3. ASSUME NEW p \in Processes, NEW force \in BOOLEAN,
               NEW as \in Simulations \cup {None}, StartResolve(p, force, as)
        PROVE  ReadAsAsked'
    BY <2>3 DEF StartResolve, ReadAsAsked, AnsweredAsAsked, TypeOK
  <2>4. ASSUME NEW p \in Processes, ReadCaps(p) PROVE ReadAsAsked'
    <3> DEFINE r == req[p]
    <3>0. r \in Requests
      BY <2>4 DEF ReadCaps, TypeOK
    <3>1. CASE /\ Usable(caps, r.key, r.at) /\ caps.as = r.as
               /\ cpc' = [cpc EXCEPT ![p] = "done"]
               /\ ans' = [ans EXCEPT ![p] = FromCache(caps, r.at)]
               /\ UNCHANGED req
      <4>1. ans'[p].key = r.key /\ ans'[p].as = r.as
        BY <3>1 DEF Usable, FromCache, TypeOK
      <4> QED
        BY <3>1, <4>1 DEF ReadAsAsked, AnsweredAsAsked, TypeOK
    <3>2. CASE /\ cpc' = [cpc EXCEPT ![p] = "fetching"]
               /\ req' = [req EXCEPT ![p].cached = IF Usable(caps, r.key, r.at) THEN caps ELSE Nothing,
                                     ![p].refused = refusedAt]
               /\ UNCHANGED ans
      <4>1. req'[p].key = r.key /\ (req'[p].cached # Nothing => req'[p].cached.scope = r.key)
        BY <3>0, <3>2 DEF Usable, TypeOK, Requests
      <4>2. \A q \in Processes \ {p} : req'[q] = req[q]
        BY <3>2 DEF TypeOK
      <4> QED
        BY <3>2, <4>1, <4>2 DEF ReadAsAsked, AnsweredAsAsked, TypeOK
    <3> QED
      BY <2>4, <3>1, <3>2 DEF ReadCaps
  <2>5. ASSUME NEW p \in Processes, ServerAnswers(p) PROVE ReadAsAsked'
    <3>1. ans'[p].key = req[p].key /\ ans'[p].as = req[p].as
      BY <2>5 DEF ServerAnswers, TypeOK
    <3> QED
      BY <2>5, <3>1 DEF ServerAnswers, ReadAsAsked, AnsweredAsAsked, TypeOK
  <2>6. ASSUME NEW p \in Processes, ServerFails(p) PROVE ReadAsAsked'
    <3>1. ans'[p].source # "free" => ans'[p].key = req[p].key /\ ans'[p].as = req[p].as
      BY <2>6 DEF ServerFails, FromCache, FreeFallback, ReadAsAsked, TypeOK
    <3> QED
      BY <2>6, <3>1 DEF ServerFails, ReadAsAsked, AnsweredAsAsked, TypeOK
  <2>7. ASSUME NEW p \in Processes, (\E ttl \in Ttls : WriteCaps(p, ttl)) \/ WriteCapsFails(p)
        PROVE  ReadAsAsked'
    BY <2>7 DEF WriteCaps, WriteCapsFails, ReadAsAsked, AnsweredAsAsked, TypeOK
  <2>8. ASSUME NEW p \in Processes, Combine(p) \/ Crash(p) PROVE ReadAsAsked'
    <3>1. \A q \in Processes \ {p} : req'[q] = req[q] /\ ans'[q] = ans[q]
      BY <2>8 DEF Combine, Crash, TypeOK
    <3> QED
      BY <2>2, <2>8, <3>1 DEF Combine, Crash
  <2> QED
    BY <2>1, <2>3, <2>4, <2>5, <2>6, <2>7, <2>8
    DEF Next, Tick, Cancel, Renew, Login, Activate, VerifyFresh, RememberToken, RememberFails,
        VerifyExpired, VerifyNothing, vars
<1>3. ReadAsAsked => AnsweredAsAsked
  BY DEF ReadAsAsked
<1> QED
  BY <1>1, <1>2, <1>3, TypeCorrect, PTL DEF Spec

-----------------------------------------------------------------------------
(* A refusal the call found in the file is still in force for it: the call *)
(* is for the real plan and younger than the refusal plus Grace.           *)
Bound(r) ==
  /\ r.as = None /\ r.key \in Keys
  /\ 0 < r.refused[r.key] /\ r.refused[r.key] <= r.at /\ r.at - r.refused[r.key] < Grace

\* A recorded refusal is an inactive entry, and it stays with the call that read it.
Refused ==
  /\ \A k \in Keys : refusedAt[k] > 0 =>
       /\ caps # Nothing /\ caps.scope = k /\ ~caps.active /\ caps.as = None
       /\ caps.fetchedAt = refusedAt[k]
  /\ \A p \in Processes :
       /\ cpc[p] = "reading" => req[p].refused = Unrefused
       /\ cpc[p] = "fetching" /\ Bound(req[p]) =>
            req[p].cached # Nothing /\ ~req[p].cached.active /\ req[p].cached.as = None
       /\ cpc[p] \in {"writing", "done"} /\ Bound(req[p]) =>
            \/ ans[p].source = "rest"
            \/ ans[p].source = "cache" /\ ~ans[p].active
       /\ lpc[p] \in {"remembering", "done"} /\ lic[p].ok => lic[p].token.key = req[p].key

LEMMA RefusalReadStep ==
  ASSUME TypeOK, TypeOK', Refused, NEW p \in Processes, ReadCaps(p)
  PROVE  Refused'
<1> DEFINE r == req[p]
           usable == Usable(caps, r.key, r.at)
           c == IF usable THEN caps ELSE Nothing
<1>1. cpc[p] = "reading" /\ r \in Requests /\ r.refused = Unrefused
      /\ UNCHANGED <<refusedAt, caps, lpc, lic>>
  BY DEF ReadCaps, TypeOK, Refused, files
<1>2. ~Bound(r)
  BY <1>1 DEF Bound, Unrefused
<1>3. CASE cpc' = [cpc EXCEPT ![p] = "done"]
           /\ ans' = [ans EXCEPT ![p] = FromCache(caps, r.at)] /\ UNCHANGED req
  BY <1>1, <1>2, <1>3 DEF Refused, TypeOK, Bound
<1>4. CASE /\ cpc' = [cpc EXCEPT ![p] = "fetching"]
           /\ req' = [req EXCEPT ![p].cached = c, ![p].refused = refusedAt]
           /\ UNCHANGED ans
  <2>1. /\ req'[p].cached = c /\ req'[p].refused = refusedAt
        /\ req'[p].as = r.as /\ req'[p].key = r.key /\ req'[p].at = r.at
    BY <1>1, <1>4 DEF TypeOK, Requests
  <2>2. cpc'[p] = "fetching" /\ ans' = ans
        /\ \A q \in Processes \ {p} : UNCHANGED <<cpc[q], req[q]>>
    BY <1>4 DEF TypeOK
  <2>3. ASSUME Bound(req'[p]) PROVE c # Nothing /\ ~c.active /\ c.as = None
    <3>1. /\ caps # Nothing /\ caps.scope = r.key /\ ~caps.active /\ caps.as = None
          /\ caps.fetchedAt = refusedAt[r.key]
      BY <2>1, <2>3 DEF Bound, Refused
    <3>2. r.at \in Int /\ refusedAt[r.key] \in Int
      BY <1>1, <2>1, <2>3 DEF Bound, Requests, TypeOK
    <3>3. usable
      BY <2>1, <2>3, <3>1, <3>2 DEF Usable, Bound
    <3> QED
      BY <3>1, <3>3
  <2> HIDE DEF c
  <2> QED
    BY <1>1, <2>1, <2>2, <2>3 DEF Refused, Bound
<1> QED
  BY <1>3, <1>4 DEF ReadCaps

LEMMA RefusalStep ==
  ASSUME TypeOK, TypeOK', Refused, [Next]_vars
  PROVE  Refused'
<1> USE EntitlementConstants DEF files, server
<1>1. CASE UNCHANGED <<refusedAt, caps, cpc, lpc, req, ans, lic>>
  BY <1>1 DEF Refused, Bound
<1>2. ASSUME NEW p \in Processes, cpc'[p] = "idle", lpc'[p] = "idle",
             \A q \in Processes \ {p} :
               UNCHANGED <<cpc[q], lpc[q], req[q], ans[q], lic[q]>>,
             UNCHANGED <<refusedAt, caps>>
      PROVE  Refused'
  BY <1>2 DEF Refused, Bound
<1>3. ASSUME NEW p \in Processes, NEW force \in BOOLEAN, NEW as \in Simulations \cup {None},
             StartResolve(p, force, as)
      PROVE  Refused'
  <2>1. cpc'[p] = "reading" /\ lpc'[p] = "todo" /\ req'[p].refused = Unrefused
        /\ UNCHANGED <<refusedAt, caps, ans, lic>>
        /\ \A q \in Processes \ {p} : UNCHANGED <<cpc[q], lpc[q], req[q]>>
    BY <1>3 DEF StartResolve, TypeOK
  <2> QED
    BY <2>1 DEF Refused, Bound
<1>4. ASSUME NEW p \in Processes, ReadCaps(p) PROVE Refused'
  BY <1>4, RefusalReadStep
<1>5. ASSUME NEW p \in Processes, ServerAnswers(p) PROVE Refused'
  <2>1. cpc'[p] = "writing" /\ ans'[p].source = "rest" /\ UNCHANGED <<refusedAt, caps, lpc, req, lic>>
        /\ \A q \in Processes \ {p} : UNCHANGED <<cpc[q], ans[q]>>
    BY <1>5 DEF ServerAnswers, TypeOK
  <2> QED
    BY <2>1 DEF Refused, Bound
<1>6. ASSUME NEW p \in Processes, ServerFails(p) PROVE Refused'
  <2>1. cpc[p] = "fetching" /\ cpc'[p] = "done" /\ UNCHANGED <<refusedAt, caps, lpc, req, lic>>
        /\ \A q \in Processes \ {p} : UNCHANGED <<cpc[q], ans[q]>>
    BY <1>6 DEF ServerFails, TypeOK
  <2>2. ASSUME Bound(req[p]) PROVE ans'[p].source = "cache" /\ ~ans'[p].active
    <3>1. req[p].cached # Nothing /\ ~req[p].cached.active /\ req[p].cached.as = req[p].as
      BY <2>1, <2>2 DEF Refused, Bound
    <3>2. ans'[p] = FromCache(req[p].cached, req[p].at)
      BY <1>6, <3>1 DEF ServerFails, TypeOK
    <3> QED
      BY <3>1, <3>2 DEF FromCache
  <2> QED
    BY <2>1, <2>2 DEF Refused, Bound
<1>7. ASSUME NEW p \in Processes, NEW ttl \in Ttls, WriteCaps(p, ttl) PROVE Refused'
  <2>1. cpc[p] = "writing" /\ cpc'[p] = "done" /\ UNCHANGED <<lpc, req, ans, lic>>
        /\ caps' = CapsEntry(ans[p], ttl) /\ refusedAt' = Refusals(ans[p])
        /\ ans[p] \in Answers /\ \A q \in Processes \ {p} : UNCHANGED cpc[q]
    BY <1>7 DEF WriteCaps, TypeOK
  <2>2. caps' # Nothing
    BY <2>1, CapsEntryType, NothingIsNothing
  <2>3. ASSUME NEW k \in Keys, refusedAt'[k] > 0
        PROVE  /\ caps'.scope = k /\ ~caps'.active /\ caps'.as = None
               /\ caps'.fetchedAt = refusedAt'[k]
    <3>1. ans[p].key = k /\ ans[p].as = None /\ ~ans[p].active /\ refusedAt'[k] = ans[p].at
      BY <2>1, <2>3 DEF Refusals
    <3> QED
      BY <2>1, <3>1 DEF CapsEntry
  <2> QED
    BY <2>1, <2>2, <2>3 DEF Refused, Bound
<1>8. ASSUME NEW p \in Processes, WriteCapsFails(p) PROVE Refused'
  <2>1. cpc[p] = "writing" /\ cpc'[p] = "done"
        /\ UNCHANGED <<refusedAt, caps, lpc, req, ans, lic>>
        /\ \A q \in Processes \ {p} : UNCHANGED cpc[q]
    BY <1>8 DEF WriteCapsFails, TypeOK
  <2> QED
    BY <2>1 DEF Refused, Bound
<1>9. ASSUME NEW p \in Processes, lpc[p] = "todo", UNCHANGED <<refusedAt, caps, cpc, req, ans>>,
             lic'[p].ok => lic'[p].token.key = req[p].key,
             \A q \in Processes \ {p} : UNCHANGED <<lpc[q], lic[q]>>
      PROVE  Refused'
  BY <1>9 DEF Refused, Bound
<1>10. ASSUME NEW p \in Processes, VerifyFresh(p) PROVE Refused'
  <2> DEFINE ok == Acceptable(req[p])
  <2>1. lic'[p] = [ok |-> ok, token |-> req[p].token, at |-> now]
    BY <1>10 DEF VerifyFresh, TypeOK
  <2>2. ok => req[p].token.key = req[p].key
    BY DEF Acceptable
  <2> HIDE DEF ok
  <2>3. lic'[p].ok => lic'[p].token.key = req[p].key
    BY <2>1, <2>2
  <2> QED
    BY <1>9, <1>10, <2>3 DEF VerifyFresh, TypeOK
<1>11. ASSUME NEW p \in Processes, VerifyExpired(p) PROVE Refused'
  <2> DEFINE ok == Acceptable(req[p]) /\ Remembers(grace, req[p].token, now)
  <2>1. lic'[p] = [ok |-> ok, token |-> req[p].token, at |-> now]
    BY <1>11 DEF VerifyExpired, TypeOK
  <2>2. ok => req[p].token.key = req[p].key
    BY DEF Acceptable
  <2> HIDE DEF ok
  <2>3. lic'[p].ok => lic'[p].token.key = req[p].key
    BY <2>1, <2>2
  <2> QED
    BY <1>9, <1>11, <2>3 DEF VerifyExpired, TypeOK
<1>12. ASSUME NEW p \in Processes, VerifyNothing(p) PROVE Refused'
  <2>1. ~lic'[p].ok
    BY <1>12 DEF VerifyNothing, Unlicensed, TypeOK
  <2> QED
    BY <1>9, <1>12, <2>1 DEF VerifyNothing, TypeOK
<1>13. ASSUME NEW p \in Processes, RememberToken(p) \/ RememberFails(p) PROVE Refused'
  <2>1. lpc[p] = "remembering" /\ lpc'[p] = "done"
        /\ UNCHANGED <<refusedAt, caps, cpc, req, ans, lic>>
        /\ \A q \in Processes \ {p} : UNCHANGED lpc[q]
    BY <1>13 DEF RememberToken, RememberFails, TypeOK
  <2> QED
    BY <2>1 DEF Refused, Bound
<1>14. ASSUME NEW p \in Processes, Combine(p) \/ Crash(p) PROVE Refused'
  BY <1>2, <1>14 DEF Combine, Crash, TypeOK
<1> QED
  BY <1>1, <1>3, <1>4, <1>5, <1>6, <1>7, <1>8, <1>10, <1>11, <1>12, <1>13, <1>14
  DEF Next, Tick, Cancel, Renew, Login, Activate, vars

(* For any number of processes: while a refusal that a call found recorded *)
(* is younger than Grace, the call is not answered with a signed token of  *)
(* the refused key.                                                        *)
THEOREM RefusalIsKept == Spec => []RefusalHolds
<1>1. Init => Refused
  BY DEF Init, Refused, Unrefused
<1>2. TypeOK /\ Refused => RefusalHolds
  <2> SUFFICES ASSUME TypeOK, Refused, NEW p \in Processes, cpc[p] = "done", lpc[p] = "done",
                      req[p].as = None,
                      Authority(ans[p], lic[p]).source = "signed-token",
                      0 < req[p].refused[Authority(ans[p], lic[p]).key],
                      req[p].refused[Authority(ans[p], lic[p]).key] <= req[p].at
               PROVE  req[p].at - req[p].refused[Authority(ans[p], lic[p]).key] >= Grace
    BY DEF RefusalHolds
  <2>1. ans[p] \in Answers /\ lic[p] \in Licenses /\ req[p] \in Requests
    BY DEF TypeOK
  <2>2. ans[p].source \in {"rest", "cache", "free"}
    BY <2>1 DEF Answers
  <2>3. /\ Authority(ans[p], lic[p]) = FromToken(lic[p]) /\ lic[p].ok
        /\ ans[p].source # "rest" /\ ~(ans[p].source = "cache" /\ ~ans[p].active)
    BY <2>2 DEF Authority, FromServer
  <2>4. Authority(ans[p], lic[p]).key = req[p].key
    BY <2>3 DEF FromToken, Refused
  <2>5. lic[p].token \in Tokens
    BY <2>1, <2>3 DEF Licenses
  <2>6. req[p].key \in Keys
    BY <2>3, <2>4, <2>5 DEF FromToken, Tokens
  <2>7. ~Bound(req[p])
    BY <2>3 DEF Refused
  <2>8. req[p].at \in Int /\ req[p].refused[req[p].key] \in Int /\ Grace \in Int
    BY <2>1, <2>6, EntitlementConstants DEF Requests
  <2> QED
    BY <2>4, <2>6, <2>7, <2>8 DEF Bound
<1> QED
  BY <1>1, <1>2, RefusalStep, TypeCorrect, PTL DEF Spec

-----------------------------------------------------------------------------
(* The packages of a scan. *)

Entries == [exists : BOOLEAN, at : Int]
Stages == {"waiting", "reading", "batching", "asking", "saving", "telling", "failed", "ended"}
Facts == [name : Looked, exists : BOOLEAN, at : Int]
ScanRecords ==
  [phase : {"idle", "running", "failed", "done", "killed"}, asked : Selections \cup {<<>>},
   net : BOOLEAN, turn : Nat \ {0}, doing : [Detectors -> Stages],
   pending : [Detectors -> SUBSET Names], known : [Names -> Entries], todo : SUBSET Names,
   sent : Int, answer : [Names -> {Unasked, Unknown, "exists", "missing"}], limited : BOOLEAN,
   checked : [Detectors -> SUBSET Names], told : SUBSET Facts, complete : BOOLEAN]

\* The types of the scans, of the file and of what the registry could have said.
ScanTypes ==
  /\ clock \in Int
  /\ registry \subseteq Looked
  /\ said \subseteq Facts
  /\ Saying(registry, clock) \subseteq said
  /\ cache \in [Names -> Entries]
  /\ scan \in [Scans -> ScanRecords]

\* Looked is a set of names, and the constants that are compared are numbers.
LEMMA ScanConstantsHold ==
  /\ Looked \subseteq Names /\ Looked # {}
  /\ Ttl \in Nat \ {0} /\ Patience \in Nat \ {0} /\ BatchSize \in Nat /\ Workers \in Nat
  /\ \A d \in Detectors : Limit[d] \in Nat /\ Mentioned[d] \subseteq Names
                          /\ IsFiniteSet(Mentioned[d])
  /\ Detectors = {"files", "slopsquat"} \cup Advised /\ "slopsquat" \notin Advised
  /\ "slopsquat" \in Detectors /\ "files" \in Detectors /\ Mentioned["files"] = {}
BY ScanConstants DEF Looked, Detectors, Advised

LEMMA NoScanType == NoScan \in ScanRecords /\ Empty \in [Names -> Entries] /\ Torn \in [Names -> Entries]
BY DEF NoScan, ScanRecords, Stages, Empty, Torn, NoEntry, Entries, Detectors, Unasked

LEMMA SayingType ==
  ASSUME NEW r \in SUBSET Looked, NEW t \in Int
  PROVE  Saying(r, t) \subseteq Facts
<1> SUFFICES ASSUME NEW n \in Looked PROVE [name |-> n, exists |-> n \in r, at |-> t] \in Facts
  BY DEF Saying
<1>1. (n \in r) \in BOOLEAN
  OBVIOUS
<1> QED
  BY <1>1 DEF Facts

\* A step of one scan that leaves the world and the file alone.
LEMMA BecomesTypes ==
  ASSUME ScanTypes, NEW s \in Scans, NEW r \in ScanRecords, Becomes(s, r),
         cache' \in [Names -> Entries]
  PROVE  ScanTypes'
BY DEF Becomes, ScanTypes


\* Of a scan whose detector d goes from one stage to another.
LEMMA DoingType ==
  ASSUME NEW r \in ScanRecords, NEW d \in Detectors, NEW g \in Stages
  PROVE  [r EXCEPT !.doing[d] = g] \in ScanRecords
BY DEF ScanRecords

LEMMA ScanTypeStep ==
  ASSUME ScanTypes, [ScanNext]_scanVars
  PROVE  ScanTypes'
<1> USE ScanConstantsHold
<1>1. CASE ClockTick
  <2>1. clock' = clock + 1 /\ said' = said \cup Saying(registry, clock + 1)
        /\ UNCHANGED <<registry, cache, scan>>
    BY <1>1 DEF ClockTick
  <2> QED
    BY <2>1, SayingType DEF ScanTypes
<1>2. ASSUME NEW n \in Looked, PublishPackage(n) PROVE ScanTypes'
  <2>1. registry' \subseteq Looked /\ said' = said \cup Saying(registry', clock)
        /\ UNCHANGED <<clock, cache, scan>>
    BY <1>2 DEF PublishPackage, ScanTypes
  <2> QED
    BY <2>1, SayingType DEF ScanTypes
<1>3. ASSUME NEW s \in Scans, StartScan(s) PROVE ScanTypes'
  <2>0. scan[s] \in ScanRecords
    BY DEF ScanTypes
  <2>1. PICK net \in BOOLEAN, asked \in Selections :
          Becomes(s, [scan[s] EXCEPT !.phase = "running", !.asked = asked, !.net = net])
    BY <1>3 DEF StartScan
  <2>2. [scan[s] EXCEPT !.phase = "running", !.asked = asked, !.net = net] \in ScanRecords
    BY <2>0 DEF ScanRecords
  <2> QED
    BY <1>3, <2>1, <2>2, BecomesTypes DEF StartScan, ScanTypes
<1>4. ASSUME NEW s \in Scans, StartDetector(s) PROVE ScanTypes'
  <2>0. scan[s] \in ScanRecords
    BY DEF ScanTypes
  <2> DEFINE d == scan[s].asked[scan[s].turn]
             t == scan[s].turn + 1
             r == [scan[s] EXCEPT !.turn = t, !.doing[d] = "reading"]
  <2>2. Becomes(s, r) /\ UNCHANGED cache
    BY <1>4 DEF StartDetector
  <2>3. t \in Nat \ {0}
    BY <2>0 DEF ScanRecords
  <2> HIDE DEF t
  <2>1. r \in ScanRecords
    BY <2>0, <2>3 DEF ScanRecords, Stages
  <2> HIDE DEF r
  <2> QED
    BY <2>1, <2>2, BecomesTypes DEF ScanTypes
<1>5. ASSUME NEW s \in Scans, FilesRead(s) \/ FilesFail(s) PROVE ScanTypes'
  <2>0. scan[s] \in ScanRecords
    BY DEF ScanTypes
  <2>1. PICK g \in {"failed", "ended"}, p \in {"failed", scan[s].phase} :
          Becomes(s, [scan[s] EXCEPT !.doing["files"] = g, !.phase = p])
    <3>1. CASE FilesRead(s)
      <4>1. [scan[s] EXCEPT !.doing["files"] = "ended"]
              = [scan[s] EXCEPT !.doing["files"] = "ended", !.phase = scan[s].phase]
        BY DEF ScanTypes, ScanRecords
      <4> QED
        BY <3>1, <4>1 DEF FilesRead
    <3>2. CASE FilesFail(s)
      BY <3>2 DEF FilesFail
    <3> QED
      BY <1>5, <3>1, <3>2
  <2>2. [scan[s] EXCEPT !.doing["files"] = g, !.phase = p] \in ScanRecords
    BY <2>0 DEF ScanRecords, Stages
  <2> QED
    BY <1>5, <2>1, <2>2, BecomesTypes DEF FilesRead, FilesFail, ScanTypes
<1>6. ASSUME NEW s \in Scans, NEW d \in Advised, AskAdvisories(s, d) PROVE ScanTypes'
  <2>0. scan[s] \in ScanRecords
    BY DEF ScanTypes
  <2>1. CASE scan[s].net
    <3>1. PICK c \in Cut(d, Mentioned[d]) :
            Becomes(s, [scan[s] EXCEPT !.doing[d] = "asking", !.pending[d] = c])
      BY <1>6, <2>1 DEF AskAdvisories
    <3>2. c \subseteq Names
      BY <3>1 DEF Cut
    <3>3. [scan[s] EXCEPT !.doing[d] = "asking", !.pending[d] = c] \in ScanRecords
      BY <2>0, <3>2 DEF ScanRecords, Stages
    <3> QED
      BY <1>6, <3>1, <3>3, BecomesTypes DEF AskAdvisories, ScanTypes
  <2>2. CASE ~scan[s].net
    <3> DEFINE l == scan[s].limited \/ Mentioned[d] # {}
               r == [scan[s] EXCEPT !.doing[d] = "ended", !.limited = l]
    <3>1. Becomes(s, r) /\ UNCHANGED cache
      BY <1>6, <2>2 DEF AskAdvisories
    <3>2. l \in BOOLEAN
      OBVIOUS
    <3> HIDE DEF l
    <3>3. r \in ScanRecords
      BY <2>0, <3>2 DEF ScanRecords, Stages
    <3> HIDE DEF r
    <3> QED
      BY <3>1, <3>3, BecomesTypes DEF ScanTypes
  <2> QED
    BY <2>1, <2>2
<1>7. ASSUME NEW s \in Scans, NEW d \in Advised, NEW n \in Names,
             AdvisoryAnswered(s, d, n) \/ AdvisoryFails(s, d, n)
      PROVE  ScanTypes'
  <2>0. scan[s] \in ScanRecords
    BY DEF ScanTypes
  <2> DEFINE r == [scan[s] EXCEPT !.pending[d] = @ \ {n}, !.checked[d] = @ \cup {n}]
             t == [scan[s] EXCEPT !.pending[d] = @ \ {n}, !.limited = TRUE]
  <2>1. r \in ScanRecords /\ t \in ScanRecords
    BY <2>0 DEF ScanRecords, Advised, Detectors
  <2>2. (Becomes(s, r) \/ Becomes(s, t)) /\ UNCHANGED cache
    BY <1>7 DEF AdvisoryAnswered, AdvisoryFails
  <2> HIDE DEF r, t
  <2> QED
    BY <2>1, <2>2, BecomesTypes DEF ScanTypes
<1>8. ASSUME NEW s \in Scans, NEW d \in Advised, AdvisoriesDone(s, d) PROVE ScanTypes'
  BY <1>8, DoingType, BecomesTypes DEF AdvisoriesDone, ScanTypes, Stages
<1>9. ASSUME NEW s \in Scans, LoadCache(s) PROVE ScanTypes'
  <2>0. scan[s] \in ScanRecords
    BY DEF ScanTypes
  <2> DEFINE known == IF cache = Torn THEN Empty ELSE cache
             stale == {n \in Looked : ~FreshEntry(known[n])}
             l == scan[s].limited \/ (~scan[s].net /\ Looked # {})
             g == IF scan[s].net THEN "batching" ELSE "telling"
  <2>1. PICK c \in Cut("slopsquat", stale) :
          Becomes(s, [scan[s] EXCEPT !.doing["slopsquat"] = g, !.known = known,
                                     !.checked["slopsquat"] = Looked \ stale,
                                     !.todo = IF scan[s].net THEN c ELSE {}, !.limited = l])
    BY <1>9 DEF LoadCache
  <2> DEFINE todo == IF scan[s].net THEN c ELSE {}
             checked == Looked \ stale
             r == [scan[s] EXCEPT !.doing["slopsquat"] = g, !.known = known,
                                  !.checked["slopsquat"] = checked,
                                  !.todo = todo, !.limited = l]
  <2>2. /\ known \in [Names -> Entries] /\ l \in BOOLEAN /\ g \in Stages
        /\ todo \subseteq Names /\ checked \subseteq Names
    BY <2>1, NoScanType DEF ScanTypes, Cut, Stages
  <2>3. Becomes(s, r)
    BY <2>1
  <2> HIDE DEF known, l, g, todo, checked
  <2>4. r \in ScanRecords
    BY <2>0, <2>2 DEF ScanRecords
  <2> HIDE DEF r
  <2> QED
    BY <1>9, <2>3, <2>4, BecomesTypes DEF LoadCache, ScanTypes
<1>10. ASSUME NEW s \in Scans, SendBatch(s) PROVE ScanTypes'
  <2>0. scan[s] \in ScanRecords
    BY DEF ScanTypes
  <2>1. PICK b \in SUBSET scan[s].todo :
          Becomes(s, [scan[s] EXCEPT !.doing["slopsquat"] = "asking", !.pending["slopsquat"] = b,
                                     !.todo = @ \ b, !.sent = clock])
    BY <1>10 DEF SendBatch
  <2> DEFINE r == [scan[s] EXCEPT !.doing["slopsquat"] = "asking", !.pending["slopsquat"] = b,
                                  !.todo = @ \ b, !.sent = clock]
  <2>2. r \in ScanRecords
    BY <2>0 DEF ScanRecords, Stages, ScanTypes
  <2>3. Becomes(s, r)
    BY <2>1
  <2> HIDE DEF r
  <2> QED
    BY <1>10, <2>2, <2>3, BecomesTypes DEF SendBatch, ScanTypes
<1>11. ASSUME NEW s \in Scans, EnterBatch(s) PROVE ScanTypes'
  <2>0. scan[s] \in ScanRecords
    BY DEF ScanTypes
  <2> DEFINE known == [n \in Names |-> IF n \in Answered(s)
                                       THEN [exists |-> scan[s].answer[n] = "exists", at |-> clock]
                                       ELSE scan[s].known[n]]
             answer == [n \in Names |-> Unasked]
             r == [scan[s] EXCEPT !.doing["slopsquat"] = "batching", !.known = known,
                                  !.checked["slopsquat"] = @ \cup Answered(s), !.answer = answer]
  <2>1. Becomes(s, r) /\ UNCHANGED cache
    BY <1>11 DEF EnterBatch
  <2>2. known \in [Names -> Entries]
    BY DEF ScanTypes, ScanRecords, Entries
  <2>3. answer \in [Names -> {Unasked, Unknown, "exists", "missing"}]
    OBVIOUS
  <2> HIDE DEF known, answer
  <2>4. r \in ScanRecords
    BY <2>0, <2>2, <2>3 DEF ScanRecords, Stages, Answered
  <2> HIDE DEF r
  <2> QED
    BY <2>1, <2>4, BecomesTypes DEF ScanTypes
<1>12. ASSUME NEW s \in Scans, NEW n \in Names, RegistryAnswered(s, n) \/ RegistryFails(s, n)
       PROVE  ScanTypes'
  <2>0. scan[s] \in ScanRecords
    BY DEF ScanTypes
  <2> DEFINE a == IF n \in registry THEN "exists" ELSE "missing"
             r == [scan[s] EXCEPT !.pending["slopsquat"] = @ \ {n}, !.answer[n] = a]
             t == [scan[s] EXCEPT !.pending["slopsquat"] = @ \ {n}, !.answer[n] = Unknown,
                                  !.limited = TRUE]
  <2>1. r \in ScanRecords /\ t \in ScanRecords
    BY <2>0 DEF ScanRecords
  <2>2. (Becomes(s, r) \/ Becomes(s, t)) /\ UNCHANGED cache
    BY <1>12 DEF RegistryAnswered, RegistryFails
  <2> HIDE DEF r, t
  <2> QED
    BY <2>1, <2>2, BecomesTypes DEF ScanTypes
<1>13. ASSUME NEW s \in Scans, TruncateCache(s) PROVE ScanTypes'
  BY <1>13, DoingType, BecomesTypes, NoScanType DEF TruncateCache, ScanTypes, Stages
<1>14. ASSUME NEW s \in Scans, WriteCacheFile(s) PROVE ScanTypes'
  <2>1. cache' \in [Names -> Entries]
    BY <1>14, NoScanType DEF WriteCacheFile, ScanTypes, ScanRecords
  <2> QED
    BY <1>14, <2>1, DoingType, BecomesTypes DEF WriteCacheFile, ScanTypes, Stages
<1>15. ASSUME NEW s \in Scans, SaveFails(s) PROVE ScanTypes'
  BY <1>15, DoingType, BecomesTypes DEF SaveFails, ScanTypes, Stages
<1>16. ASSUME NEW s \in Scans, TellRegistry(s) PROVE ScanTypes'
  <2>0. scan[s] \in ScanRecords
    BY DEF ScanTypes
  <2> DEFINE told == {[name |-> n, exists |-> scan[s].known[n].exists, at |-> clock] :
                        n \in {n \in Looked : FreshEntry(scan[s].known[n])}}
             r == [scan[s] EXCEPT !.doing["slopsquat"] = "ended", !.known = Empty, !.told = told]
  <2>1. Becomes(s, r) /\ UNCHANGED cache
    BY <1>16 DEF TellRegistry
  <2>2. told \subseteq Facts
    BY DEF ScanTypes, ScanRecords, Entries, Facts
  <2> HIDE DEF told
  <2>3. r \in ScanRecords
    BY <2>0, <2>2, NoScanType DEF ScanRecords, Stages
  <2> HIDE DEF r
  <2> QED
    BY <2>1, <2>3, BecomesTypes DEF ScanTypes
<1>17. ASSUME NEW s \in Scans, FinishScan(s) PROVE ScanTypes'
  <2>1. PICK other \in BOOLEAN :
       Becomes(s, [NoScan EXCEPT !.phase = "done", !.asked = scan[s].asked, !.told = scan[s].told,
                                 !.checked = scan[s].checked,
                                 !.complete = ~(scan[s].limited \/ other)])
    BY <1>17 DEF FinishScan
  <2> DEFINE c == ~(scan[s].limited \/ other)
             r == [NoScan EXCEPT !.phase = "done", !.asked = scan[s].asked, !.told = scan[s].told,
                                 !.checked = scan[s].checked, !.complete = c]
  <2>2. c \in BOOLEAN
    OBVIOUS
  <2>3. Becomes(s, r)
    BY <2>1
  <2> HIDE DEF c
  <2>4. r \in ScanRecords
    BY <2>2, NoScanType DEF ScanTypes, ScanRecords
  <2> HIDE DEF r
  <2> QED
    BY <1>17, <2>3, <2>4, BecomesTypes DEF FinishScan, ScanTypes
<1>18. ASSUME NEW s \in Scans, KillScan(s) PROVE ScanTypes'
  <2>1. [NoScan EXCEPT !.phase = "killed"] \in ScanRecords
    BY NoScanType DEF ScanRecords
  <2> QED
    BY <1>18, <2>1, BecomesTypes DEF KillScan, ScanTypes
<1>19. CASE UNCHANGED scanVars
  BY <1>19 DEF scanVars, ScanTypes, Saying
<1> QED
  BY <1>1, <1>2, <1>3, <1>4, <1>5, <1>6, <1>7, <1>8, <1>9, <1>10, <1>11, <1>12, <1>13, <1>14,
     <1>15, <1>16, <1>17, <1>18, <1>19 DEF ScanNext


-----------------------------------------------------------------------------
\* The registry could have said this of package n, at most Patience before the entry's time.
Backed(n, e) ==
  \/ e = NoEntry
  \/ \E t \in Int : /\ [name |-> n, exists |-> e.exists, at |-> t] \in said
                    /\ t <= e.at /\ e.at <= clock /\ e.at - t <= Patience

\* The detectors from turn on wait, those before do not; a scan not started is as new.
InTurn(r) ==
  /\ r.phase = "idle" => r = NoScan
  /\ \A i \in DOMAIN r.asked : i >= r.turn <=> r.doing[r.asked[i]] = "waiting"

\* A batch is not late, and what it was answered was said since it was sent.
BatchTrue(r) ==
  /\ r.doing["slopsquat"] = "asking" =>
       r.phase \in {"running", "failed"} /\ r.sent <= clock /\ clock <= r.sent + Patience
  /\ r.pending["slopsquat"] \subseteq Looked /\ r.todo \subseteq Looked
  /\ \A n \in Names : r.answer[n] \in {"exists", "missing"} =>
       /\ r.doing["slopsquat"] = "asking"
       /\ \E t \in Int : /\ [name |-> n, exists |-> r.answer[n] = "exists", at |-> t] \in said
                         /\ r.sent <= t /\ t <= clock

\* What one scan knows and tells.
Sound(r) ==
  /\ InTurn(r)
  /\ BatchTrue(r)
  /\ \A n \in Names : Backed(n, r.known[n])
  /\ \A f \in r.told : \E a \in said : /\ a.name = f.name /\ a.exists = f.exists
                                       /\ a.at <= f.at /\ f.at - a.at < Ttl + Patience

CacheBacked == cache = Torn \/ \A n \in Names : Backed(n, cache[n])

SoundInv == CacheBacked /\ \A s \in Scans : Sound(scan[s])

LEMMA BecomesSound ==
  ASSUME ScanTypes, SoundInv, NEW s \in Scans, NEW r, Becomes(s, r), Sound(r), CacheBacked'
  PROVE  SoundInv'
<1>1. \A t \in Scans : Sound(scan'[t])
  BY DEF Becomes, ScanTypes, SoundInv
<1>2. UNCHANGED <<clock, said>>
  BY DEF Becomes
<1>3. \A q : Sound(q) => Sound(q)'
  BY <1>2 DEF Sound, InTurn, BatchTrue, Backed
<1> QED
  BY <1>1, <1>2 DEF SoundInv, Sound, InTurn, BatchTrue, Backed

LEMMA CacheKept ==
  ASSUME SoundInv, NEW s, NEW r, Becomes(s, r), UNCHANGED cache
  PROVE  CacheBacked'
BY DEF Becomes, SoundInv, CacheBacked, Backed

\* The world goes on: more is said, and no batch is late.
LEMMA WorldSound ==
  ASSUME ScanTypes, SoundInv, said \subseteq said', clock' \in Int, clock' >= clock,
         \A s \in Scans : scan[s].doing["slopsquat"] = "asking"
                            /\ scan[s].phase \in {"running", "failed"}
                              => clock' <= scan[s].sent + Patience,
         UNCHANGED <<cache, scan>>
  PROVE  SoundInv'
<1> USE ScanConstantsHold
<1>1. ASSUME NEW n, NEW e \in Entries, Backed(n, e) PROVE Backed(n, e)'
  <2>1. e.at \in Int /\ clock \in Int
    BY DEF Entries, ScanTypes
  <2>2. CASE e = NoEntry
    BY <2>2 DEF Backed
  <2>3. CASE e # NoEntry
    <3>1. PICK t \in Int : /\ [name |-> n, exists |-> e.exists, at |-> t] \in said
                           /\ t <= e.at /\ e.at <= clock /\ e.at - t <= Patience
      BY <1>1, <2>3 DEF Backed
    <3>2. [name |-> n, exists |-> e.exists, at |-> t] \in said'
      BY <3>1
    <3>3. e.at <= clock'
      BY <2>1, <3>1
    <3> QED
      BY <3>1, <3>2, <3>3 DEF Backed
  <2> QED
    BY <2>2, <2>3
<1>2. CacheBacked'
  BY <1>1 DEF SoundInv, CacheBacked, Backed, ScanTypes
<1>3. ASSUME NEW s \in Scans PROVE (Sound(scan[s]))'
  <2>0. scan[s] \in ScanRecords /\ Sound(scan[s]) /\ scan'[s] = scan[s] /\ clock \in Int
    BY DEF ScanTypes, SoundInv
  <2>1. scan[s].sent \in Int
    BY <2>0 DEF ScanRecords
  <2>2. (InTurn(scan[s]))'
    BY <2>0 DEF Sound, InTurn
  <2>3. (BatchTrue(scan[s]))'
    BY <2>0, <2>1 DEF Sound, BatchTrue
  <2>4. (\A n \in Names : Backed(n, scan[s].known[n]))'
    <3>1. \A n \in Names : scan[s].known[n] \in Entries /\ Backed(n, scan[s].known[n])
      BY <2>0 DEF ScanRecords, Sound
    <3> QED
      BY <1>1, <2>0, <3>1 DEF Backed
  <2>5. \A f \in scan'[s].told : \E a \in said' : /\ a.name = f.name /\ a.exists = f.exists
                                       /\ a.at <= f.at /\ f.at - a.at < Ttl + Patience
    BY <2>0 DEF Sound
  <2> QED
    BY <2>2, <2>3, <2>4, <2>5 DEF Sound
<1> QED
  BY <1>2, <1>3 DEF SoundInv

LEMMA AskedType ==
  ASSUME NEW r \in ScanRecords
  PROVE  /\ r.asked \in Seq(Detectors) /\ r.turn \in Nat \ {0}
         /\ \A i, j \in DOMAIN r.asked : r.asked[i] = r.asked[j] => i = j
<1>1. r.asked \in Selections \cup {<<>>} /\ r.turn \in Nat \ {0}
  BY DEF ScanRecords
<1>2. CASE r.asked = <<>>
  BY <1>1, <1>2
<1>3. CASE r.asked \in Selections
  BY <1>1, <1>3, ScanConstants
<1> QED
  BY <1>1, <1>2, <1>3

\* A step of a started scan after which the same detectors wait.
LEMMA TurnKept ==
  ASSUME NEW r \in ScanRecords, NEW q \in ScanRecords, InTurn(r),
         q.phase # "idle", q.asked = r.asked, q.turn = r.turn,
         \A d \in Detectors : q.doing[d] = "waiting" <=> r.doing[d] = "waiting"
  PROVE  InTurn(q)
<1>1. \A i \in DOMAIN q.asked : q.asked[i] \in Detectors
  BY ScanConstants DEF ScanRecords
<1> QED
  BY <1>1 DEF InTurn

\* A step that only moves a detector, not the registry's, or changes the coverage.
LEMMA OthersSound ==
  ASSUME NEW r \in ScanRecords, NEW q \in ScanRecords, Sound(r), InTurn(q),
         q.phase = r.phase \/ q.phase = "failed",
         q.doing["slopsquat"] = r.doing["slopsquat"],
         q.pending["slopsquat"] = r.pending["slopsquat"],
         q.todo = r.todo, q.sent = r.sent, q.answer = r.answer, q.known = r.known, q.told = r.told
  PROVE  Sound(q)
BY DEF Sound, BatchTrue

LEMMA ScanSoundStep ==
  ASSUME ScanTypes, ScanTypes', SoundInv, [ScanNext]_scanVars
  PROVE  SoundInv'
<1> USE ScanConstantsHold
<1>1. CASE ClockTick
  <2>1. clock' = clock + 1 /\ said \subseteq said' /\ UNCHANGED <<cache, scan>>
        /\ \A s \in Scans : Doing(s, "slopsquat", "asking") => clock < scan[s].sent + Patience
    BY <1>1 DEF ClockTick
  <2>2. ASSUME NEW s \in Scans, scan[s].doing["slopsquat"] = "asking",
               scan[s].phase \in {"running", "failed"}
        PROVE  clock' <= scan[s].sent + Patience
    <3>1. clock < scan[s].sent + Patience
      BY <2>1, <2>2 DEF Doing, Alive
    <3>2. scan[s].sent \in Int /\ clock \in Int
      BY DEF ScanTypes, ScanRecords
    <3> QED
      BY <2>1, <3>1, <3>2
  <2>3. clock' \in Int /\ clock' >= clock
    BY <2>1 DEF ScanTypes
  <2> QED
    BY <2>1, <2>2, <2>3, WorldSound
<1>2. ASSUME NEW n \in Looked, PublishPackage(n) PROVE SoundInv'
  <2>1. clock' = clock /\ said \subseteq said' /\ UNCHANGED <<cache, scan>> /\ clock \in Int
    BY <1>2 DEF PublishPackage, ScanTypes
  <2>2. \A s \in Scans : scan[s].doing["slopsquat"] = "asking"
                           => clock <= scan[s].sent + Patience
    BY DEF SoundInv, Sound, BatchTrue
  <2> QED
    BY <2>1, <2>2, WorldSound
<1>3. ASSUME NEW s \in Scans, NEW r, Becomes(s, r), UNCHANGED cache, Sound(r) PROVE SoundInv'
  BY <1>3, BecomesSound, CacheKept
<1>4. \A s \in Scans : scan[s] \in ScanRecords /\ Sound(scan[s])
  BY DEF ScanTypes, SoundInv
<1>5. \A s \in Scans : \A r : Becomes(s, r) => r \in ScanRecords
  BY DEF Becomes, ScanTypes
<1>6. ASSUME NEW s \in Scans, StartScan(s) PROVE SoundInv'
  <2>1. PICK net \in BOOLEAN, asked \in Selections :
          Becomes(s, [scan[s] EXCEPT !.phase = "running", !.asked = asked, !.net = net])
    BY <1>6 DEF StartScan
  <2> DEFINE r == [scan[s] EXCEPT !.phase = "running", !.asked = asked, !.net = net]
  <2>2. scan[s] = NoScan
    BY <1>4, <1>6 DEF StartScan, Sound, InTurn
  <2>3. /\ r.phase = "running" /\ r.turn = 1 /\ r.asked = asked
        /\ r.doing = [d \in Detectors |-> "waiting"]
        /\ r.pending = NoScan.pending /\ r.todo = {} /\ r.answer = NoScan.answer
        /\ r.known = scan[s].known /\ r.told = scan[s].told
    BY <2>2 DEF NoScan
  <2>4. \A i \in DOMAIN asked : i >= 1 /\ asked[i] \in Detectors
    BY ScanConstants
  <2>5. InTurn(r)
    BY <2>3, <2>4 DEF InTurn
  <2>6. BatchTrue(r)
    BY <2>3 DEF BatchTrue, NoScan, Unasked
  <2>7. Sound(r)
    BY <1>4, <2>3, <2>5, <2>6 DEF Sound
  <2> QED
    BY <1>3, <1>6, <2>1, <2>7 DEF StartScan
<1>7. ASSUME NEW s \in Scans, StartDetector(s) PROVE SoundInv'
  <2> DEFINE d == scan[s].asked[scan[s].turn]
             r == [scan[s] EXCEPT !.turn = @ + 1, !.doing[d] = "reading"]
  <2>1. Becomes(s, r) /\ UNCHANGED cache /\ scan[s].turn <= Len(scan[s].asked)
        /\ scan[s].phase \in {"running", "failed"}
    BY <1>7 DEF StartDetector, Alive
  <2>2. scan[s] \in ScanRecords /\ r \in ScanRecords
    BY <1>4, <1>5, <2>1
  <2>3. scan[s].asked \in Seq(Detectors) /\ scan[s].turn \in Nat \ {0}
        /\ \A i, j \in DOMAIN scan[s].asked : scan[s].asked[i] = scan[s].asked[j] => i = j
    BY <2>2, AskedType
  <2>4. scan[s].turn \in DOMAIN scan[s].asked /\ d \in Detectors
    BY <2>1, <2>3
  <2>5. scan[s].doing[d] = "waiting"
    BY <1>4, <2>3, <2>4 DEF Sound, InTurn
  <2>6. /\ r.turn = scan[s].turn + 1 /\ r.asked = scan[s].asked /\ r.phase = scan[s].phase
        /\ \A e \in Detectors : r.doing[e] = IF e = d THEN "reading" ELSE scan[s].doing[e]
        /\ r.pending = scan[s].pending /\ r.todo = scan[s].todo /\ r.sent = scan[s].sent
        /\ r.answer = scan[s].answer /\ r.known = scan[s].known /\ r.told = scan[s].told
    BY <2>2, <2>4 DEF ScanRecords
  <2>7. InTurn(r)
    <3>1. ASSUME NEW i \in DOMAIN r.asked PROVE i >= r.turn <=> r.doing[r.asked[i]] = "waiting"
      <4>1. i \in Int /\ r.asked[i] \in Detectors
        BY <2>3, <2>6, <3>1
      <4>2. i >= scan[s].turn <=> scan[s].doing[r.asked[i]] = "waiting"
        BY <1>4, <2>6, <3>1 DEF Sound, InTurn
      <4>3. r.asked[i] = d <=> i = scan[s].turn
        BY <2>3, <2>4, <2>6, <3>1
      <4> QED
        BY <2>3, <2>6, <4>1, <4>2, <4>3
    <3> QED
      BY <2>1, <2>6, <3>1 DEF InTurn
  <2>8. BatchTrue(r)
    BY <1>4, <2>5, <2>6 DEF Sound, BatchTrue
  <2>9. Sound(r)
    BY <1>4, <2>6, <2>7, <2>8 DEF Sound
  <2> QED
    BY <1>3, <2>1, <2>9
<1>8. ASSUME NEW s \in Scans, FilesRead(s) \/ FilesFail(s) PROVE SoundInv'
  <2>1. PICK r : /\ Becomes(s, r) /\ UNCHANGED cache
                 /\ \/ r = [scan[s] EXCEPT !.doing["files"] = "ended"]
                    \/ r = [scan[s] EXCEPT !.doing["files"] = "failed", !.phase = "failed"]
    BY <1>8 DEF FilesRead, FilesFail
  <2>2. scan[s] \in ScanRecords /\ r \in ScanRecords /\ scan[s].phase \in {"running", "failed"}
        /\ scan[s].doing["files"] = "reading"
    BY <1>4, <1>5, <1>8, <2>1 DEF FilesRead, FilesFail, Doing, Alive
  <2>3. /\ r.turn = scan[s].turn /\ r.asked = scan[s].asked
        /\ r.phase = scan[s].phase \/ r.phase = "failed"
        /\ \A e \in Detectors : r.doing[e] = IF e = "files" THEN r.doing["files"] ELSE scan[s].doing[e]
        /\ r.doing["files"] \in {"ended", "failed"}
        /\ r.pending = scan[s].pending /\ r.todo = scan[s].todo /\ r.sent = scan[s].sent
        /\ r.answer = scan[s].answer /\ r.known = scan[s].known /\ r.told = scan[s].told
    <3>1. CASE r = [scan[s] EXCEPT !.doing["files"] = "ended"]
      BY <2>2, <3>1 DEF ScanRecords
    <3>2. CASE r = [scan[s] EXCEPT !.doing["files"] = "failed", !.phase = "failed"]
      BY <2>2, <3>2 DEF ScanRecords
    <3> QED
      BY <2>1, <3>1, <3>2
  <2>4. InTurn(r)
    BY <1>4, <2>2, <2>3, TurnKept DEF Sound
  <2>5. Sound(r)
    BY <1>4, <2>2, <2>3, <2>4, OthersSound
  <2> QED
    BY <1>3, <2>1, <2>5
<1>9. ASSUME NEW s \in Scans, NEW d \in Advised, NEW r, Becomes(s, r), UNCHANGED cache,
             scan[s].phase \in {"running", "failed"}, r.phase = scan[s].phase,
             r.turn = scan[s].turn, r.asked = scan[s].asked,
             scan[s].doing[d] # "waiting", r.doing[d] # "waiting",
             \A e \in Detectors \ {d} : r.doing[e] = scan[s].doing[e]
                                        /\ r.pending[e] = scan[s].pending[e],
             r.todo = scan[s].todo, r.sent = scan[s].sent,
             r.answer = scan[s].answer, r.known = scan[s].known, r.told = scan[s].told
      PROVE  SoundInv'
  <2>1. scan[s] \in ScanRecords /\ r \in ScanRecords
    BY <1>4, <1>5, <1>9
  <2>2. InTurn(r)
    BY <1>4, <1>9, <2>1, TurnKept DEF Sound
  <2>3. Sound(r)
    BY <1>4, <1>9, <2>1, <2>2, OthersSound
  <2> QED
    BY <1>3, <1>9, <2>3
<1>10. ASSUME NEW s \in Scans, NEW d \in Advised, AskAdvisories(s, d) PROVE SoundInv'
  <2>0. scan[s] \in ScanRecords /\ d \in Detectors
    BY <1>4
  <2>1. CASE scan[s].net
    <3>1. PICK c \in Cut(d, Mentioned[d]) :
            Becomes(s, [scan[s] EXCEPT !.doing[d] = "asking", !.pending[d] = c])
      BY <1>10, <2>1 DEF AskAdvisories
    <3> DEFINE r == [scan[s] EXCEPT !.doing[d] = "asking", !.pending[d] = c]
    <3>2. /\ r.phase = scan[s].phase /\ r.turn = scan[s].turn /\ r.asked = scan[s].asked
          /\ \A e \in Detectors : r.doing[e] = IF e = d THEN "asking" ELSE scan[s].doing[e]
          /\ \A e \in Detectors \ {d} : r.pending[e] = scan[s].pending[e]
          /\ r.todo = scan[s].todo /\ r.sent = scan[s].sent
          /\ r.answer = scan[s].answer /\ r.known = scan[s].known /\ r.told = scan[s].told
      BY <2>0 DEF ScanRecords
    <3>3. Becomes(s, r)
      BY <3>1
    <3> HIDE DEF r
    <3> QED
      BY <1>9, <1>10, <3>2, <3>3 DEF AskAdvisories, Doing, Alive
  <2>2. CASE ~scan[s].net
    <3> DEFINE l == scan[s].limited \/ Mentioned[d] # {}
               r == [scan[s] EXCEPT !.doing[d] = "ended", !.limited = l]
    <3>1. Becomes(s, r) /\ UNCHANGED cache
      BY <1>10, <2>2 DEF AskAdvisories
    <3> HIDE DEF l
    <3>2. /\ r.phase = scan[s].phase /\ r.turn = scan[s].turn /\ r.asked = scan[s].asked
          /\ \A e \in Detectors : r.doing[e] = IF e = d THEN "ended" ELSE scan[s].doing[e]
          /\ \A e \in Detectors \ {d} : r.pending[e] = scan[s].pending[e]
          /\ r.todo = scan[s].todo /\ r.sent = scan[s].sent
          /\ r.answer = scan[s].answer /\ r.known = scan[s].known /\ r.told = scan[s].told
      BY <2>0 DEF ScanRecords
    <3> HIDE DEF r
    <3> QED
      BY <1>9, <1>10, <3>1, <3>2 DEF AskAdvisories, Doing, Alive
  <2> QED
    BY <2>1, <2>2
<1>11. ASSUME NEW s \in Scans, NEW d \in Advised, NEW n \in Names,
              AdvisoryAnswered(s, d, n) \/ AdvisoryFails(s, d, n)
       PROVE  SoundInv'
  <2>0. scan[s] \in ScanRecords /\ d \in Detectors
    BY <1>4
  <2>1. PICK r : /\ Becomes(s, r) /\ UNCHANGED cache
                 /\ \/ r = [scan[s] EXCEPT !.pending[d] = @ \ {n}, !.checked[d] = @ \cup {n}]
                    \/ r = [scan[s] EXCEPT !.pending[d] = @ \ {n}, !.limited = TRUE]
    BY <1>11 DEF AdvisoryAnswered, AdvisoryFails
  <2>2. /\ r.phase = scan[s].phase /\ r.turn = scan[s].turn /\ r.asked = scan[s].asked
        /\ r.doing = scan[s].doing
        /\ \A e \in Detectors \ {d} : r.pending[e] = scan[s].pending[e]
        /\ r.todo = scan[s].todo /\ r.sent = scan[s].sent
        /\ r.answer = scan[s].answer /\ r.known = scan[s].known /\ r.told = scan[s].told
    <3>1. CASE r = [scan[s] EXCEPT !.pending[d] = @ \ {n}, !.checked[d] = @ \cup {n}]
      BY <2>0, <3>1 DEF ScanRecords
    <3>2. CASE r = [scan[s] EXCEPT !.pending[d] = @ \ {n}, !.limited = TRUE]
      BY <2>0, <3>2 DEF ScanRecords
    <3> QED
      BY <2>1, <3>1, <3>2
  <2>3. scan[s].phase \in {"running", "failed"} /\ scan[s].doing[d] = "asking"
    BY <1>11 DEF AdvisoryAnswered, AdvisoryFails, Doing, Alive
  <2> QED
    BY <1>9, <2>1, <2>2, <2>3
<1>12. ASSUME NEW s \in Scans, NEW d \in Advised, AdvisoriesDone(s, d) PROVE SoundInv'
  <2>0. scan[s] \in ScanRecords /\ d \in Detectors
    BY <1>4
  <2> DEFINE r == [scan[s] EXCEPT !.doing[d] = "ended"]
  <2>1. Becomes(s, r) /\ UNCHANGED cache /\ scan[s].phase \in {"running", "failed"}
        /\ scan[s].doing[d] = "asking"
    BY <1>12 DEF AdvisoriesDone, Doing, Alive
  <2>2. /\ r.phase = scan[s].phase /\ r.turn = scan[s].turn /\ r.asked = scan[s].asked
        /\ \A e \in Detectors : r.doing[e] = IF e = d THEN "ended" ELSE scan[s].doing[e]
        /\ r.pending = scan[s].pending
        /\ r.todo = scan[s].todo /\ r.sent = scan[s].sent
        /\ r.answer = scan[s].answer /\ r.known = scan[s].known /\ r.told = scan[s].told
    BY <2>0 DEF ScanRecords
  <2> HIDE DEF r
  <2> QED
    BY <1>9, <2>1, <2>2
<1>13. ASSUME NEW s \in Scans, KillScan(s) PROVE SoundInv'
  <2> DEFINE r == [NoScan EXCEPT !.phase = "killed"]
  <2>1. /\ r.phase = "killed" /\ r.asked = <<>> /\ r.doing = [d \in Detectors |-> "waiting"]
        /\ r.pending = [d \in Detectors |-> {}] /\ r.todo = {} /\ r.answer = [n \in Names |-> Unasked]
        /\ r.known = Empty /\ r.told = {}
    BY DEF NoScan
  <2>2. InTurn(r) /\ BatchTrue(r) /\ \A n \in Names : Backed(n, r.known[n])
    BY <2>1 DEF InTurn, BatchTrue, Unasked, Backed, Empty
  <2>3. Sound(r)
    BY <2>1, <2>2 DEF Sound
  <2> QED
    BY <1>3, <1>13, <2>3 DEF KillScan
<1>14. ASSUME NEW s \in Scans, FinishScan(s) PROVE SoundInv'
  <2>1. PICK other \in BOOLEAN :
       Becomes(s, [NoScan EXCEPT !.phase = "done", !.asked = scan[s].asked, !.told = scan[s].told,
                                 !.checked = scan[s].checked,
                                 !.complete = ~(scan[s].limited \/ other)])
    BY <1>14 DEF FinishScan
  <2> DEFINE c == ~(scan[s].limited \/ other)
             r == [NoScan EXCEPT !.phase = "done", !.asked = scan[s].asked, !.told = scan[s].told,
                                 !.checked = scan[s].checked, !.complete = c]
  <2> HIDE DEF c
  <2>2. /\ r.phase = "done" /\ r.asked = scan[s].asked /\ r.doing = [d \in Detectors |-> "waiting"]
        /\ r.pending = [d \in Detectors |-> {}] /\ r.todo = {} /\ r.answer = [n \in Names |-> Unasked]
        /\ r.known = Empty /\ r.told = scan[s].told /\ r.turn = 1
    BY DEF NoScan
  <2>3. \A i \in DOMAIN r.asked : i >= 1 /\ r.asked[i] \in Detectors
    BY <1>4, <2>2, ScanConstants DEF ScanRecords
  <2>4. InTurn(r) /\ BatchTrue(r) /\ \A n \in Names : Backed(n, r.known[n])
    BY <2>2, <2>3 DEF InTurn, BatchTrue, Unasked, Backed, Empty
  <2>5. Sound(r)
    BY <1>4, <2>2, <2>4 DEF Sound
  <2>6. Becomes(s, r) /\ UNCHANGED cache
    BY <1>14, <2>1 DEF FinishScan, c
  <2> HIDE DEF r
  <2> QED
    BY <1>3, <2>5, <2>6
<1>15. ASSUME NEW s \in Scans, NEW r, Becomes(s, r), CacheBacked', Sound(r) PROVE SoundInv'
  BY <1>15, BecomesSound
<1>16. ASSUME NEW s \in Scans, NEW r, Becomes(s, r), CacheBacked',
              scan[s].phase \in {"running", "failed"}, r.phase = scan[s].phase,
              r.turn = scan[s].turn, r.asked = scan[s].asked,
              scan[s].doing["slopsquat"] # "waiting", r.doing["slopsquat"] # "waiting",
              \A e \in Detectors \ {"slopsquat"} : r.doing[e] = scan[s].doing[e],
              BatchTrue(r), \A n \in Names : Backed(n, r.known[n]),
              \A f \in r.told : \E a \in said : /\ a.name = f.name /\ a.exists = f.exists
                                       /\ a.at <= f.at /\ f.at - a.at < Ttl + Patience
       PROVE  SoundInv'
  <2>1. scan[s] \in ScanRecords /\ r \in ScanRecords
    BY <1>4, <1>5, <1>16
  <2>2. InTurn(r)
    BY <1>4, <1>16, <2>1, TurnKept DEF Sound
  <2>3. Sound(r)
    BY <1>16, <2>2 DEF Sound
  <2> QED
    BY <1>15, <1>16, <2>3
<1>17. \A n \in Names : Backed(n, Empty[n])
  BY DEF Backed, Empty
<1>18. ASSUME NEW s \in Scans, LoadCache(s) PROVE SoundInv'
  <2> DEFINE known == IF cache = Torn THEN Empty ELSE cache
             stale == {n \in Looked : ~FreshEntry(known[n])}
             l == scan[s].limited \/ (~scan[s].net /\ Looked # {})
             g == IF scan[s].net THEN "batching" ELSE "telling"
  <2>1. PICK c \in Cut("slopsquat", stale) :
          Becomes(s, [scan[s] EXCEPT !.doing["slopsquat"] = g, !.known = known,
                                     !.checked["slopsquat"] = Looked \ stale,
                                     !.todo = IF scan[s].net THEN c ELSE {}, !.limited = l])
    BY <1>18 DEF LoadCache
  <2> DEFINE todo == IF scan[s].net THEN c ELSE {}
             checked == Looked \ stale
             r == [scan[s] EXCEPT !.doing["slopsquat"] = g, !.known = known,
                                  !.checked["slopsquat"] = checked,
                                  !.todo = todo, !.limited = l]
  <2>2. \A n \in Names : Backed(n, known[n])
    BY <1>17 DEF SoundInv, CacheBacked
  <2>3. todo \subseteq Looked /\ g \in {"batching", "telling"}
    BY <2>1 DEF Cut
  <2>4. Becomes(s, r)
    BY <2>1
  <2> HIDE DEF known, l, g, todo, checked
  <2>5. /\ r.phase = scan[s].phase /\ r.turn = scan[s].turn /\ r.asked = scan[s].asked
        /\ \A e \in Detectors : r.doing[e] = IF e = "slopsquat" THEN g ELSE scan[s].doing[e]
        /\ r.pending = scan[s].pending /\ r.todo = todo
        /\ r.answer = scan[s].answer /\ r.known = known /\ r.told = scan[s].told
    BY <1>4 DEF ScanRecords
  <2>6. scan[s].phase \in {"running", "failed"} /\ scan[s].doing["slopsquat"] = "reading"
        /\ UNCHANGED cache
    BY <1>18 DEF LoadCache, Doing, Alive
  <2> HIDE DEF r
  <2>7. BatchTrue(r)
    BY <1>4, <2>3, <2>5, <2>6 DEF Sound, BatchTrue
  <2>8. \A f \in r.told : \E a \in said : /\ a.name = f.name /\ a.exists = f.exists
                                       /\ a.at <= f.at /\ f.at - a.at < Ttl + Patience
    BY <1>4, <2>5 DEF Sound
  <2>9. CacheBacked'
    BY <2>4, <2>6, CacheKept
  <2>10. r.doing["slopsquat"] # "waiting" /\ \A n \in Names : Backed(n, r.known[n])
    BY <2>2, <2>3, <2>5
  <2>11. \A e \in Detectors \ {"slopsquat"} : r.doing[e] = scan[s].doing[e]
    BY <2>5
  <2> QED
    BY <1>16, <2>4, <2>5, <2>6, <2>7, <2>8, <2>9, <2>10, <2>11
<1>19. ASSUME NEW s \in Scans, SendBatch(s) PROVE SoundInv'
  <2>1. PICK b \in SUBSET scan[s].todo :
          Becomes(s, [scan[s] EXCEPT !.doing["slopsquat"] = "asking", !.pending["slopsquat"] = b,
                                     !.todo = @ \ b, !.sent = clock])
    BY <1>19 DEF SendBatch
  <2> DEFINE r == [scan[s] EXCEPT !.doing["slopsquat"] = "asking", !.pending["slopsquat"] = b,
                                  !.todo = @ \ b, !.sent = clock]
  <2>2. Becomes(s, r)
    BY <2>1
  <2>3. /\ r.phase = scan[s].phase /\ r.turn = scan[s].turn /\ r.asked = scan[s].asked
        /\ \A e \in Detectors : r.doing[e] = IF e = "slopsquat" THEN "asking" ELSE scan[s].doing[e]
        /\ r.pending["slopsquat"] = b /\ r.todo = scan[s].todo \ b /\ r.sent = clock
        /\ r.answer = scan[s].answer /\ r.known = scan[s].known /\ r.told = scan[s].told
    BY <1>4 DEF ScanRecords
  <2>4. scan[s].phase \in {"running", "failed"} /\ scan[s].doing["slopsquat"] = "batching"
        /\ UNCHANGED cache
    BY <1>19 DEF SendBatch, Doing, Alive
  <2> HIDE DEF r
  <2>5. scan[s].todo \subseteq Looked
        /\ \A n \in Names : scan[s].answer[n] \notin {"exists", "missing"}
    BY <1>4, <2>4 DEF Sound, BatchTrue
  <2>6. clock \in Int
    BY DEF ScanTypes
  <2>7. BatchTrue(r)
    BY <2>3, <2>4, <2>5, <2>6 DEF BatchTrue
  <2>8. /\ \A n \in Names : Backed(n, r.known[n])
        /\ \A f \in r.told : \E a \in said : /\ a.name = f.name /\ a.exists = f.exists
                                       /\ a.at <= f.at /\ f.at - a.at < Ttl + Patience
    BY <1>4, <2>3 DEF Sound
  <2>9. CacheBacked'
    BY <2>2, <2>4, CacheKept
  <2>10. r.doing["slopsquat"] # "waiting"
         /\ \A e \in Detectors \ {"slopsquat"} : r.doing[e] = scan[s].doing[e]
    BY <2>3
  <2> QED
    BY <1>16, <2>2, <2>3, <2>4, <2>7, <2>8, <2>9, <2>10
<1>20. ASSUME NEW s \in Scans, NEW n \in Names, RegistryAnswered(s, n) \/ RegistryFails(s, n)
       PROVE  SoundInv'
  <2>1. PICK a \in {"exists", "missing", Unknown}, l \in BOOLEAN :
          /\ Becomes(s, [scan[s] EXCEPT !.pending["slopsquat"] = @ \ {n}, !.answer[n] = a,
                                        !.limited = l])
          /\ a # Unknown => a = IF n \in registry THEN "exists" ELSE "missing"
    <3>1. CASE RegistryAnswered(s, n)
      <4> DEFINE b == IF n \in registry THEN "exists" ELSE "missing"
      <4>1. [scan[s] EXCEPT !.pending["slopsquat"] = @ \ {n}, !.answer[n] = b]
              = [scan[s] EXCEPT !.pending["slopsquat"] = @ \ {n}, !.answer[n] = b,
                                !.limited = scan[s].limited]
        BY <1>4 DEF ScanRecords
      <4>2. Becomes(s, [scan[s] EXCEPT !.pending["slopsquat"] = @ \ {n}, !.answer[n] = b,
                                !.limited = scan[s].limited])
        BY <3>1, <4>1 DEF RegistryAnswered
      <4>3. scan[s].limited \in BOOLEAN /\ b \in {"exists", "missing"}
        BY <1>4 DEF ScanRecords
      <4> QED
        BY <4>2, <4>3
    <3>2. CASE RegistryFails(s, n)
      BY <3>2 DEF RegistryFails
    <3> QED
      BY <1>20, <3>1, <3>2
  <2> DEFINE r == [scan[s] EXCEPT !.pending["slopsquat"] = @ \ {n}, !.answer[n] = a, !.limited = l]
  <2>2. Becomes(s, r)
    BY <2>1
  <2>3. /\ r.phase = scan[s].phase /\ r.turn = scan[s].turn /\ r.asked = scan[s].asked
        /\ r.doing = scan[s].doing
        /\ r.pending["slopsquat"] = scan[s].pending["slopsquat"] \ {n} /\ r.todo = scan[s].todo
        /\ r.sent = scan[s].sent /\ r.known = scan[s].known /\ r.told = scan[s].told
        /\ \A m \in Names : r.answer[m] = IF m = n THEN a ELSE scan[s].answer[m]
    BY <1>4 DEF ScanRecords
  <2>4. scan[s].phase \in {"running", "failed"} /\ scan[s].doing["slopsquat"] = "asking"
        /\ UNCHANGED cache /\ n \in scan[s].pending["slopsquat"]
    BY <1>20 DEF RegistryAnswered, RegistryFails, Doing, Alive
  <2> HIDE DEF r
  <2>5. n \in Looked /\ scan[s].sent <= clock /\ clock \in Int
    BY <1>4, <2>4 DEF Sound, BatchTrue, ScanTypes
  <2>6. [name |-> n, exists |-> n \in registry, at |-> clock] \in said
    BY <2>5 DEF ScanTypes, Saying
  <2>7. a \in {"exists", "missing"} => [name |-> n, exists |-> a = "exists", at |-> clock] \in said
    <3>1. a \in {"exists", "missing"} => (a = "exists") = (n \in registry)
      BY <2>1 DEF Unknown
    <3> QED
      BY <2>6, <3>1
  <2>8. BatchTrue(r)
    <3>1. ASSUME NEW m \in Names, r.answer[m] \in {"exists", "missing"}
          PROVE  \E t \in Int : /\ [name |-> m, exists |-> r.answer[m] = "exists", at |-> t] \in said
                                /\ r.sent <= t /\ t <= clock
      <4>1. CASE m = n
        BY <2>3, <2>5, <2>7, <3>1, <4>1
      <4>2. CASE m # n
        BY <1>4, <2>3, <3>1, <4>2 DEF Sound, BatchTrue
      <4> QED
        BY <4>1, <4>2
    <3> QED
      BY <1>4, <2>3, <2>4, <3>1 DEF Sound, BatchTrue
  <2>9. /\ \A m \in Names : Backed(m, r.known[m])
        /\ \A f \in r.told : \E b \in said : /\ b.name = f.name /\ b.exists = f.exists
                                       /\ b.at <= f.at /\ f.at - b.at < Ttl + Patience
    BY <1>4, <2>3 DEF Sound
  <2>10. CacheBacked'
    BY <2>2, <2>4, CacheKept
  <2> QED
    BY <1>16, <2>2, <2>3, <2>4, <2>8, <2>9, <2>10
<1>21. ASSUME NEW s \in Scans, EnterBatch(s) PROVE SoundInv'
  <2> DEFINE known == [n \in Names |-> IF n \in Answered(s)
                                       THEN [exists |-> scan[s].answer[n] = "exists", at |-> clock]
                                       ELSE scan[s].known[n]]
             answer == [n \in Names |-> Unasked]
             r == [scan[s] EXCEPT !.doing["slopsquat"] = "batching", !.known = known,
                                  !.checked["slopsquat"] = @ \cup Answered(s), !.answer = answer]
  <2>1. Becomes(s, r) /\ UNCHANGED cache /\ scan[s].phase \in {"running", "failed"}
        /\ scan[s].doing["slopsquat"] = "asking"
    BY <1>21 DEF EnterBatch, Doing, Alive
  <2>2. \A n \in Names : Backed(n, known[n])
    <3> SUFFICES ASSUME NEW n \in Names PROVE Backed(n, known[n])
      OBVIOUS
    <3>1. CASE n \in Answered(s)
      <4>1. scan[s].answer[n] \in {"exists", "missing"}
        BY <3>1 DEF Answered
      <4>2. PICK t \in Int : /\ [name |-> n, exists |-> scan[s].answer[n] = "exists", at |-> t] \in said
                             /\ scan[s].sent <= t /\ t <= clock
        BY <1>4, <4>1 DEF Sound, BatchTrue
      <4>3. clock - t <= Patience
        <5>1. clock <= scan[s].sent + Patience /\ clock \in Int /\ scan[s].sent \in Int
          BY <1>4, <2>1 DEF Sound, BatchTrue, ScanTypes, ScanRecords
        <5> QED
          BY <4>2, <5>1
      <4>4. known[n].exists = (scan[s].answer[n] = "exists") /\ known[n].at = clock
        BY <3>1
      <4>5. [name |-> n, exists |-> known[n].exists, at |-> t] \in said
        BY <4>2, <4>4
      <4>6. clock \in Int
        BY DEF ScanTypes
      <4> HIDE DEF known
      <4> QED
        BY <4>2, <4>3, <4>4, <4>5, <4>6 DEF Backed
    <3>2. CASE n \notin Answered(s)
      BY <1>4, <3>2 DEF Sound
    <3> QED
      BY <3>1, <3>2
  <2>3. \A n \in Names : answer[n] = Unasked
    OBVIOUS
  <2> HIDE DEF known, answer
  <2>4. /\ r.phase = scan[s].phase /\ r.turn = scan[s].turn /\ r.asked = scan[s].asked
        /\ \A e \in Detectors : r.doing[e] = IF e = "slopsquat" THEN "batching" ELSE scan[s].doing[e]
        /\ r.pending = scan[s].pending /\ r.todo = scan[s].todo /\ r.sent = scan[s].sent
        /\ r.answer = answer /\ r.known = known /\ r.told = scan[s].told
    BY <1>4 DEF ScanRecords
  <2> HIDE DEF r
  <2>5. BatchTrue(r)
    BY <1>4, <2>3, <2>4 DEF Sound, BatchTrue, Unasked
  <2>6. CacheBacked'
    BY <2>1, CacheKept
  <2>7. \A f \in r.told : \E a \in said : /\ a.name = f.name /\ a.exists = f.exists
                                       /\ a.at <= f.at /\ f.at - a.at < Ttl + Patience
    BY <1>4, <2>4 DEF Sound
  <2>8. r.doing["slopsquat"] # "waiting" /\ (\A n \in Names : Backed(n, r.known[n]))
        /\ \A e \in Detectors \ {"slopsquat"} : r.doing[e] = scan[s].doing[e]
    BY <2>2, <2>4
  <2> QED
    BY <1>16, <2>1, <2>4, <2>5, <2>6, <2>7, <2>8
<1>22. ASSUME NEW s \in Scans, NEW g \in {"saving", "telling"},
              Becomes(s, [scan[s] EXCEPT !.doing["slopsquat"] = g]), CacheBacked',
              scan[s].phase \in {"running", "failed"},
              scan[s].doing["slopsquat"] \in {"batching", "saving"}
       PROVE  SoundInv'
  <2> DEFINE r == [scan[s] EXCEPT !.doing["slopsquat"] = g]
  <2>1. Becomes(s, r)
    BY <1>22
  <2>2. /\ r.phase = scan[s].phase /\ r.turn = scan[s].turn /\ r.asked = scan[s].asked
        /\ \A e \in Detectors : r.doing[e] = IF e = "slopsquat" THEN g ELSE scan[s].doing[e]
        /\ r.pending = scan[s].pending /\ r.todo = scan[s].todo /\ r.sent = scan[s].sent
        /\ r.answer = scan[s].answer /\ r.known = scan[s].known /\ r.told = scan[s].told
    BY <1>4 DEF ScanRecords
  <2> HIDE DEF r
  <2>3. BatchTrue(r)
    BY <1>4, <1>22, <2>2 DEF Sound, BatchTrue
  <2>4. /\ \A n \in Names : Backed(n, r.known[n])
        /\ \A f \in r.told : \E b \in said : /\ b.name = f.name /\ b.exists = f.exists
                                       /\ b.at <= f.at /\ f.at - b.at < Ttl + Patience
    BY <1>4, <2>2 DEF Sound
  <2>5. r.doing["slopsquat"] # "waiting"
        /\ \A e \in Detectors \ {"slopsquat"} : r.doing[e] = scan[s].doing[e]
    BY <1>22, <2>2
  <2> QED
    BY <1>16, <1>22, <2>1, <2>2, <2>3, <2>4, <2>5
<1>23. ASSUME NEW s \in Scans, TruncateCache(s) \/ WriteCacheFile(s) \/ SaveFails(s)
       PROVE  SoundInv'
  <2>1. CASE TruncateCache(s)
    <3>1. CacheBacked'
      BY <2>1 DEF TruncateCache, CacheBacked
    <3> QED
      BY <1>22, <2>1, <3>1 DEF TruncateCache, Doing, Alive
  <2>2. CASE WriteCacheFile(s)
    <3>1. \A n \in Names : Backed(n, scan[s].known[n])
      BY <1>4 DEF Sound
    <3>2. cache' \in {scan[s].known, Torn} /\ said' = said /\ clock' = clock
      BY <2>2 DEF WriteCacheFile, Becomes
    <3>3. CacheBacked'
      BY <3>1, <3>2 DEF CacheBacked, Backed
    <3> QED
      BY <1>22, <2>2, <3>3 DEF WriteCacheFile, Doing, Alive
  <2>3. CASE SaveFails(s)
    <3>1. Becomes(s, [scan[s] EXCEPT !.doing["slopsquat"] = "telling"]) /\ UNCHANGED cache
      BY <2>3 DEF SaveFails
    <3>2. CacheBacked'
      BY <3>1, CacheKept
    <3> QED
      BY <1>22, <2>3, <3>1, <3>2 DEF SaveFails, Doing, Alive
  <2> QED
    BY <1>23, <2>1, <2>2, <2>3
<1>24. ASSUME NEW s \in Scans, TellRegistry(s) PROVE SoundInv'
  <2> DEFINE told == {[name |-> n, exists |-> scan[s].known[n].exists, at |-> clock] :
                        n \in {n \in Looked : FreshEntry(scan[s].known[n])}}
             r == [scan[s] EXCEPT !.doing["slopsquat"] = "ended", !.known = Empty, !.told = told]
  <2>1. Becomes(s, r) /\ UNCHANGED cache /\ scan[s].phase \in {"running", "failed"}
        /\ scan[s].doing["slopsquat"] = "telling"
    BY <1>24 DEF TellRegistry, Doing, Alive
  <2>2. ASSUME NEW f \in told
        PROVE  \E a \in said : /\ a.name = f.name /\ a.exists = f.exists
                               /\ a.at <= f.at /\ f.at - a.at < Ttl + Patience
    <3>1. PICK n \in Looked : /\ FreshEntry(scan[s].known[n])
                              /\ f = [name |-> n, exists |-> scan[s].known[n].exists, at |-> clock]
      BY <2>2
    <3> DEFINE e == scan[s].known[n]
    <3>2. e \in Entries /\ Backed(n, e) /\ e # NoEntry /\ clock - e.at < Ttl
      BY <1>4, <3>1 DEF ScanRecords, Sound, FreshEntry
    <3> HIDE DEF e
    <3>3. PICK t \in Int : /\ [name |-> n, exists |-> e.exists, at |-> t] \in said
                           /\ t <= e.at /\ e.at <= clock /\ e.at - t <= Patience
      BY <3>2 DEF Backed
    <3>4. f.name = n /\ f.exists = e.exists /\ f.at = clock
      BY <3>1 DEF e
    <3>5. e.at \in Int /\ clock \in Int
      BY <3>2 DEF Entries, ScanTypes
    <3>6. clock - t < Ttl + Patience
      BY <3>2, <3>3, <3>5
    <3> DEFINE a == [name |-> n, exists |-> e.exists, at |-> t]
    <3>7. a.name = n /\ a.exists = e.exists /\ a.at = t
      OBVIOUS
    <3>8. a \in said /\ t <= clock
      BY <3>2, <3>3, <3>5
    <3> HIDE DEF a
    <3> QED
      BY <3>4, <3>6, <3>7, <3>8
  <2> HIDE DEF told
  <2>3. /\ r.phase = scan[s].phase /\ r.turn = scan[s].turn /\ r.asked = scan[s].asked
        /\ \A e \in Detectors : r.doing[e] = IF e = "slopsquat" THEN "ended" ELSE scan[s].doing[e]
        /\ r.pending = scan[s].pending /\ r.todo = scan[s].todo /\ r.sent = scan[s].sent
        /\ r.answer = scan[s].answer /\ r.known = Empty /\ r.told = told
    BY <1>4 DEF ScanRecords
  <2> HIDE DEF r
  <2>4. BatchTrue(r)
    BY <1>4, <2>1, <2>3 DEF Sound, BatchTrue
  <2>5. r.doing["slopsquat"] # "waiting" /\ (\A n \in Names : Backed(n, r.known[n]))
        /\ \A e \in Detectors \ {"slopsquat"} : r.doing[e] = scan[s].doing[e]
    BY <1>17, <2>3
  <2>6. CacheBacked'
    BY <2>1, CacheKept
  <2> QED
    BY <1>16, <2>1, <2>2, <2>3, <2>4, <2>5, <2>6
<1>25. CASE UNCHANGED scanVars
  BY <1>25 DEF scanVars, SoundInv, CacheBacked, Sound, InTurn, BatchTrue, Backed
<1> QED
  BY <1>1, <1>2, <1>6, <1>7, <1>8, <1>10, <1>11, <1>12, <1>13, <1>14, <1>18, <1>19, <1>20, <1>21,
     <1>23, <1>24, <1>25 DEF ScanNext

(* The scans, the file and what the registry could have said stay well typed. *)
THEOREM ScanTypesHold == ScanSpec => []ScanTypes
<1>1. ScanInit => ScanTypes
  BY SayingType, NoScanType DEF ScanInit, ScanTypes
<1> QED
  BY <1>1, ScanTypeStep, PTL DEF ScanSpec

(* The invariant behind both theorems: what the file and the scans hold was said. *)
LEMMA SoundHolds == ScanSpec => []SoundInv
<1>1. ScanInit => SoundInv
  <2> SUFFICES ASSUME ScanInit PROVE SoundInv
    OBVIOUS
  <2>1. /\ \A s \in Scans : scan[s] = NoScan
        /\ cache = Empty
    BY DEF ScanInit
  <2>2. \A n \in Names : Backed(n, Empty[n])
    BY DEF Backed, Empty
  <2>3. Sound(NoScan)
    BY <2>2 DEF Sound, InTurn, BatchTrue, NoScan, Unasked, Detectors
  <2> QED
    BY <2>1, <2>2, <2>3 DEF SoundInv, CacheBacked
<1> QED
  BY <1>1, ScanSoundStep, ScanTypesHold, PTL DEF ScanSpec

(* For any number of scans over one file, written in place and read while  *)
(* it is written: what a report says of a package, the registry said less  *)
(* than the life of an entry and one request before.                       *)
THEOREM ToldHolds == ScanSpec => []ToldRecently
<1>1. SoundInv => ToldRecently
  BY DEF SoundInv, Sound, ToldRecently
<1> QED
  BY <1>1, SoundHolds, PTL

-----------------------------------------------------------------------------
(* A finite set has a subset of every smaller size. *)
LEMMA SubsetOfSize ==
  ASSUME NEW S, IsFiniteSet(S), NEW k \in 0..Cardinality(S)
  PROVE  \E T \in SUBSET S : Cardinality(T) = k
<1> DEFINE n == Cardinality(S)
<1>1. n \in Nat /\ ExistsBijection(1..n, S)
  BY FS_CardinalityType
<1>2. PICK f : f \in Bijection(1..n, S)
  BY <1>1 DEF ExistsBijection
<1> HIDE DEF n
<1>3. k \in Nat /\ k <= n
  BY <1>1 DEF n
<1> DEFINE T == {f[i] : i \in 1..k}
           g == [i \in 1..k |-> f[i]]
<1>4. g \in Bijection(1..k, T) /\ T \subseteq S
  <2>1. 1..k \subseteq 1..n
    BY <1>1, <1>3
  <2>2. f \in [1..n -> S] /\ \A i, j \in 1..n : f[i] = f[j] => i = j
    BY <1>2 DEF Bijection, Injection, IsInjective
  <2>3. T \subseteq S /\ g \in [1..k -> T]
    BY <2>1, <2>2
  <2>4. \A i, j \in 1..k : g[i] = g[j] => i = j
    BY <2>1, <2>2
  <2>5. \A t \in T : \E i \in 1..k : g[i] = t
    OBVIOUS
  <2> QED
    BY <2>3, <2>4, <2>5 DEF Bijection, Injection, Surjection, IsInjective
<1>5. IsFiniteSet(1..k) /\ Cardinality(1..k) = k
  BY <1>3, FS_Interval
<1>6. Cardinality(T) = k
  BY <1>4, <1>5, FS_Bijection DEF ExistsBijection
<1> QED
  BY <1>4, <1>6

\* What is looked up of the stale packages completes what is fresh.
LEMMA CutOfRest ==
  ASSUME NEW d \in Detectors, NEW S, IsFiniteSet(S), NEW R \in SUBSET S, NEW c \in Cut(d, R)
  PROVE  \E e \in Cut(d, S) : e \subseteq (S \ R) \cup c
<1>0. IsFiniteSet(R) /\ Cardinality(R) <= Cardinality(S)
      /\ Cardinality(R) \in Nat /\ Cardinality(S) \in Nat /\ Limit[d] \in Nat
  BY FS_Subset, FS_CardinalityType, ScanConstantsHold
<1>1. CASE Cardinality(R) < Limit[d]
  <2>1. c \subseteq R /\ Cardinality(c) = Cardinality(R)
    BY <1>1 DEF Cut
  <2>2. c = R
    BY <1>0, <2>1, FS_Subset
  <2> DEFINE k == IF Cardinality(S) < Limit[d] THEN Cardinality(S) ELSE Limit[d]
  <2>3. k \in 0..Cardinality(S)
    BY <1>0
  <2>4. PICK e \in SUBSET S : Cardinality(e) = k
    BY <2>3, SubsetOfSize
  <2> QED
    BY <2>2, <2>4 DEF Cut
<1>2. CASE ~(Cardinality(R) < Limit[d])
  <2>1. c \subseteq R /\ Cardinality(c) = Limit[d]
    BY <1>2 DEF Cut
  <2>2. ~(Cardinality(S) < Limit[d])
    BY <1>0, <1>2
  <2> QED
    BY <2>1, <2>2 DEF Cut
<1> QED
  BY <1>1, <1>2

-----------------------------------------------------------------------------
\* The packages detector d has been told about, or is still to be told about.
Looking(r, d) ==
  r.checked[d] \cup r.pending[d]
    \cup (IF d = "slopsquat"
          THEN r.todo \cup {n \in Names : r.answer[n] \in {"exists", "missing"}} ELSE {})

\* The detectors at work look up as much as they may, unless a limitation was recorded.
Covering(r) ==
  /\ \A d \in Detectors : r.pending[d] # {} => r.doing[d] = "asking"
  /\ r.todo # {} => r.doing["slopsquat"] \in {"batching", "asking"}
  /\ \A d \in Detectors :
       r.doing[d] \in {"batching", "asking", "saving", "telling", "ended"} /\ ~r.limited =>
         \E c \in Cut(d, Mentioned[d]) : c \subseteq Looking(r, d)
  /\ r.phase = "done" /\ r.complete =>
       \A i \in DOMAIN r.asked : \E c \in Cut(r.asked[i], Mentioned[r.asked[i]]) :
         c \subseteq r.checked[r.asked[i]]

CoverInv == \A s \in Scans : Covering(scan[s])

LEMMA BecomesCovering ==
  ASSUME ScanTypes, CoverInv, NEW s \in Scans, NEW r, Becomes(s, r), Covering(r)
  PROVE  CoverInv'
<1>1. \A t \in Scans : Covering(scan'[t])
  BY DEF Becomes, ScanTypes, CoverInv
<1> QED
  BY <1>1 DEF CoverInv, Covering, Looking

\* From record r to q, detector d of a scan that goes on takes a step.
Advances(r, q, d) ==
  /\ q.phase # "done"
  /\ r.limited => q.limited
  /\ \A e \in Detectors \ {d} : /\ q.doing[e] = r.doing[e] /\ q.pending[e] = r.pending[e]
                                /\ r.checked[e] \subseteq q.checked[e]
  /\ q.pending[d] # {} => q.doing[d] = "asking"
  /\ q.todo # {} => q.doing["slopsquat"] \in {"batching", "asking"}
  /\ d # "slopsquat" => q.todo = r.todo /\ q.answer = r.answer

LEMMA DetectorCovering ==
  ASSUME NEW r \in ScanRecords, NEW q \in ScanRecords, Covering(r), NEW d \in Detectors,
         Advances(r, q, d),
         q.doing[d] \in {"batching", "asking", "saving", "telling", "ended"} /\ ~q.limited =>
           \E c \in Cut(d, Mentioned[d]) : c \subseteq Looking(q, d)
  PROVE  Covering(q)
<1> USE DEF Advances
<1>1. ASSUME NEW e \in Detectors, e # d PROVE Looking(r, e) \subseteq Looking(q, e)
  BY <1>1 DEF Looking
<1>2. r.limited \in BOOLEAN /\ q.limited \in BOOLEAN
  BY DEF ScanRecords
<1>3. ASSUME NEW e \in Detectors,
             q.doing[e] \in {"batching", "asking", "saving", "telling", "ended"}, ~q.limited
      PROVE  \E c \in Cut(e, Mentioned[e]) : c \subseteq Looking(q, e)
  <2>1. CASE e = d
    BY <1>3, <2>1
  <2>2. CASE e # d
    <3>1. PICK c \in Cut(e, Mentioned[e]) : c \subseteq Looking(r, e)
      BY <1>2, <1>3, <2>2 DEF Covering
    <3> QED
      BY <1>1, <2>2, <3>1
  <2> QED
    BY <2>1, <2>2
<1> QED
  BY <1>3 DEF Covering

LEMMA CoverStep ==
  ASSUME ScanTypes, ScanTypes', SoundInv, CoverInv, [ScanNext]_scanVars
  PROVE  CoverInv'
<1> USE ScanConstantsHold
<1>1. CASE UNCHANGED scan
  BY <1>1 DEF CoverInv, Covering, Looking
<1>2. \A s \in Scans : scan[s] \in ScanRecords /\ Sound(scan[s]) /\ Covering(scan[s])
  BY DEF ScanTypes, SoundInv, CoverInv
<1>3. \A s \in Scans : \A r : Becomes(s, r) => r \in ScanRecords
  BY DEF Becomes, ScanTypes
<1>4. ASSUME NEW s \in Scans, NEW d \in Detectors, NEW r, Becomes(s, r), Advances(scan[s], r, d),
             r.doing[d] \in {"batching", "asking", "saving", "telling", "ended"} /\ ~r.limited =>
               \E c \in Cut(d, Mentioned[d]) : c \subseteq Looking(r, d)
      PROVE  CoverInv'
  <2>1. scan[s] \in ScanRecords /\ r \in ScanRecords /\ Covering(scan[s])
    BY <1>2, <1>3, <1>4
  <2>2. Covering(r)
    BY <1>4, <2>1, DetectorCovering
  <2> QED
    BY <1>4, <2>2, BecomesCovering
<1>5. ASSUME NEW s \in Scans, StartScan(s) PROVE CoverInv'
  <2>1. PICK net \in BOOLEAN, asked \in Selections :
          Becomes(s, [scan[s] EXCEPT !.phase = "running", !.asked = asked, !.net = net])
    BY <1>5 DEF StartScan
  <2> DEFINE r == [scan[s] EXCEPT !.phase = "running", !.asked = asked, !.net = net]
  <2>2. scan[s] = NoScan
    BY <1>2, <1>5 DEF StartScan, Sound, InTurn
  <2>3. /\ r.phase = "running" /\ r.doing = [d \in Detectors |-> "waiting"]
        /\ r.pending = [d \in Detectors |-> {}] /\ r.todo = {}
    BY <2>2 DEF NoScan
  <2>4. Covering(r)
    BY <2>3 DEF Covering
  <2> QED
    BY <2>1, <2>4, BecomesCovering
<1>6. ASSUME NEW s \in Scans, StartDetector(s) PROVE CoverInv'
  <2> DEFINE d == scan[s].asked[scan[s].turn]
             r == [scan[s] EXCEPT !.turn = @ + 1, !.doing[d] = "reading"]
  <2>1. Becomes(s, r) /\ scan[s].turn <= Len(scan[s].asked)
        /\ scan[s].phase \in {"running", "failed"}
    BY <1>6 DEF StartDetector, Alive
  <2>2. scan[s] \in ScanRecords /\ r \in ScanRecords
    BY <1>2, <1>3, <2>1
  <2>3. scan[s].asked \in Seq(Detectors) /\ scan[s].turn \in Nat \ {0}
    BY <2>2, AskedType
  <2>4. scan[s].turn \in DOMAIN scan[s].asked /\ d \in Detectors
    BY <2>1, <2>3
  <2>5. scan[s].doing[d] = "waiting"
    BY <1>2, <2>3, <2>4 DEF Sound, InTurn
  <2>6. /\ r.phase = scan[s].phase /\ r.limited = scan[s].limited
        /\ \A e \in Detectors : r.doing[e] = IF e = d THEN "reading" ELSE scan[s].doing[e]
        /\ r.pending = scan[s].pending /\ r.todo = scan[s].todo /\ r.checked = scan[s].checked
        /\ r.answer = scan[s].answer
    BY <2>2, <2>4 DEF ScanRecords
  <2>7. r.pending[d] = {} /\ (r.todo # {} => r.doing["slopsquat"] \in {"batching", "asking"})
    BY <1>2, <2>4, <2>5, <2>6 DEF Covering
  <2> HIDE DEF r, d
  <2>8. Advances(scan[s], r, d)
    BY <2>1, <2>4, <2>6, <2>7 DEF Advances
  <2> QED
    BY <1>4, <2>1, <2>4, <2>6, <2>8
<1>7. {} \in Cut("files", Mentioned["files"])
  BY FS_EmptySet DEF Cut
<1>8. ASSUME NEW s \in Scans, FilesRead(s) \/ FilesFail(s) PROVE CoverInv'
  <2>1. PICK r : /\ Becomes(s, r)
                 /\ \/ r = [scan[s] EXCEPT !.doing["files"] = "ended"]
                    \/ r = [scan[s] EXCEPT !.doing["files"] = "failed", !.phase = "failed"]
    BY <1>8 DEF FilesRead, FilesFail
  <2>2. scan[s] \in ScanRecords /\ r \in ScanRecords /\ scan[s].phase \in {"running", "failed"}
        /\ scan[s].doing["files"] = "reading"
    BY <1>2, <1>3, <1>8, <2>1 DEF FilesRead, FilesFail, Doing, Alive
  <2>3. /\ r.phase \in {"running", "failed"} /\ r.limited = scan[s].limited
        /\ \A e \in Detectors : e # "files" => r.doing[e] = scan[s].doing[e]
        /\ r.pending = scan[s].pending /\ r.todo = scan[s].todo /\ r.checked = scan[s].checked
        /\ r.answer = scan[s].answer
    <3>1. CASE r = [scan[s] EXCEPT !.doing["files"] = "ended"]
      BY <2>2, <3>1 DEF ScanRecords
    <3>2. CASE r = [scan[s] EXCEPT !.doing["files"] = "failed", !.phase = "failed"]
      BY <2>2, <3>2 DEF ScanRecords
    <3> QED
      BY <2>1, <3>1, <3>2
  <2>4. r.pending["files"] = {} /\ (r.todo # {} => r.doing["slopsquat"] \in {"batching", "asking"})
    BY <1>2, <2>2, <2>3 DEF Covering
  <2>5. \E c \in Cut("files", Mentioned["files"]) : c \subseteq Looking(r, "files")
    BY <1>7
  <2>6. Advances(scan[s], r, "files")
    BY <2>2, <2>3, <2>4 DEF Advances
  <2> QED
    BY <1>4, <2>1, <2>5, <2>6
<1>9. ASSUME NEW s \in Scans, NEW d \in Advised, AskAdvisories(s, d) PROVE CoverInv'
  <2>0. scan[s] \in ScanRecords /\ d \in Detectors /\ d # "slopsquat"
        /\ scan[s].phase \in {"running", "failed"} /\ scan[s].doing[d] = "reading"
    BY <1>2, <1>9 DEF AskAdvisories, Doing, Alive
  <2>9. scan[s].pending[d] = {}
        /\ (scan[s].todo # {} => scan[s].doing["slopsquat"] \in {"batching", "asking"})
    BY <1>2, <2>0 DEF Covering
  <2>1. CASE scan[s].net
    <3>1. PICK c \in Cut(d, Mentioned[d]) :
            Becomes(s, [scan[s] EXCEPT !.doing[d] = "asking", !.pending[d] = c])
      BY <1>9, <2>1 DEF AskAdvisories
    <3> DEFINE r == [scan[s] EXCEPT !.doing[d] = "asking", !.pending[d] = c]
    <3>2. /\ r.phase = scan[s].phase /\ r.limited = scan[s].limited /\ r.checked = scan[s].checked
          /\ \A e \in Detectors : r.doing[e] = IF e = d THEN "asking" ELSE scan[s].doing[e]
          /\ \A e \in Detectors : r.pending[e] = IF e = d THEN c ELSE scan[s].pending[e]
          /\ r.todo = scan[s].todo /\ r.answer = scan[s].answer
      BY <2>0 DEF ScanRecords
    <3>3. Becomes(s, r)
      BY <3>1
    <3> HIDE DEF r
    <3>4. c \subseteq Looking(r, d)
      BY <2>0, <3>2 DEF Looking
    <3>5. Advances(scan[s], r, d)
      BY <2>0, <2>9, <3>2 DEF Advances
    <3> QED
      BY <1>4, <2>0, <3>1, <3>3, <3>4, <3>5
  <2>2. CASE ~scan[s].net
    <3> DEFINE l == scan[s].limited \/ Mentioned[d] # {}
               r == [scan[s] EXCEPT !.doing[d] = "ended", !.limited = l]
    <3>1. Becomes(s, r)
      BY <1>9, <2>2 DEF AskAdvisories
    <3>2. (l <=> scan[s].limited \/ Mentioned[d] # {}) /\ l \in BOOLEAN
      OBVIOUS
    <3> HIDE DEF l
    <3>3. /\ r.phase = scan[s].phase /\ r.limited = l /\ r.checked = scan[s].checked
          /\ \A e \in Detectors : r.doing[e] = IF e = d THEN "ended" ELSE scan[s].doing[e]
          /\ r.pending = scan[s].pending /\ r.todo = scan[s].todo /\ r.answer = scan[s].answer
      BY <2>0 DEF ScanRecords
    <3> HIDE DEF r
    <3>4. ~r.limited => {} \in Cut(d, Mentioned[d])
      <4>1. Mentioned[d] = {} => {} \in Cut(d, Mentioned[d])
        BY <2>0, FS_EmptySet DEF Cut
      <4> QED
        BY <3>2, <3>3, <4>1
    <3>5. ~r.limited => \E c \in Cut(d, Mentioned[d]) : c \subseteq Looking(r, d)
      BY <3>4
    <3>6. scan[s].limited => r.limited
      BY <3>2, <3>3
    <3>7. Advances(scan[s], r, d)
      BY <2>0, <2>9, <3>3, <3>6 DEF Advances
    <3> QED
      BY <1>4, <2>0, <3>1, <3>5, <3>7
  <2> QED
    BY <2>1, <2>2
<1>10. ASSUME NEW s \in Scans, NEW d \in Advised, NEW n \in Names,
              AdvisoryAnswered(s, d, n) \/ AdvisoryFails(s, d, n)
       PROVE  CoverInv'
  <2>0. scan[s] \in ScanRecords /\ d \in Detectors /\ d # "slopsquat"
        /\ scan[s].phase \in {"running", "failed"} /\ scan[s].doing[d] = "asking"
        /\ n \in scan[s].pending[d]
    BY <1>2, <1>10 DEF AdvisoryAnswered, AdvisoryFails, Doing, Alive
  <2>1. PICK r : /\ Becomes(s, r)
                 /\ \/ r = [scan[s] EXCEPT !.pending[d] = @ \ {n}, !.checked[d] = @ \cup {n}]
                    \/ r = [scan[s] EXCEPT !.pending[d] = @ \ {n}, !.limited = TRUE]
    BY <1>10 DEF AdvisoryAnswered, AdvisoryFails
  <2>2. /\ r.phase = scan[s].phase /\ r.doing = scan[s].doing
        /\ \A e \in Detectors \ {d} : r.pending[e] = scan[s].pending[e]
                                      /\ r.checked[e] = scan[s].checked[e]
        /\ r.todo = scan[s].todo /\ r.answer = scan[s].answer
        /\ \/ r.limited = TRUE
           \/ /\ r.limited = scan[s].limited
              /\ scan[s].pending[d] \cup scan[s].checked[d] \subseteq r.pending[d] \cup r.checked[d]
    <3>1. CASE r = [scan[s] EXCEPT !.pending[d] = @ \ {n}, !.checked[d] = @ \cup {n}]
      BY <2>0, <3>1 DEF ScanRecords
    <3>2. CASE r = [scan[s] EXCEPT !.pending[d] = @ \ {n}, !.limited = TRUE]
      BY <2>0, <3>2 DEF ScanRecords
    <3> QED
      BY <2>1, <3>1, <3>2
  <2>3. scan[s].todo # {} => scan[s].doing["slopsquat"] \in {"batching", "asking"}
    BY <1>2 DEF Covering
  <2>4. ASSUME ~r.limited PROVE \E c \in Cut(d, Mentioned[d]) : c \subseteq Looking(r, d)
    <3>1. PICK c \in Cut(d, Mentioned[d]) : c \subseteq Looking(scan[s], d)
      BY <1>2, <2>0, <2>2, <2>4 DEF Covering
    <3> QED
      BY <2>0, <2>2, <2>4, <3>1 DEF Looking
  <2>5. Advances(scan[s], r, d)
    BY <2>0, <2>2, <2>3 DEF Advances
  <2> QED
    BY <1>4, <2>0, <2>1, <2>4, <2>5
<1>11. ASSUME NEW s \in Scans, NEW d \in Advised, AdvisoriesDone(s, d) PROVE CoverInv'
  <2> DEFINE r == [scan[s] EXCEPT !.doing[d] = "ended"]
  <2>0. scan[s] \in ScanRecords /\ d \in Detectors /\ d # "slopsquat"
        /\ scan[s].phase \in {"running", "failed"} /\ scan[s].doing[d] = "asking"
        /\ scan[s].pending[d] = {} /\ Becomes(s, r)
    BY <1>2, <1>11 DEF AdvisoriesDone, Doing, Alive
  <2>2. /\ r.phase = scan[s].phase /\ r.limited = scan[s].limited /\ r.checked = scan[s].checked
        /\ \A e \in Detectors : r.doing[e] = IF e = d THEN "ended" ELSE scan[s].doing[e]
        /\ r.pending = scan[s].pending /\ r.todo = scan[s].todo /\ r.answer = scan[s].answer
    BY <2>0 DEF ScanRecords
  <2> HIDE DEF r
  <2>3. scan[s].todo # {} => scan[s].doing["slopsquat"] \in {"batching", "asking"}
    BY <1>2 DEF Covering
  <2>4. Looking(r, d) = Looking(scan[s], d)
    BY <2>2 DEF Looking
  <2>5. ~r.limited => \E c \in Cut(d, Mentioned[d]) : c \subseteq Looking(r, d)
    BY <1>2, <2>0, <2>2, <2>4 DEF Covering
  <2>6. Advances(scan[s], r, d)
    BY <2>0, <2>2, <2>3 DEF Advances
  <2> QED
    BY <1>4, <2>0, <2>5, <2>6
\* The steps of the registry's detector.
<1>12. ASSUME NEW s \in Scans, NEW r, Becomes(s, r), scan[s].phase \in {"running", "failed"},
              r.phase = scan[s].phase, scan[s].limited => r.limited,
              \A e \in Detectors \ {"slopsquat"} : /\ r.doing[e] = scan[s].doing[e]
                                                   /\ r.pending[e] = scan[s].pending[e]
                                                   /\ r.checked[e] = scan[s].checked[e],
              r.pending["slopsquat"] # {} => r.doing["slopsquat"] = "asking",
              r.todo # {} => r.doing["slopsquat"] \in {"batching", "asking"},
              r.limited \/ Looking(scan[s], "slopsquat") \subseteq Looking(r, "slopsquat"),
              scan[s].doing["slopsquat"] \in {"batching", "asking", "saving", "telling"}
       PROVE  CoverInv'
  <2>1. Advances(scan[s], r, "slopsquat")
    BY <1>12 DEF Advances
  <2>2. ASSUME ~r.limited
        PROVE  \E c \in Cut("slopsquat", Mentioned["slopsquat"]) : c \subseteq Looking(r, "slopsquat")
    <3>1. PICK c \in Cut("slopsquat", Mentioned["slopsquat"]) : c \subseteq Looking(scan[s], "slopsquat")
      <4>1. scan[s].limited \in BOOLEAN /\ Covering(scan[s])
        BY <1>2 DEF ScanRecords
      <4> QED
        BY <1>12, <2>2, <4>1 DEF Covering
    <3> QED
      BY <1>12, <2>2, <3>1
  <2> QED
    BY <1>4, <1>12, <2>1, <2>2
<1>13. ASSUME NEW s \in Scans, LoadCache(s) PROVE CoverInv'
  <2> DEFINE known == IF cache = Torn THEN Empty ELSE cache
             stale == {n \in Looked : ~FreshEntry(known[n])}
             l == scan[s].limited \/ (~scan[s].net /\ Looked # {})
             g == IF scan[s].net THEN "batching" ELSE "telling"
  <2>1. PICK c \in Cut("slopsquat", stale) :
          Becomes(s, [scan[s] EXCEPT !.doing["slopsquat"] = g, !.known = known,
                                     !.checked["slopsquat"] = Looked \ stale,
                                     !.todo = IF scan[s].net THEN c ELSE {}, !.limited = l])
    BY <1>13 DEF LoadCache
  <2> DEFINE todo == IF scan[s].net THEN c ELSE {}
             checked == Looked \ stale
             r == [scan[s] EXCEPT !.doing["slopsquat"] = g, !.known = known,
                                  !.checked["slopsquat"] = checked,
                                  !.todo = todo, !.limited = l]
  <2>2. Becomes(s, r)
    BY <2>1
  <2>3. /\ scan[s].net => g = "batching" /\ todo = c
        /\ ~scan[s].net => g = "telling" /\ todo = {} /\ l
        /\ scan[s].limited => l
        /\ l \in BOOLEAN
    OBVIOUS
  <2>4. PICK e \in Cut("slopsquat", Looked) : e \subseteq checked \cup c
    <3>1. stale \in SUBSET Looked /\ IsFiniteSet(Looked)
      BY DEF Looked
    <3> HIDE DEF stale
    <3> QED
      BY <2>1, <3>1, CutOfRest
  <2> HIDE DEF known, l, g, todo, checked
  <2>5. /\ r.phase = scan[s].phase /\ r.limited = l /\ r.pending = scan[s].pending
        /\ \A d \in Detectors : /\ r.doing[d] = IF d = "slopsquat" THEN g ELSE scan[s].doing[d]
                                /\ r.checked[d] = IF d = "slopsquat" THEN checked ELSE scan[s].checked[d]
        /\ r.todo = todo
    BY <1>2 DEF ScanRecords
  <2>6. scan[s].phase \in {"running", "failed"} /\ scan[s].doing["slopsquat"] = "reading"
    BY <1>13 DEF LoadCache, Doing, Alive
  <2> HIDE DEF r
  <2>7. scan[s].pending["slopsquat"] = {}
    BY <1>2, <2>6 DEF Covering
  <2>8. Advances(scan[s], r, "slopsquat")
    <3>1. r.todo # {} => r.doing["slopsquat"] \in {"batching", "asking"}
      BY <2>3, <2>5
    <3> QED
      BY <2>3, <2>5, <2>6, <2>7, <3>1 DEF Advances
  <2>9. ~r.limited => e \subseteq Looking(r, "slopsquat")
    BY <1>2, <2>3, <2>4, <2>5 DEF Looking
  <2>10. ~r.limited => \E x \in Cut("slopsquat", Mentioned["slopsquat"]) :
                         x \subseteq Looking(r, "slopsquat")
    BY <2>4, <2>9 DEF Looked
  <2> QED
    BY <1>4, <2>2, <2>8, <2>10
<1>14. ASSUME NEW s \in Scans, SendBatch(s) PROVE CoverInv'
  <2>1. PICK b \in SUBSET scan[s].todo :
          Becomes(s, [scan[s] EXCEPT !.doing["slopsquat"] = "asking", !.pending["slopsquat"] = b,
                                     !.todo = @ \ b, !.sent = clock])
    BY <1>14 DEF SendBatch
  <2> DEFINE r == [scan[s] EXCEPT !.doing["slopsquat"] = "asking", !.pending["slopsquat"] = b,
                                  !.todo = @ \ b, !.sent = clock]
  <2>2. Becomes(s, r)
    BY <2>1
  <2>3. /\ r.phase = scan[s].phase /\ r.limited = scan[s].limited
        /\ \A e \in Detectors : /\ r.doing[e] = IF e = "slopsquat" THEN "asking" ELSE scan[s].doing[e]
                                /\ r.pending[e] = IF e = "slopsquat" THEN b ELSE scan[s].pending[e]
        /\ r.checked = scan[s].checked /\ r.todo = scan[s].todo \ b /\ r.answer = scan[s].answer
    BY <1>2 DEF ScanRecords
  <2>4. scan[s].phase \in {"running", "failed"} /\ scan[s].doing["slopsquat"] = "batching"
    BY <1>14 DEF SendBatch, Doing, Alive
  <2> HIDE DEF r
  <2>5. scan[s].pending["slopsquat"] = {}
    BY <1>2, <2>4 DEF Covering
  <2>6. Looking(scan[s], "slopsquat") \subseteq Looking(r, "slopsquat")
    BY <2>3, <2>5 DEF Looking
  <2>7. r.doing["slopsquat"] = "asking"
        /\ \A e \in Detectors \ {"slopsquat"} : /\ r.doing[e] = scan[s].doing[e]
                                                /\ r.pending[e] = scan[s].pending[e]
                                                /\ r.checked[e] = scan[s].checked[e]
    BY <2>3
  <2> QED
    BY <1>12, <2>2, <2>3, <2>4, <2>6, <2>7
<1>15. ASSUME NEW s \in Scans, NEW n \in Names, RegistryAnswered(s, n) \/ RegistryFails(s, n)
       PROVE  CoverInv'
  <2>0. scan[s].phase \in {"running", "failed"} /\ scan[s].doing["slopsquat"] = "asking"
        /\ n \in scan[s].pending["slopsquat"] /\ scan[s] \in ScanRecords
    BY <1>2, <1>15 DEF RegistryAnswered, RegistryFails, Doing, Alive
  <2>1. PICK r : /\ Becomes(s, r)
                 /\ \/ r = [scan[s] EXCEPT !.pending["slopsquat"] = @ \ {n},
                                           !.answer[n] = IF n \in registry THEN "exists" ELSE "missing"]
                    \/ r = [scan[s] EXCEPT !.pending["slopsquat"] = @ \ {n}, !.answer[n] = Unknown,
                                           !.limited = TRUE]
    BY <1>15 DEF RegistryAnswered, RegistryFails
  <2>2. /\ r.phase = scan[s].phase /\ r.doing = scan[s].doing
        /\ \A e \in Detectors \ {"slopsquat"} : r.pending[e] = scan[s].pending[e]
        /\ r.checked = scan[s].checked /\ r.todo = scan[s].todo
        /\ \/ r.limited = TRUE
           \/ /\ r.limited = scan[s].limited
              /\ r.pending["slopsquat"] = scan[s].pending["slopsquat"] \ {n}
              /\ r.answer[n] \in {"exists", "missing"}
              /\ \A m \in Names \ {n} : r.answer[m] = scan[s].answer[m]
    <3>1. CASE r = [scan[s] EXCEPT !.pending["slopsquat"] = @ \ {n},
                                   !.answer[n] = IF n \in registry THEN "exists" ELSE "missing"]
      BY <2>0, <3>1 DEF ScanRecords
    <3>2. CASE r = [scan[s] EXCEPT !.pending["slopsquat"] = @ \ {n}, !.answer[n] = Unknown,
                                   !.limited = TRUE]
      BY <2>0, <3>2 DEF ScanRecords
    <3> QED
      BY <2>1, <3>1, <3>2
  <2>3. r.limited \/ Looking(scan[s], "slopsquat") \subseteq Looking(r, "slopsquat")
    BY <2>0, <2>2 DEF Looking
  <2>4. scan[s].limited => r.limited
    BY <2>2
  <2> QED
    BY <1>12, <2>0, <2>1, <2>2, <2>3, <2>4
<1>16. ASSUME NEW s \in Scans, EnterBatch(s) PROVE CoverInv'
  <2> DEFINE known == [n \in Names |-> IF n \in Answered(s)
                                       THEN [exists |-> scan[s].answer[n] = "exists", at |-> clock]
                                       ELSE scan[s].known[n]]
             r == [scan[s] EXCEPT !.doing["slopsquat"] = "batching", !.known = known,
                                  !.checked["slopsquat"] = @ \cup Answered(s),
                                  !.answer = [n \in Names |-> Unasked]]
  <2>1. /\ Becomes(s, r) /\ scan[s].phase \in {"running", "failed"}
        /\ scan[s].doing["slopsquat"] = "asking" /\ scan[s].pending["slopsquat"] = {}
    BY <1>16 DEF EnterBatch, Doing, Alive
  <2> HIDE DEF known
  <2>2. /\ r.phase = scan[s].phase /\ r.limited = scan[s].limited
        /\ \A e \in Detectors : r.doing[e] = IF e = "slopsquat" THEN "batching" ELSE scan[s].doing[e]
        /\ \A e \in Detectors \ {"slopsquat"} : r.checked[e] = scan[s].checked[e]
        /\ r.checked["slopsquat"] = scan[s].checked["slopsquat"] \cup Answered(s)
        /\ r.pending = scan[s].pending /\ r.todo = scan[s].todo
    BY <1>2 DEF ScanRecords
  <2> HIDE DEF r
  <2>3. Looking(scan[s], "slopsquat") \subseteq Looking(r, "slopsquat")
    BY <2>2 DEF Looking, Answered
  <2>4. r.pending["slopsquat"] = {} /\ r.doing["slopsquat"] = "batching"
        /\ \A e \in Detectors \ {"slopsquat"} : r.doing[e] = scan[s].doing[e]
    BY <2>1, <2>2
  <2> QED
    BY <1>12, <2>1, <2>2, <2>3, <2>4
\* The detector goes on to a stage in which it asks no more.
<1>17. ASSUME NEW s \in Scans, NEW g \in {"saving", "telling"},
              Becomes(s, [scan[s] EXCEPT !.doing["slopsquat"] = g]),
              scan[s].phase \in {"running", "failed"},
              scan[s].doing["slopsquat"] \in {"batching", "saving"},
              scan[s].doing["slopsquat"] = "batching" => scan[s].todo = {}
       PROVE  CoverInv'
  <2> DEFINE r == [scan[s] EXCEPT !.doing["slopsquat"] = g]
  <2>1. Becomes(s, r) /\ scan[s].pending["slopsquat"] = {} /\ scan[s].todo = {}
    BY <1>2, <1>17 DEF Covering
  <2>2. /\ r.phase = scan[s].phase /\ r.limited = scan[s].limited
        /\ \A e \in Detectors : r.doing[e] = IF e = "slopsquat" THEN g ELSE scan[s].doing[e]
        /\ r.checked = scan[s].checked /\ r.answer = scan[s].answer
        /\ r.pending = scan[s].pending /\ r.todo = scan[s].todo
    BY <1>2 DEF ScanRecords
  <2> HIDE DEF r
  <2>3. Looking(r, "slopsquat") = Looking(scan[s], "slopsquat")
    BY <2>2 DEF Looking
  <2> QED
    BY <1>12, <1>17, <2>1, <2>2, <2>3
<1>18. ASSUME NEW s \in Scans, TruncateCache(s) \/ WriteCacheFile(s) \/ SaveFails(s)
       PROVE  CoverInv'
  BY <1>17, <1>18 DEF TruncateCache, WriteCacheFile, SaveFails, Doing, Alive
<1>19. ASSUME NEW s \in Scans, TellRegistry(s) PROVE CoverInv'
  <2>1. PICK told : Becomes(s, [scan[s] EXCEPT !.doing["slopsquat"] = "ended", !.known = Empty,
                                               !.told = told])
    BY <1>19 DEF TellRegistry
  <2> DEFINE r == [scan[s] EXCEPT !.doing["slopsquat"] = "ended", !.known = Empty, !.told = told]
  <2>2. /\ Becomes(s, r) /\ scan[s].phase \in {"running", "failed"}
        /\ scan[s].doing["slopsquat"] = "telling"
    BY <1>19, <2>1 DEF TellRegistry, Doing, Alive
  <2>3. scan[s].pending["slopsquat"] = {} /\ scan[s].todo = {}
    BY <1>2, <2>2 DEF Covering
  <2>4. /\ r.phase = scan[s].phase /\ r.limited = scan[s].limited
        /\ \A e \in Detectors : r.doing[e] = IF e = "slopsquat" THEN "ended" ELSE scan[s].doing[e]
        /\ r.checked = scan[s].checked /\ r.answer = scan[s].answer
        /\ r.pending = scan[s].pending /\ r.todo = scan[s].todo
    BY <1>2 DEF ScanRecords
  <2> HIDE DEF r
  <2>5. Looking(r, "slopsquat") = Looking(scan[s], "slopsquat")
    BY <2>4 DEF Looking
  <2>6. /\ r.pending["slopsquat"] = {} /\ r.todo = {}
        /\ \A e \in Detectors \ {"slopsquat"} : r.doing[e] = scan[s].doing[e]
    BY <2>3, <2>4
  <2> QED
    BY <1>12, <2>2, <2>4, <2>5, <2>6
<1>20. ASSUME NEW s \in Scans, FinishScan(s) PROVE CoverInv'
  <2>1. PICK other \in BOOLEAN :
          Becomes(s, [NoScan EXCEPT !.phase = "done", !.asked = scan[s].asked, !.told = scan[s].told,
                                    !.checked = scan[s].checked,
                                    !.complete = ~(scan[s].limited \/ other)])
    BY <1>20 DEF FinishScan
  <2> DEFINE r == [NoScan EXCEPT !.phase = "done", !.asked = scan[s].asked, !.told = scan[s].told,
                                 !.checked = scan[s].checked,
                                 !.complete = ~(scan[s].limited \/ other)]
  <2>2. /\ Becomes(s, r)
        /\ r.pending = [d \in Detectors |-> {}] /\ r.todo = {}
        /\ r.doing = [d \in Detectors |-> "waiting"]
        /\ r.checked = scan[s].checked /\ r.asked = scan[s].asked
        /\ r.complete => ~scan[s].limited
    BY <2>1 DEF NoScan
  <2> HIDE DEF r
  <2>3. scan[s].asked \in Seq(Detectors) /\ scan[s].turn \in Nat \ {0}
        /\ scan[s].turn > Len(scan[s].asked)
    BY <1>2, <1>20, AskedType DEF FinishScan
  <2>4. ASSUME r.complete, NEW i \in DOMAIN scan[s].asked
        PROVE  \E c \in Cut(scan[s].asked[i], Mentioned[scan[s].asked[i]]) :
                 c \subseteq scan[s].checked[scan[s].asked[i]]
    <3> DEFINE d == scan[s].asked[i]
    <3>1. d \in Detectors /\ ~(i >= scan[s].turn)
      BY <2>3
    <3>2. scan[s].doing[d] # "waiting"
      BY <1>2, <3>1 DEF Sound, InTurn
    <3>3. scan[s].doing[d] = "ended"
      BY <1>20, <3>1, <3>2 DEF FinishScan, Busy
    <3> HIDE DEF d
    <3>4. PICK c \in Cut(d, Mentioned[d]) : c \subseteq Looking(scan[s], d)
      BY <1>2, <2>2, <2>4, <3>1, <3>3 DEF Covering
    <3>5. scan[s].pending[d] = {}
      BY <1>2, <3>1, <3>3 DEF Covering
    <3>6. d = "slopsquat" => /\ scan[s].todo = {}
                             /\ \A n \in Names : scan[s].answer[n] \notin {"exists", "missing"}
      BY <1>2, <3>3 DEF Covering, Sound, BatchTrue
    <3>7. c \subseteq scan[s].checked[d]
      BY <3>4, <3>5, <3>6 DEF Looking
    <3> QED
      BY <3>7 DEF d
  <2>5. Covering(r)
    BY <2>2, <2>4 DEF Covering
  <2> QED
    BY <2>2, <2>5, BecomesCovering
<1>21. ASSUME NEW s \in Scans, KillScan(s) PROVE CoverInv'
  <2> DEFINE r == [NoScan EXCEPT !.phase = "killed"]
  <2>1. Becomes(s, r) /\ Covering(r)
    BY <1>21 DEF KillScan, NoScan, Covering
  <2> QED
    BY <2>1, BecomesCovering
<1> QED
  BY <1>1, <1>5, <1>6, <1>8, <1>9, <1>10, <1>11, <1>13, <1>14, <1>15, <1>16, <1>18, <1>19, <1>20,
     <1>21 DEF ScanNext, scanVars, ClockTick, PublishPackage

(* For any number of packages, limits and workers: a scan that calls its   *)
(* coverage complete was told something about as many packages as each of  *)
(* its detectors may look up.                                              *)
THEOREM CompleteHolds == ScanSpec => []CompleteWasTold
<1>1. ScanInit => CoverInv
  BY DEF ScanInit, CoverInv, Covering, NoScan
<1>2. CoverInv => CompleteWasTold
  BY DEF CoverInv, Covering, CompleteWasTold
<1> QED
  BY <1>1, <1>2, CoverStep, ScanTypesHold, SoundHolds, PTL DEF ScanSpec
=============================================================================
