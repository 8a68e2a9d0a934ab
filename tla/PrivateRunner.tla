---------------------------- MODULE PrivateRunner ----------------------------
(***************************************************************************)
(* The outbound-only private runner of the CLI (`verglos runner poll`):    *)
(* packages/cli/src/private-runner-client.ts and the admission protocol of *)
(* packages/shared/src/private-runner.ts.                                  *)
(*                                                                         *)
(* Several CLI processes (Pollers) may poll on one machine, where they     *)
(* share one replay-cache file.  A poll reads the file, awaits the server, *)
(* decides synchronously on what it read before the await, renames a new   *)
(* file over the old one, and only then reports the job as ready.  The     *)
(* server and the network may answer anything, any number of times.        *)
(***************************************************************************)
EXTENDS Integers, Sequences, FiniteSets

CONSTANTS
  Pollers,           \* the CLI processes that may poll
  Jobs,              \* the job documents that may arrive in a response
  Tenant, Runner,    \* <tenantId> <runnerId> of the polls
  AllowedTargets,    \* --target of the polls
  UnstorableNonces,  \* nonces NONCE accepts and parseReplay's ID rejects
  MaxEntries,        \* MAX_REPLAY_ENTRIES
  MaxBytes,          \* MAX_REPLAY_BYTES
  EntryBytes,        \* bytes one remembered job takes in the file
  MaxLifetime,       \* MAX_JOB_LIFETIME_MS
  MaxTime,           \* bound of the model: the clock stops here
  MaxPolls           \* bound of the model: polls per process

ASSUME RunnerConstants ==
  /\ MaxEntries \in Nat \ {0}
  /\ MaxBytes \in Nat
  /\ EntryBytes \in Nat
  /\ MaxLifetime \in Nat
  /\ MaxTime \in Nat
  /\ MaxPolls \in Nat

(* A job is a record; wellFormed stands for the syntactic part of          *)
(* validShape, signed for the Ed25519 verification under the trusted key.  *)
ASSUME JobShape ==
  \A j \in Jobs : /\ j.issued \in Int
                  /\ j.expires \in Int
                  /\ j.wellFormed \in BOOLEAN
                  /\ j.signed \in BOOLEAN

VARIABLES
  now,          \* the wall clock
  credExpires,  \* expiry of the stored runner credential; 0 when there is none
  replay,       \* the replay-cache file; an absent file reads as two empty lists
  pc,           \* where each poll is
  snap,         \* the ReplayState each poll read before its fetch
  job,          \* the job each poll has admitted
  result,       \* status or reason the last poll ended with; none while one runs
  polls,        \* polls started by each process
  recorded,     \* history: every job persisted, in order
  handed,       \* history: every job reported ready, with the deciding time
  forked        \* history: a poll replaced a file that was not the one it had read

vars == <<now, credExpires, replay, pc, snap, job, result, polls, recorded, handed, forked>>

NoJob == [none |-> TRUE]
EmptyReplay == [jobIds |-> << >>, nonces |-> << >>]
Active == {"fetching", "writing", "persisted"}

JobIds == {j.jobId : j \in Jobs}
Nonces == {j.nonce : j \in Jobs}
ReplayStates == [jobIds : Seq(JobIds), nonces : Seq(Nonces)]

Failures == {"network", "response_too_large", "invalid_json", "http"}
Denials == {"invalid_response", "invalid_signature", "replayed_local", "tenant_mismatch",
            "runner_mismatch", "job_not_yet_valid", "job_expired", "target_not_allowlisted",
            "network_not_bounded"}
Results == {"none", "no_runner_credential", "invalid_input", "empty", "ready", "crashed"}
             \cup Failures \cup Denials

Elems(s) == {s[i] : i \in 1..Len(s)}

(***************************************************************************)
(* The replay-cache file.                                                  *)
(***************************************************************************)

\* Mutant: a full cache keeps its oldest entries, s.slice(0, MaxEntries).
FirstEntries(s) ==
  IF Len(s) <= MaxEntries THEN s ELSE SubSeq(s, 1, MaxEntries)

\* s.slice(-MaxEntries)
LastEntries(s) ==
  IF Len(s) <= MaxEntries THEN s ELSE SubSeq(s, Len(s) - MaxEntries + 1, Len(s))

\* rememberReplay: append, then keep the newest MaxEntries of each list.
Remember(r, j) ==
  [jobIds |-> LastEntries(Append(r.jobIds, j.jobId)),
   nonces |-> LastEntries(Append(r.nonces, j.nonce))]

\* readReplay and parseReplay return the state instead of throwing.
Readable(r) ==
  /\ EntryBytes * Len(r.jobIds) <= MaxBytes
  /\ Len(r.jobIds) <= MaxEntries
  /\ Len(r.nonces) <= MaxEntries
  /\ Elems(r.nonces) \cap UnstorableNonces = {}

(***************************************************************************)
(* Admission: what a job must satisfy, in the order the code asks.         *)
(***************************************************************************)

ValidShape(j) ==
  /\ j.wellFormed
  /\ j.expires - j.issued <= MaxLifetime

\* verifyPrivateRunnerJobSignature refuses a malformed job before it verifies.
SignatureVerifies(j) == ValidShape(j) /\ j.signed

\* Mutant: a replay must repeat both the identity and the nonce.
ReplayedBoth(r, j) == j.jobId \in Elems(r.jobIds) /\ j.nonce \in Elems(r.nonces)

Replayed(r, j) == j.jobId \in Elems(r.jobIds) \/ j.nonce \in Elems(r.nonces)

NetworkBounded(j) ==
  /\ j.mode = "denied" => j.destinations = 0
  /\ j.mode = "allowlisted" => j.destinations # 0

\* Mutant: a job is still accepted at the instant it expires.
AdmissionLate(j, t) ==
  IF j.tenant # Tenant THEN "tenant_mismatch"
  ELSE IF j.runner # Runner THEN "runner_mismatch"
  ELSE IF j.issued > t THEN "job_not_yet_valid"
  ELSE IF j.expires < t \/ j.expires <= j.issued THEN "job_expired"
  ELSE IF j.target \notin AllowedTargets THEN "target_not_allowlisted"
  ELSE IF ~NetworkBounded(j) THEN "network_not_bounded"
  ELSE "none"

\* admitPrivateRunnerJob at time t, after the replay check of the caller.
AdmissionFailure(j, t) ==
  IF j.tenant # Tenant THEN "tenant_mismatch"
  ELSE IF j.runner # Runner THEN "runner_mismatch"
  ELSE IF j.issued > t THEN "job_not_yet_valid"
  ELSE IF j.expires <= t \/ j.expires <= j.issued THEN "job_expired"
  ELSE IF j.target \notin AllowedTargets THEN "target_not_allowlisted"
  ELSE IF ~NetworkBounded(j) THEN "network_not_bounded"
  ELSE "none"

\* The whole verdict of a poll that read r before its fetch.
Verdict(r, j, t) ==
  IF ~SignatureVerifies(j) THEN "invalid_signature"
  ELSE IF Replayed(r, j) THEN "replayed_local"
  ELSE AdmissionFailure(j, t)

-----------------------------------------------------------------------------
Init ==
  /\ now = 1
  /\ credExpires = 0
  /\ replay = EmptyReplay
  /\ pc = [p \in Pollers |-> "idle"]
  /\ snap = [p \in Pollers |-> EmptyReplay]
  /\ job = [p \in Pollers |-> NoJob]
  /\ result = [p \in Pollers |-> "none"]
  /\ polls = [p \in Pollers |-> 0]
  /\ recorded = << >>
  /\ handed = << >>
  /\ forked = FALSE

\* A poll ends with outcome r: the process forgets what it read.
End(p, r) ==
  /\ pc' = [pc EXCEPT ![p] = "idle"]
  /\ result' = [result EXCEPT ![p] = r]
  /\ snap' = [snap EXCEPT ![p] = EmptyReplay]
  /\ job' = [job EXCEPT ![p] = NoJob]

\* `verglos runner enroll` succeeds: a credential valid until t is stored.
Enroll(t) ==
  /\ t > now
  /\ credExpires' = t
  /\ UNCHANGED <<now, replay, pc, snap, job, result, polls, recorded, handed, forked>>

(* pollPrivateRunnerJob up to the fetch: credential, trusted key, replay   *)
(* cache.  A missing or expired credential, or a cache that cannot be      *)
(* read, ends the poll before anything is sent.                            *)
StartPoll(p) ==
  /\ pc[p] = "idle"
  /\ polls[p] < MaxPolls
  /\ polls' = [polls EXCEPT ![p] = @ + 1]
  /\ \/ /\ credExpires <= now
        /\ End(p, "no_runner_credential")
     \/ /\ credExpires > now
        /\ ~Readable(replay)
        /\ End(p, "invalid_input")
     \/ /\ credExpires > now
        /\ Readable(replay)
        /\ pc' = [pc EXCEPT ![p] = "fetching"]
        /\ snap' = [snap EXCEPT ![p] = replay]
        /\ result' = [result EXCEPT ![p] = "none"]
        /\ UNCHANGED job
  /\ UNCHANGED <<now, credExpires, replay, recorded, handed, forked>>

\* The answer carries no job: an error, nothing to do, or a malformed body.
ReceiveNothing(p) ==
  /\ pc[p] = "fetching"
  /\ \E r \in Failures \cup {"empty", "invalid_response"} : End(p, r)
  /\ UNCHANGED <<now, credExpires, replay, polls, recorded, handed, forked>>

\* The answer carries job j, decided on the snapshot read before the fetch.
ReceiveJob(p, j) ==
  /\ pc[p] = "fetching"
  /\ LET v == Verdict(snap[p], j, now) IN
     \/ /\ v # "none"
        /\ End(p, v)
     \/ /\ v = "none"
        /\ pc' = [pc EXCEPT ![p] = "writing"]
        /\ job' = [job EXCEPT ![p] = [doc |-> j, at |-> now]]
        /\ UNCHANGED <<snap, result>>
  /\ UNCHANGED <<now, credExpires, replay, polls, recorded, handed, forked>>

\* Mutant: the timer is cleared before the body is read.
TimerCleared(p) == FALSE /\ UNCHANGED vars

\* The abort timer fires while the response or its body is awaited.
TimeOut(p) ==
  /\ pc[p] = "fetching"
  /\ End(p, "network")
  /\ UNCHANGED <<now, credExpires, replay, polls, recorded, handed, forked>>

\* writeReplay: the rename replaces the file with snapshot-plus-job.
Persist(p) ==
  /\ pc[p] = "writing"
  /\ replay' = Remember(snap[p], job[p].doc)
  /\ recorded' = Append(recorded, job[p].doc)
  /\ forked' = (forked \/ snap[p] # replay)
  /\ pc' = [pc EXCEPT ![p] = "persisted"]
  /\ UNCHANGED <<now, credExpires, snap, job, result, polls, handed>>

\* writeReplay fails before its rename: the poll ends, the file is as it was.
PersistFails(p) ==
  /\ pc[p] = "writing"
  /\ End(p, "invalid_input")
  /\ UNCHANGED <<now, credExpires, replay, polls, recorded, handed, forked>>

\* Mutant: "ready" is returned without waiting for the write.
ReturnBeforeWrite(p) ==
  /\ pc[p] = "writing"
  /\ handed' = Append(handed, job[p])
  /\ End(p, "ready")
  /\ UNCHANGED <<now, credExpires, replay, polls, recorded, forked>>

\* The poll returns "ready" with the job.
ReturnReady(p) ==
  /\ pc[p] = "persisted"
  /\ handed' = Append(handed, job[p])
  /\ End(p, "ready")
  /\ UNCHANGED <<now, credExpires, replay, polls, recorded, forked>>

\* The process dies at any await; only the file survives it.
Crash(p) ==
  /\ pc[p] \in Active
  /\ End(p, "crashed")
  /\ UNCHANGED <<now, credExpires, replay, polls, recorded, handed, forked>>

Tick ==
  /\ now < MaxTime
  /\ now' = now + 1
  /\ UNCHANGED <<credExpires, replay, pc, snap, job, result, polls, recorded, handed, forked>>

Next ==
  \/ Tick
  \/ \E t \in 1..MaxTime : Enroll(t)
  \/ \E p \in Pollers : \/ StartPoll(p)
                        \/ ReceiveNothing(p)
                        \/ \E j \in Jobs : ReceiveJob(p, j)
                        \/ TimeOut(p)
                        \/ Persist(p)
                        \/ PersistFails(p)
                        \/ ReturnReady(p)
                        \/ Crash(p)

Spec == Init /\ [][Next]_vars

(* The abort timer is armed before the fetch and cleared only when the     *)
(* poll returns, and the event loop runs the continuations of the writes.  *)
(* Nothing is assumed of the server.                                       *)
FairSpec ==
  /\ Spec
  /\ \A p \in Pollers : /\ WF_vars(TimeOut(p))
                        /\ WF_vars(Persist(p) \/ PersistFails(p))
                        /\ WF_vars(ReturnReady(p))

-----------------------------------------------------------------------------
Admitted == [doc : Jobs, at : Nat]

(* What every variable holds.  A poll that is past its admission holds the *)
(* job it admitted until it returns.                                       *)
TypeOK ==
  /\ now \in Nat
  /\ credExpires \in Nat
  /\ replay \in ReplayStates
  /\ pc \in [Pollers -> {"idle"} \cup Active]
  /\ snap \in [Pollers -> ReplayStates]
  /\ job \in [Pollers -> Admitted \cup {NoJob}]
  /\ \A p \in Pollers : pc[p] \in {"writing", "persisted"} => job[p] \in Admitted
  /\ result \in [Pollers -> Results]
  /\ polls \in [Pollers -> Nat]
  /\ recorded \in Seq(Jobs)
  /\ handed \in Seq(Admitted)
  /\ forked \in BOOLEAN

Positions(j) == {i \in 1..Len(recorded) : recorded[i] = j}

Hands(j) == {i \in 1..Len(handed) : handed[i].doc = j}

(* A job that is about to be persisted or was reported ready was within    *)
(* its validity window, for this tenant, runner and target, when it was    *)
(* decided on, however long the fetch took: the decision uses the clock    *)
(* after the fetch, the cache and the credential before it.                *)
InScope(a) ==
  /\ a.doc.signed
  /\ a.doc.tenant = Tenant /\ a.doc.runner = Runner
  /\ a.doc.target \in AllowedTargets
  /\ a.doc.issued <= a.at /\ a.at < a.doc.expires
  /\ a.at - a.doc.issued < MaxLifetime

AdmittedWithinScope ==
  /\ \A p \in Pollers : pc[p] \in {"writing", "persisted"} => InScope(job[p])
  /\ \A i \in 1..Len(handed) : InScope(handed[i])

(* "callers persist jobId/nonce before execution": whatever crashes, a job *)
(* is reported ready at most as often as it was persisted.                 *)
PersistedBeforeReady ==
  \A j \in Jobs : Cardinality(Hands(j)) <= Cardinality(Positions(j))

(* The two lists of the cache stay in step: entry i of one belongs to the  *)
(* job of entry i of the other, however writers interleave.                *)
InStep(r) ==
  /\ Len(r.jobIds) = Len(r.nonces)
  /\ \A i \in 1..Len(r.jobIds) :
       \E j \in Jobs : r.jobIds[i] = j.jobId /\ r.nonces[i] = j.nonce

ListsInStep == InStep(replay) /\ \A p \in Pollers : InStep(snap[p])

(* As long as every nonce the signer issues is also an ID and a full cache *)
(* fits in the byte bound, the cache file stays readable for ever.         *)
CacheStaysReadable == Readable(replay)

(* A cache that cannot be read and that no poll under way had read before  *)
(* is final: no later poll starts over with an empty replay state, sends a *)
(* request or replaces the file.                                           *)
Wedged == ~Readable(replay) /\ \A p \in Pollers : pc[p] = "idle"

WedgeIsFailClosed == [][Wedged => Wedged']_vars

IdOf == [j \in Jobs |-> j.jobId]
NonceOf == [j \in Jobs |-> j.nonce]

\* s holds the images under f of the newest MaxEntries elements of log.
IsTail(s, f, log) ==
  /\ Len(s) = IF Len(log) <= MaxEntries THEN Len(log) ELSE MaxEntries
  /\ \A i \in 1..Len(s) : s[i] = f[log[Len(log) - Len(s) + i]]

(* Until a poll replaces a file it had not read, the cache is the newest   *)
(* MaxEntries entries of all that was ever persisted, whatever polls ran   *)
(* in between, failed, timed out or crashed.                               *)
CacheIsLogTail ==
  ~forked => /\ IsTail(replay.jobIds, IdOf, recorded)
             /\ IsTail(replay.nonces, NonceOf, recorded)

(* The cache implements the ledger: until the file is forked, no identity  *)
(* and no nonce is persisted again while it is one of the last MaxEntries  *)
(* entries, whatever the server repeats.                                   *)
Ledger == INSTANCE ReplayLedger
            WITH Entries <- Jobs, Window <- MaxEntries, log <- recorded, unsound <- forked

LedgerSpec == Ledger!Spec

(* Every poll that sent a request ends, even if the server never answers.  *)
EveryPollEnds == \A p \in Pollers : pc[p] = "fetching" ~> pc[p] = "idle"

(* The claim of the test "private runner poll refuses a locally replayed   *)
(* job and never executes it": no job that is in the cache is persisted    *)
(* and made ready again.                                                   *)
ReplayedJobRefused ==
  [][\A p \in Pollers : (pc[p] = "writing" /\ pc'[p] = "persisted")
                           => ~Replayed(replay, job[p].doc)]_vars
=============================================================================
