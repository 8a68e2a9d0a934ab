# A verification development for verglos-cli

TLA+ models of the parts of the Verglos CLI in which several processes, files, requests
and instants of time have to agree, TLC configurations that check them on small
instances, and TLAPS proofs that the safety properties hold for every instance. Paths are
relative to the repository's `packages/`; `PROJECT.json` gives the lines each definition
is translated from, and the hazards each property is about.

## 1. The system

Verglos scans a project on the developer's machine and turns what it finds into evidence for a
release. One CLI process runs one command; several may run at once over the same home
directory (`~/.verglos`), the same project and the same state directories. Apart from the
engine cache nothing takes a lock. Files are written to a temporary name and renamed, or created with
`wx` when they must not replace another, or (two caches) truncated and written in place. Network
requests mostly carry an abort timer. Every `await` lets other processes, and the process's own
tasks, run.

| Component | State it keeps | Operations | Talks to | What is hard | Correct when |
| --- | --- | --- | --- | --- | --- |
| Private runner poll (`cli/src/private-runner-client.ts`, `shared/src/private-runner.ts`) | replay cache: two bounded lists in one file | poll: read cache, fetch, admit, persist, report; upload a result | server, credential file | cache read before the fetch and written after it; two pollers; full cache; a server that never answers; expiry while waiting | a job is accepted inside its scope and lifetime, recorded first, and not twice |
| Credential file (`cli/src/credentials.ts`, `login.ts`, `whoami.ts`) | one JSON record: key, plan, tokens, unlock token, runner credential | login, activate, whoami, unlock refresh, runner enroll | server, everything that needs a key | each command saves the whole record it loaded before its request; failed saves are swallowed | no credential is lost and the plan belongs to the key |
| Entitlement (`cli/src/entitlement.ts`, `entitlement/src/client.ts`) | `capabilities.json`, the signed token, the offline-grace file | resolveEntitlement: two concurrent tasks combined into a plan | server, credential file, every gated command | three caches with their own clocks; revocation; several keys and simulated plans in one file | a cancelled plan ends after a bounded time |
| Approval store (`shared/src/approval-store.ts`, `agent-authorization.ts`) | one receipt file per request digest | authorize, put, then act | fix, record sign and attest, MCP | listing, reading and renaming without a lock; failing puts | what is done is on record first, and one id means one content |
| Header fix (`cli/src/fix.ts`, `cli/src/index.ts`) | project files, snapshots in memory | plan, approve, snapshot, write, test, roll back | approval store, child processes, other editors | the project is looked at five times and may change between any two | what was approved is what is done; a rollback leaves nothing |
| Inspection pipeline (`scanner/src/inspection-pipeline.ts`, `cli/src/inspection-command.ts`) | producer results in memory, one snapshot file | resolve, run producers on workers, look again, assemble, publish | scanner, Trivy container, imports | concurrency, cancellation, a target that changes while it is read | a complete snapshot is about the tree it names |
| Scanner engine and its lookups (`scanner/src/index.ts`, `detectors/slopsquat.ts`, `dependencies.ts`, `vendored-cves.ts`) | `npm-existence.json` in the home directory | run detectors on bounded workers; look packages up; state the coverage | npm registry, OSV | overlapping scans over a file written in place; answers that expire between two looks; lookups that fail | what is told is recent; complete means looked up |
| Record store, signing, package (`cli/src/record-create.ts`, `record-sign.ts`, `record-package.ts`, `record-verify.ts`, `shared/src/record-*.ts`) | members by digest, the manifest, a signature, the package directory | create, sign, package, verify | release gate, attestation | crash between members and manifest; sources edited between digest and copy; two runs on one path | a published record, signature or package is whole, and stays |
| Sigstore attestation (`cli/src/record-sigstore.ts`) | claimed directory, bundle, binding, status file | claim, upload, two renames, status | Sigstore, record store and package | an upload that cannot be undone, crashes between writes | one directory causes one public entry, and nobody is told otherwise |
| Hunt execution (`hunt/src`, `cli/src/hunt-execute.ts`, `hunt-worker.ts`) | clock, sandbox, outcomes | run probes, clean up, keep or drop verdicts, prove, retest | worker threads, Docker | answer, error, exit and timer race; cleanup failure; a shared deadline | a verdict is what the finding's own probe answered in time |
| Release gate (`shared/src/policy-evaluation.ts`, `exception.ts`, `release-decision.ts`, `cli/src/policy-check.ts`, `mcp/src/tools/check-policy.ts`) | documents in files | evaluate, check, decide, except, explain | record assembly, MCP | documents that others wrote; validity at a boundary | a pass is derived again from facts |
| Organization policy (`cli/src/organization-policy-fetch.ts`, `organization-policy-cache.ts`) | one cached policy | fetch, fall back to the cache, write it | server, trusted-keys file | cache read before the fetch and written after it; keys that are withdrawn | a policy is used only under a trusted key, and not long after it was replaced |
| Detectors, MCP dispatch, engine cache, importers, schemas, reports, one-request clients | little or none | | | text heuristics, formats, dispatch | not modelled, see section 7 |

Components meet in files: the credential file feeds the entitlement and the poll; the approval store is written
before the header fix, the signing and the attestation act; the record store is read by signing, attestation and
packaging; the package includes signature and attestation. `ReleaseRecord` composes the last four.

## 2. Models

Every module is parameterised by CONSTANTS with named assumptions, has one action per step
between two awaits (or between two file operations another process can see), and ends with its
properties. Definitions whose comment says "Mutant" are deliberate mistakes; each property of a passing run is
known to fail under one of them.

Common abstractions. A write by rename or link is atomic; a write in place is two steps, and the file
is torn between them. A crash or an early return leaves exactly the files written so far. Cryptography is ideal:
a signature or digest is a relation between a document and what it was made for. Time is a small integer
that advances by an action of its own; the clock never runs backwards. A network request may be answered by anything
the server can send, or never.

**`ReplayLedger`** is the abstract specification of the runner: an unbounded log in which neither a job id nor a
nonce comes back within a window. **`PrivateRunner`** is the poll: `StartPoll` (credential check
and cache read, up to the fetch), `ReceiveJob` (the verdict, on the cache as it was read before the fetch),
`ReceiveNothing`, `TimeOut`, `Persist` and its failures, `ReturnReady`, `Crash`. It implements `ReplayLedger` under
the mapping in `LedgerSpec` until a poll replaces a file that is not the one it had read (`forked`); from then on
the ledger's promise ends (`unsound`). Files are reduced to their two lists and to whether the reader accepts them
(`Readable`: entry limit, byte limit, nonce pattern).

**`Credentials`** interleaves login (device flow with its deadline), activate, whoami, the unlock
refresh and enrollment over one record. A plan, token or unlock token is represented by the key it
was issued for. `Saving` models that a failed save is swallowed. **`SerialCredentials`** is what a user expects of them:
one record that whole commands change one after the other, each its own fields. `SerialSpec` is the refinement; the promise
ends (`unsound`) at a save over a record its command had not loaded (`clobbered`).

**`Entitlement`** has the two tasks of `resolveEntitlement` as two program counters per process
(`cpc`, `lpc`), the capability cache, the token, the grace file with its truncate-then-write, and
a server that cancels and renews subscriptions. `CancelledPlanEnds` bounds the whole: wherever an answer
comes from, a plan is used less than the grace, and the lifetime of the token it rests on, after it was last paid for. The claims of a token are reduced to key, issue and
expiry times and version.

**`DependencyScan`** is `runScan`: detectors start in order on `Workers` workers, each looks up at most `Limit` of
the packages it `Mentioned`, and the result states its coverage. The npm answers are read as one file
(`LoadCache`), asked for in batches of `BatchSize` with a timer (`SendBatch`, `RegistryAnswered`, `RegistryFails`,
`EnterBatch`), written back in place (`TruncateCache`, `WriteCacheFile`, `SaveFails`) and told
(`TellRegistry`), while other scans do the same. `Patience` is how long one request lasts.
All detectors that only read the project are one, "files", which may throw. An advisory lookup of the
lockfile carries no timer of its own (`dependencies.ts:32`), so that it may last for ever.

**`ApprovalStore`** models `putApprovalReceipt` name by name: list, read each receipt, write, rename; the
commands act only after the put returned. Its clock moves because a receipt expires.

**`HeaderFix`** models the fix command from the first plan to success, refusal or rollback, with `Edit`
by somebody else at every point. A file is reduced to absent, patchable, declaring headers or other,
with the edit that made it.

**`Inspection`** models `verglos scan --snapshot`. The command resolves the tree to a subject,
workers `Take` the next producer, a producer reads (`Read` may happen any number of times), and
`CheckTarget` resolves again. `ProducerFails` is the catch of the pipeline. `Notice` is a check of
the abort signal. `Publish` is the link; `OtherPublishes` stands for any number of
other inspections with the same output path. A process that is killed takes no further step, which every
behaviour of `Spec` may do. Resolving is treated as one read, so a digest of a tree that is edited while it is
being hashed is outside the model. The Trivy adapter that ships always reports incomplete coverage and so does
every import, so in practice only native inspections can be complete.

**`RecordStore`** is `record create`: digest every source file, store the members one by one, write the manifest
last and only if there is none, read and verify. The user may edit the sources at any moment. **`RecordAttest`** is
`record attest`: claim the directory, write the status, store the approvals, upload, verify, rename bundle and binding into place, write
the status again; the answer to an upload may be lost. **`ReleaseRecord`** composes both with `record sign` and
`record package`, whose results depend on the store and the attestation as they are read. **`WriteOnce`** is
what a reader of each of the three artefacts is promised; `PublishedOnce` is the refinement, three times.

**`HuntRun`** is one call of `runHunt`: the findings are probed one after the other against one deadline, by a
worker thread with a timer, a container's client that gets a SIGTERM, or a caller's own adapter. `Slack` is how late a timer, or the end of a
terminated worker, may be. **`HuntExecution`** is the commands over it: execute, worker, and
proof and retest, which run twice. **`FindingVerdicts`** is what a reader of a result is promised: a call gives each
finding it selected one verdict, in order, and a failed cleanup voids them all; `FindingsSpec` is the refinement. It maps
the steps in which probes, timers and clocks move to stuttering.

**`OrganizationPolicy`** is the third cache that is read before a fetch and written after it: policies are
replaced on the server, keys are taken off the trusted file, caches are foreign or unreadable, requests and
writes fail. A policy is its number and its key.

**`ReleaseGate`** holds the documents and the commands that read them. `WriteEvaluation` writes any document; `CheckPolicy`,
`CheckSnapshot`, `CreateRelease`, `ExplainPolicy` and `UseException` accept, derive and report as the schemas
and the commands do. A check is its level, its status, whether it has evidence, and until when that is valid.

The `MC` modules give the constants values. `MCApprovedChange`, `MCCachedAnswers`, `MCGovernance` and
`MCReleaseRecord` choose a *cast* at the start: the part of the system (or the two or three commands) that a behaviour is about, while
the rest stands still. Parts that share no state lose nothing by that; in `MCReleaseRecord`, where they do share, the casts are
the combinations that touch the same artefact.

### History variables

Several promises hold only as long as no other process interferes at one particular moment. Rather
than restrict the model to one process, a history variable records that the moment happened, and the property
holds until then, for any number of processes. Others record what the property compares with.

| Variable | What it records | Property |
| --- | --- | --- |
| `forked` | a poll replaced a cache it had not read | `CacheIsLogTail`, `LedgerSpec` |
| `clobbered` | a save replaced a record its command had not loaded | `SerialSpec`, `EnrolledMeansStored` |
| `overlapped` | a receipt was published while another put read the store | `OneContentUnlessOverlapped` |
| `raced` | an edit between a look of the command and its use | `ApprovedUnlessRaced`, `RollbackLeavesNothing`, `RunsApprovedTests` |
| `reverted` | the tree came back to the subject while producers ran | `EvidenceBelongs` |
| `lastActive`, `refused` | when a plan was last active; the refusal a call read | `CancelledPlanEnds`, `RefusalHolds` |
| `said`, `wrote` | what the registry could have said, and when; who wrote the file since a truncation | `ToldRecently` |
| `fired` | the findings whose timer fired first | `VerdictEarned` |
| `published` (policy) | every policy of the server with its time | `SupersededWithinTtl`, `FallsBackOnlyIfRaced` |

## 3. Runs

| Run | Instance | What it shows |
| --- | --- | --- |
| `runner` | 2 pollers, 2 polls each, 12 jobs, cache of 2, 3 instants | all properties of the poll, refinement of the ledger, every poll ends |
| `credentials` | 2 processes, 2 commands each, 2 keys, 1 enrollment, failing reads and saves | key and plan agree, a reported enrollment is on disk, lost only to a clobbering save, refinement of the serial file, every command ends |
| `cached_answers` | plan: 1 process (2 tasks), 1 key, grace 2, lifetimes shorter and longer than allowed, 4 instants, simulated calls, failing writes. Scan: 2 scans, 2 packages, batches of 1, 2 workers, entries that live 1 instant | how long a cancelled plan can be used, and that a recorded refusal wins; how old an answer may be that is told, and what complete means |
| `approved_change` | store: 2 processes, 3 requests of which 2 share an id, 2 decisions, faults. Fix: 2 configs, 2 helper places, 2 edits | one content per id unless overlapped, nothing acted on without a record; approval, audit, rollback, tests |
| `inspection` | plans of 2 and 3 producers, 2 workers, 2 trees, 2 edits | evidence, cancellation, termination |
| `release_record` | 3 manifests over 2 payloads, one of them unreadable; casts of 2 or 3 commands, 2 errors or kills, 1 edit | one upload, honest outcomes, whole packages, three refinements of `WriteOnce` |
| `hunt` | 2 findings, 4 units of time in all, 3 per probe, lateness 1 | verdicts, deadline, exit codes, proofs, refinement of `FindingVerdicts`, every run ends |
| `governance` | 2 calls over 2 repositories or 2 keys, 2 policies each, life 2; 2 checks at every level and status; 3 instants | the policy cache, and what a pass, a block and an exception mean |

Why these bounds. A race on one file needs two processes; replacing an entry that was just read needs
two polls of one of them; a cache of two entries is full, and cut, within the bound; a tree
needs two edits to leave the subject and come back; a plan of three on two workers makes a worker
take a second producer; a grace of two over four instants puts a cached refusal and a token
on both sides of every limit; an npm entry that lives one instant expires between two looks; two packages and a limit of
one make a detector leave one out; two errors or kills (`MaxFaults`) let a retry be killed too; the first of two findings can use up the
deadline of the second; two policies (`MaxPolicies`) are one replacement; a check that is valid until instant 1 or 2 of `Horizon` 2 lies on either side of an
evaluation at 1. `MaxTime`, `MaxClock`, `MaxEdits`, `MaxChanges`, `MaxPolls`, `MaxCommands`, `MaxEnrolled`, `Documents` and `Referred` bound the models and not the code. The proofs of
section 5 need no bound but those in the guards, whose values they leave open. The two calls of `governance` are interchangeable, hence its symmetry; the casts do not name them.
The plan of `cached_answers` was also explored with two processes and three instants, which is too large for a regular run, without a violation.
Deadlock is not checked where commands really stop.

The following runs are expected to find a violation. Each is a sentence of the repository that the code does
not keep in some interleaving or sequence:

| Run | Property | What happens |
| --- | --- | --- |
| `runner_race` | `ReplayedJobRefused` | two pollers read the cache before their fetch; both accept and report the same job (`private-runner-client.ts:245`) |
| `credentials_race` | `RunnerCredentialKept` | a login that loaded before an enrollment saves over it; the secret is spent (`credentials.ts:114`) |
| `approval_replace` | `ReceiptNeverReplaced` | a second decision replaces the first: rename never fails with EEXIST (`approval-store.ts:50`) |
| `fix_race` | `WritesAsApproved` | the writer selects a file for itself after the last comparison (`fix.ts:617`) |

### Seen while modelling, and not kept as runs

- Seven days after a recorded refusal, the older token of the revoked key grants the plan again (`entitlement.ts:399`;
  the comment at `entitlement.ts:39` says that a cancelled plan then drops to Free). The same happens as soon as another key or a
  simulated call has replaced the one entry of `capabilities.json`, and a call that overlaps the refusal does not see
  it. `RefusalHolds` states what is kept.
- An attempt that the contract of `shared/src/verification.ts:318` refuses denies the whole Hunt execution
  (`hunt-execute.ts:143`), other findings included, where `hunt/README.md:5` names a canonical state for each outcome.
- `record create` accepts manifests that its reader refuses: distinct digests are not asked of omitted members, nor that no
  required member is omitted (`record-create.ts:73`, `record-reader.ts:31`). And a torn manifest or signature
  is never replaced, because the next run creates with `wx`.
- A killed attestation leaves a status file that says `pending` and `not-attempted`, although the log may hold its entry.
- Nothing compares the time of a command with the validity of the evidence an evaluation rests on; the command trusts the levels the
  evaluation records; and nothing ties an organization policy to an evaluation. Exit code 2 means a review and also an input that was refused.
  An exception may apply at instants before its approval was decided.
- A foreign or unreadable policy cache ends online calls as well (`organization-policy-fetch.ts:65`).
- A scan is "complete" although only the first packages up to a limit are looked up, and although an entry that expires between the two
  looks is told about no more (`slopsquat.ts:380`); `CompleteWasTold` states what it does mean.
- The container's limit is computed before the walk over the project (`docker-sandbox-adapter.ts:31`), so that the walk is not
  counted against the deadline; a client that ignores its SIGTERM is waited for without end.
- Two overlapping puts can store two contents under one request id (`OneContentUnlessOverlapped` is the exact condition). Test files are
  hashed against the approval and then read again by Node (`fix.ts:299`). A config is read, patched in memory and renamed into place, so an
  edit in between is lost, and a rollback goes over later edits (`fix.ts:95`). Of two overlapping `saveLastScore` one is lost.
- The offline grace is counted from the last verification where `entitlement/src/types.ts:9` says "once the token expires".
- An engine installer that is killed leaves its lock directory, and later ones are refused (`engine-cache.ts:23`).

## 4. Fairness

Fairness is weak and only on steps the code or the runtime guarantees.
`PrivateRunner`: the abort timer of a fetch fires, a write returns, a settled poll returns; nothing is
assumed of the server. `Credentials`: a login checks its deadline before each poll, requests have a
timer, saves return. `Inspection`: the command takes some step while it can: the scan reads a finite
tree, the probes and the container have timers (5 s, 30 s), file operations return; no fairness for
signals, edits or other inspections. `HuntRun` (`RunFairness`): the event loop serves what is due, a
terminated worker ends, the walk over a finite project ends and time goes on; nothing is assumed of a probe
answering, of a child obeying its SIGTERM or of a caller's adapter, and `EveryRunEnds` excepts exactly the two waits that
the code does not bound. The other modules are checked for safety only: their waits are timers and file
operations covered in the same way, and a scan does not always end, since an advisory lookup has no timer.

## 5. Proofs

`tlapm` checks every theorem to the last leaf; the only assumptions are the named ones on the
constants in each module, which TLC evaluates in the runs. Every safety and action property and every refinement of every passing run
is proved, for any number of processes, keys, packages, findings and instants.

| Module | Theorems | Argument |
| --- | --- | --- |
| `PrivateRunnerProofs` | `TypeCorrect`, `ScopeHolds`, `InStepHolds`, `ReadableHolds`, `TailHolds`, `ImplementsLedger`, `WedgeHolds`, `PersistedFirst`, `LockRefusesReplays` | `Decided`: a poll that is about to persist holds a verdict reached on its own snapshot. Lemmas on `LastEntries` (the tail of an append is the append to the tail, cut) give that the file is the tail of the log, from which an accepted job is not in the ledger's window: each `Persist` is a step of `ReplayLedger` or raises `unsound`. `Owed`: what was reported and what is still owed a report is no more than what was persisted. `AsRead`: a poll that is alone still finds the file as it read it |
| `CredentialsProofs` | `TypeCorrect`, `PlanHolds`, `RunnerKept`, `EnrolledHolds`, `ImplementsSerial`, `LockKeepsRunner` | every record anywhere (on disk, loaded, about to be saved) is of one key; `RunnerNeverOlder`: what a command is about to save has a runner credential no older than what it loaded, so only a save over an unseen record can lose one; `Enrolled`: what an enrollment is about to save holds the credential it was given, and until a save clobbers it the file does. `ImplementsSerial`: what a command is about to save is one of the records `Served` makes of the one it loaded, and a save that clobbers nothing finds that one in the file |
| `CachedAnswersProofs` | `TypeCorrect`, `TokenBounded`, `ServerRecent`, `CancelledEnds`, `AskedHolds`, `RefusalIsKept`; `ScanTypesHold`, `ToldHolds`, `CompleteHolds` | Plan: `VerifiedInTime` (the grace file never says a token was verified after its expiry), `ServerKnows` (an active entry or answer is stamped no later than the key's last activity), `TokensIssued` and `PlansIssued` (every token anywhere was issued no later than its key was last active, across changes of the key), `ReadAsAsked`, `Refused` (a recorded refusal is the inactive entry of the file, and a call bound by it is answered by the server or by that entry). Scan: `SoundInv` (whatever is in the file or in a scan's memory the registry said, at most `Patience` before its stamp; a batch is not late), `CoverInv` (until a limitation is recorded, what a detector was told, awaits and has still to ask is as much as it may look up), with counting lemmas on finite sets |
| `ApprovedChangeProofs` | `TypeCorrect`, `Recorded`, `OneContent`, `LockKeepsOneContent`; `FixTypeCorrect`, `ApprovedOnly`, `RolledBack`, `TestsAsApproved`, `QuietMomentsSuffice` | `StoredFirst`; `ScanCovers`: unless overlapped, what a put has still to read covers every stored receipt that reuses its id. `PlanHolds`: from the last comparison to the write the plan is empty or the approved one, a non-empty plan is on record, and unless an edit raced the writer can only find planned files; `SnapshotHolds`: the snapshot covers what was approved and holds no text of the command's own; `SuiteHolds`: between their comparison and their start the tests are as approved |
| `InspectionProofs` | `EvidenceOfSubject`, `AllReported`, `NothingPublishedIfCancelled`, `QuietTreeSuffices` | `BelongsInv`: while the tree has not come back to the subject, producers in a tree that is still the subject have seen only it (`SeenHere`), so what the second look lets settle as complete belongs to it (`OutputsBelong`); `WorkersDone`: workers that have all returned left no index; `CancelInv` |
| `ReleaseRecordProofs` | `ReleaseInvHolds`, `TypeCorrect`, `CreatedHolds`, `UploadedOnceHolds`, `BindingHolds`, `OutcomeHolds`, `PackageHolds`, `PublishedHolds` | `StoreInv` (a manifest lies in the store only when its members do, and one run at most is writing it), `AttestInv` (at most one run owns the directory, only the owner uploads, renames and writes the status; its flags say how far it came), `PackageInv` (what a packager read still verifies: members are never removed, and evidence does not change once bound). The refinement follows because each artefact appears by one step and its place is never empty again |
| `HuntExecutionProofs` | `HuntInvHolds`, `TypeCorrect`, `VerdictHolds`, `NothingLeftHolds`, `DeadlineHolds`, `ExitCodeHolds`, `ControlHolds`, `ImplementsFindings` | `RunInv`: findings after the current one are untouched, the adapter's own timer lies within what was left of the budget, time does not pass a timer by more than its lateness; `CommandInv`: what a stage keeps of its run is what that run ended with. `InOrder` (the findings that have a verdict are those before the current one) makes each `Record` a `Settle` of `FindingVerdicts`, and each of the other steps its `Begin`, `Close`, `Abandon` or a stutter |
| `GovernanceProofs` | `PolicyInvHolds`, `ActiveKeyHolds`, `SupersededHolds`, `FallBackHolds`, `LockKeepsNewest`; `GateTellsFactsHolds`, `RecordMeetsPolicyHolds`, `ExceptionHolds` | `PolicyInv`: the server's logs are in order of time, and every genuine entry, cached or held by a call, was current at the time it is dated with (`Backed`, `Current`); `NoOlder`: what the only call under way has received is no older than the cache; `GateInv`: what a command concluded is derived from a document it parsed |

The invariants the runs check are not inductive as they stand: each speaks of the end of an
operation, and the named strengthening says what holds on the way.

### What a lock, or a quiet moment, would repair

Where a promise holds only until somebody interferes, the theorems also name the condition under which it always holds. Each is a
hypothesis on behaviours (`[]OnePoll`, `[]OneCall`, ...) that the code does not establish, that many behaviours satisfy, and that
a lock or an exclusive checkout would establish; faults, crashes and all other steps remain possible under it.

| Condition | Then | Theorem |
| --- | --- | --- |
| no two polls overlap | no recorded job is handed out twice, the property that `runner_race` refutes | `LockRefusesReplays` |
| no two credential commands overlap, and reads do not fail | no runner credential is lost, the property that `credentials_race` refutes | `LockKeepsRunner` |
| no two puts overlap | one content per request id | `LockKeepsOneContent` |
| no two policy calls overlap | the cache never goes back to an older policy of a repository | `LockKeepsNewest` |
| no edit between a last look of the fix command and its use | the four promises of the fix, `WritesAsApproved`, which `fix_race` refutes, included | `QuietMomentsSuffice` |
| no edit of the tree while producers run | all the evidence of a snapshot is of its subject, the native scan's and that of incomplete coverage too | `QuietTreeSuffices` |

The fourth expected violation, `approval_replace`, needs no overlap: no lock repairs it. And `LockKeepsRunner` needs its second
condition: a read that fails is taken for an empty file, which one command alone then saves.

Only model-checked: liveness (`EveryPollEnds`, `EveryCommandEnds`, `EveryInspectionEnds`, `EveryRunEnds`), since the
provers have no ENABLED, and the four expected violations. `KeptUnlessClobbered` and `PaidFromServerIsRecent` are proved (`RunnerKept`, `ServerRecent`) and are
no properties of a run because `SerialSpec` and `CancelledPlanEnds` say more. `CreatesOnlyNewFiles`, `SnapshotNeverReplaced` and `AllReported`'s property are stated in
their modules but are no properties of a run: the exclusive link or the loop gives them almost at once. Induction over data and RECURSIVE operators are
out of the provers' reach; no module uses either.

## 6. What could come next

The plan of the development is done: the poll, the credential file, the entitlement, the approval store, the header fix, the
inspection, the record with its attestation, Hunt, the release gate, the organization policy and the scanner's lookups are modelled,
checked and proved about. Left are compositions rather than components: the header fix with the approval store (its
`audited` standing for the store's state), the entitlement with the commands that rewrite the credential file under it, and the MCP dispatch, whose approvals are
not single-use and whose file scope is a subset check (`mcp/src/server.ts`), over the approval store.

## 7. Not modelled

The models cover about a ninth of the implementation's lines. Most of the rest is data formats and text heuristics: schemas
(`shared/src/schema.ts`, `subject.ts`, `observation.ts`), importers, canonical JSON, the detectors' regular expressions,
reports (`reporter/src`), argument parsing and dispatch (`cli/src/index.ts`, `mcp/src/server.ts`), and build scripts. None of it has
state, a second actor or a failure to order; the repository's unit tests are the right tool for it, and a model of it
would be a transliteration. `PROJECT.json` lists these parts as components that are not modelled.

Also outside: the engine cache, telemetry, projection upload, monitor and update check, which perform one write or one request
each; the upload of a runner result, which changes no local state; `saveLastScore`; `record export`, which writes one
file; the container of an aborted Trivy run; a second kill signal, a full disk beyond a failing write, and clocks that run backwards.

## 8. Running

    tlc -workers 2 -config PrivateRunner.cfg MCPrivateRunner
    tlapm PrivateRunnerProofs.tla

`PROJECT.json` names the module and the configuration of each run. The longest run, `cached_answers`, takes
about two minutes on two workers; the proofs take about ten minutes in all.
