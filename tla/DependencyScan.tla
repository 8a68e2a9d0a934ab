--------------------------- MODULE DependencyScan ---------------------------
(***************************************************************************)
(* verglos scan: the detectors of runScan, on a bounded number of workers, *)
(* and the answers of the npm registry and of OSV that three of them need. *)
(* What the registry said is kept in one file in the home directory, which *)
(* every scan reads as a whole, adds to, and writes back in place.         *)
(*                                                                         *)
(* Detectors that only read the project are one, "files".  A package is a  *)
(* name; whether the registry has it may change at any time.  An advisory  *)
(* lookup is answered, fails, or is not answered at all.                   *)
(***************************************************************************)
EXTENDS Integers, Sequences, FiniteSets

CONSTANTS
  Scans,        \* scans that share a home directory, each run once
  Names,        \* package names
  Selections,   \* the detectors a scan may be asked for, in the order they are started
  Mentioned,    \* the packages that each detector finds in the project
  Limit,        \* how many of them each detector looks up at most
  BatchSize,    \* registry requests that are sent together
  Workers,      \* detectors that run at the same time
  Ttl,          \* how long an answer of the registry is used
  Patience,     \* how long a registry request may last: its timer and its lateness
  MaxChanges,   \* bound of the model: packages published and removed
  MaxClock       \* bound of the model: the clock stops here

Detectors == {"files", "dependencies", "slopsquat", "vendored-cves"}
Advised == {"dependencies", "vendored-cves"}

ASSUME ScanConstants ==
  /\ Selections \subseteq Seq(Detectors)
  /\ \A asked \in Selections : \A i, j \in DOMAIN asked : asked[i] = asked[j] => i = j
  /\ Mentioned \in [Detectors -> SUBSET Names]
  /\ Limit \in [Detectors -> Nat]
  /\ \A d \in Detectors : IsFiniteSet(Mentioned[d])
  /\ Mentioned["files"] = {}        \* reading the project looks nothing up
  /\ Mentioned["slopsquat"] # {}   \* else that detector returns at once
  /\ {BatchSize, Workers, Ttl, Patience} \subseteq Nat \ {0}
  /\ {MaxChanges, MaxClock} \subseteq Nat

VARIABLES
  clock,        \* the wall clock
  registry,   \* the packages that exist on npm
  changes,    \* how often that changed
  said,       \* history: what a request about each package could have been told, and when
  cache,      \* npm-existence.json: the entries, or Torn
  wrote,      \* history: the file was written since each scan truncated it
  scan        \* each scan: its detectors, its requests and what it reports

scanVars == <<clock, registry, changes, said, cache, wrote, scan>>

NoEntry == [exists |-> FALSE, at |-> -1]
Unasked == "unasked"
Unknown == "unknown"
Empty == [n \in Names |-> NoEntry]
Torn == [n \in Names |-> [exists |-> FALSE, at |-> -2]]   \* a text that does not parse

\* Of a scan: its detectors, whether it may use the network, the index of the next, what each
\* one does, the lookups under way, the entries in memory, the names to ask the registry
\* about, when the batch was sent, its answers, whether a limitation was recorded, the
\* packages each detector was told about, and what it reports of the registry.
NoScan ==
  [phase |-> "idle", asked |-> <<>>, net |-> TRUE, turn |-> 1, doing |-> [d \in Detectors |-> "waiting"],
   pending |-> [d \in Detectors |-> {}], known |-> Empty, todo |-> {}, sent |-> 0,
   answer |-> [n \in Names |-> Unasked], limited |-> FALSE,
   checked |-> [d \in Detectors |-> {}], told |-> {}, complete |-> FALSE]

\* The registry is asked about no other packages.
Looked == Mentioned["slopsquat"]
Saying(r, t) == {[name |-> n, exists |-> n \in r, at |-> t] : n \in Looked}

ScanInit ==
  /\ clock = 0
  /\ registry \in SUBSET Looked
  /\ changes = 0
  /\ said = Saying(registry, 0)
  /\ cache = Empty
  /\ wrote = [s \in Scans |-> FALSE]
  /\ scan = [s \in Scans |-> NoScan]

-----------------------------------------------------------------------------
(* The rest of the world.                                                  *)

\* The detectors of a scan that failed run on until the process has exited.
Alive(s) == scan[s].phase \in {"running", "failed"}
Doing(s, d, what) == Alive(s) /\ scan[s].doing[d] = what

\* A batch ends within Patience, so that time does not pass it by.
ClockTick ==
  /\ clock < MaxClock
  /\ \A s \in Scans : Doing(s, "slopsquat", "asking") => clock < scan[s].sent + Patience
  /\ clock' = clock + 1
  /\ said' = said \cup Saying(registry, clock + 1)
  /\ UNCHANGED <<registry, changes, cache, wrote, scan>>

\* A package is published or removed.
PublishPackage(n) ==
  /\ changes < MaxChanges
  /\ changes' = changes + 1
  /\ registry' = IF n \in registry THEN registry \ {n} ELSE registry \cup {n}
  /\ said' = said \cup Saying(registry', clock)
  /\ UNCHANGED <<clock, cache, wrote, scan>>

-----------------------------------------------------------------------------
(* The scan and its workers.                                               *)

Busy(s) == {d \in Detectors : scan[s].doing[d] \notin {"waiting", "ended"}}

\* Nothing but scan s changes, to the record r.
Becomes(s, r) ==
  /\ scan' = [scan EXCEPT ![s] = r]
  /\ UNCHANGED <<clock, registry, changes, said>>

StartScan(s) ==
  /\ scan[s].phase = "idle"
  /\ \E net \in BOOLEAN, asked \in Selections :
       Becomes(s, [scan[s] EXCEPT !.phase = "running", !.asked = asked, !.net = net])
  /\ UNCHANGED <<cache, wrote>>

\* A free worker starts the next detector.
StartDetector(s) ==
  /\ Alive(s)
  /\ Cardinality(Busy(s)) < Workers
  /\ scan[s].turn <= Len(scan[s].asked)
  /\ Becomes(s, [scan[s] EXCEPT !.turn = @ + 1, !.doing[scan[s].asked[scan[s].turn]] = "reading"])
  /\ UNCHANGED <<cache, wrote>>

FilesRead(s) ==
  /\ Doing(s, "files", "reading")
  /\ Becomes(s, [scan[s] EXCEPT !.doing["files"] = "ended"])
  /\ UNCHANGED <<cache, wrote>>

\* A detector that reads the project throws: the scan fails, its other workers go on.
FilesFail(s) ==
  /\ Doing(s, "files", "reading")
  /\ Becomes(s, [scan[s] EXCEPT !.doing["files"] = "failed", !.phase = "failed"])
  /\ UNCHANGED <<cache, wrote>>

-----------------------------------------------------------------------------
(* Advisories of OSV, for the lockfile and for vendored libraries.         *)

\* The first packages up to the limit.
Cut(d, names) == {c \in SUBSET names : Cardinality(c) = IF Cardinality(names) < Limit[d]
                                                       THEN Cardinality(names) ELSE Limit[d]}

AskAdvisories(s, d) ==
  /\ Doing(s, d, "reading")
  /\ IF scan[s].net
     THEN \E c \in Cut(d, Mentioned[d]) :
            Becomes(s, [scan[s] EXCEPT !.doing[d] = "asking", !.pending[d] = c])
     ELSE Becomes(s, [scan[s] EXCEPT !.doing[d] = "ended", !.limited = @ \/ Mentioned[d] # {}])
  /\ UNCHANGED <<cache, wrote>>

AdvisoryAnswered(s, d, n) ==
  /\ Doing(s, d, "asking")
  /\ n \in scan[s].pending[d]
  /\ Becomes(s, [scan[s] EXCEPT !.pending[d] = @ \ {n}, !.checked[d] = @ \cup {n}])
  /\ UNCHANGED <<cache, wrote>>

\* Mutant: a lookup that fails is an empty answer.
AdvisoryEmpty(s, d, n) ==
  /\ Doing(s, d, "asking")
  /\ n \in scan[s].pending[d]
  /\ Becomes(s, [scan[s] EXCEPT !.pending[d] = @ \ {n}])
  /\ UNCHANGED <<cache, wrote>>

\* An error or a refusal; for a vendored library, its timer too.
AdvisoryFails(s, d, n) ==
  /\ Doing(s, d, "asking")
  /\ n \in scan[s].pending[d]
  /\ Becomes(s, [scan[s] EXCEPT !.pending[d] = @ \ {n}, !.limited = TRUE])
  /\ UNCHANGED <<cache, wrote>>

AdvisoriesDone(s, d) ==
  /\ Doing(s, d, "asking")
  /\ scan[s].pending[d] = {}
  /\ Becomes(s, [scan[s] EXCEPT !.doing[d] = "ended"])
  /\ UNCHANGED <<cache, wrote>>

-----------------------------------------------------------------------------
(* Existence on npm.                                                       *)

\* Mutant: an entry is used an instant longer.
FreshTooLong(e) == e # NoEntry /\ clock - e.at <= Ttl

FreshEntry(e) == e # NoEntry /\ clock - e.at < Ttl

\* A file that does not parse is an empty cache.
LoadCache(s) ==
  /\ Doing(s, "slopsquat", "reading")
  /\ LET known == IF cache = Torn THEN Empty ELSE cache
         names == Looked
         stale == {n \in names : ~FreshEntry(known[n])} IN
     \E c \in Cut("slopsquat", stale) :
       Becomes(s, [scan[s] EXCEPT !.doing["slopsquat"] = IF scan[s].net THEN "batching" ELSE "telling",
                                  !.known = known, !.checked["slopsquat"] = names \ stale,
                                  !.todo = IF scan[s].net THEN c ELSE {},
                                  !.limited = @ \/ (~scan[s].net /\ names # {})])
  /\ UNCHANGED <<cache, wrote>>

\* The next requests are sent together.
SendBatch(s) ==
  /\ Doing(s, "slopsquat", "batching")
  /\ scan[s].todo # {}
  /\ \E b \in SUBSET scan[s].todo :
       /\ b # {} /\ Cardinality(b) <= BatchSize
       /\ Cardinality(b) = BatchSize \/ b = scan[s].todo
       /\ Becomes(s, [scan[s] EXCEPT !.doing["slopsquat"] = "asking", !.pending["slopsquat"] = b,
                                     !.todo = @ \ b, !.sent = clock])
  /\ UNCHANGED <<cache, wrote>>

RegistryAnswered(s, n) ==
  /\ Doing(s, "slopsquat", "asking")
  /\ n \in scan[s].pending["slopsquat"]
  /\ Becomes(s, [scan[s] EXCEPT !.pending["slopsquat"] = @ \ {n}, !.answer[n] = IF n \in registry THEN "exists" ELSE "missing"])
  /\ UNCHANGED <<cache, wrote>>

\* An error, another status, or the timer of three seconds.
RegistryFails(s, n) ==
  /\ Doing(s, "slopsquat", "asking")
  /\ n \in scan[s].pending["slopsquat"]
  /\ Becomes(s, [scan[s] EXCEPT !.pending["slopsquat"] = @ \ {n}, !.answer[n] = Unknown,
                                !.limited = TRUE])
  /\ UNCHANGED <<cache, wrote>>

Answered(s) == {n \in Names : scan[s].answer[n] \in {"exists", "missing"}}

\* Every request has ended: the answers are entered, with the time it is clock.
EnterBatch(s) ==
  /\ Doing(s, "slopsquat", "asking")
  /\ scan[s].pending["slopsquat"] = {}
  /\ Becomes(s, [scan[s] EXCEPT !.doing["slopsquat"] = "batching",
       !.known = [n \in Names |-> IF n \in Answered(s) THEN [exists |-> scan[s].answer[n] = "exists", at |-> clock]
                                  ELSE @[n]],
       !.checked["slopsquat"] = @ \cup Answered(s), !.answer = [n \in Names |-> Unasked]])
  /\ UNCHANGED <<cache, wrote>>

\* writeFile truncates the file before it writes.
TruncateCache(s) ==
  /\ Doing(s, "slopsquat", "batching")
  /\ scan[s].todo = {}
  /\ cache' = Torn
  /\ wrote' = [wrote EXCEPT ![s] = FALSE]
  /\ Becomes(s, [scan[s] EXCEPT !.doing["slopsquat"] = "saving"])

\* Over what another scan wrote meanwhile, a longer text leaves its end behind.
WriteCacheFile(s) ==
  /\ Doing(s, "slopsquat", "saving")
  /\ cache' \in {scan[s].known} \cup (IF wrote[s] THEN {Torn} ELSE {})
  /\ wrote' = [t \in Scans |-> t # s \/ wrote[s]]
  /\ Becomes(s, [scan[s] EXCEPT !.doing["slopsquat"] = "telling"])

\* The cache is best effort: the file stays as it is, whole or truncated.
SaveFails(s) ==
  /\ \/ Doing(s, "slopsquat", "saving")
     \/ Doing(s, "slopsquat", "batching") /\ scan[s].todo = {}
  /\ Becomes(s, [scan[s] EXCEPT !.doing["slopsquat"] = "telling"])
  /\ UNCHANGED <<cache, wrote>>

\* What is still fresh is reported; an entry that expired since it was loaded is not.
TellRegistry(s) ==
  /\ Doing(s, "slopsquat", "telling")
  /\ LET fresh == {n \in Looked : FreshEntry(scan[s].known[n])} IN
     Becomes(s, [scan[s] EXCEPT !.doing["slopsquat"] = "ended", !.known = Empty,
                                !.told = {[name |-> n, exists |-> scan[s].known[n].exists, at |-> clock] :
                                            n \in fresh}])
  /\ UNCHANGED <<cache, wrote>>

-----------------------------------------------------------------------------
\* Every worker has returned: the result, with its coverage.  Provenance may be skipped,
\* and the language unsupported: limitations too.
FinishScan(s) ==
  /\ scan[s].phase = "running"
  /\ scan[s].turn > Len(scan[s].asked)
  /\ Busy(s) = {}
  /\ \E other \in BOOLEAN :
       Becomes(s, [NoScan EXCEPT !.phase = "done", !.asked = scan[s].asked, !.told = scan[s].told,
                                 !.checked = scan[s].checked,
                                 !.complete = ~(scan[s].limited \/ other)])
  /\ UNCHANGED <<cache, wrote>>

KillScan(s) ==
  /\ Alive(s)
  /\ Becomes(s, [NoScan EXCEPT !.phase = "killed"])
  /\ UNCHANGED <<cache, wrote>>

ScanNext ==
  \/ ClockTick
  \/ \E n \in Looked : PublishPackage(n)
  \/ \E s \in Scans :
       \/ StartScan(s) \/ StartDetector(s) \/ FilesRead(s) \/ FilesFail(s)
       \/ \E d \in Advised : \/ AskAdvisories(s, d) \/ AdvisoriesDone(s, d)
                             \/ \E n \in Names : AdvisoryAnswered(s, d, n) \/ AdvisoryFails(s, d, n)
       \/ LoadCache(s) \/ SendBatch(s) \/ EnterBatch(s)
       \/ \E n \in Names : RegistryAnswered(s, n) \/ RegistryFails(s, n)
       \/ TruncateCache(s) \/ WriteCacheFile(s) \/ SaveFails(s) \/ TellRegistry(s)
       \/ FinishScan(s) \/ KillScan(s)

ScanSpec == ScanInit /\ [][ScanNext]_scanVars

-----------------------------------------------------------------------------
(* What a report says about a package, that it is not on npm or that it    *)
(* is, the registry said itself less than a day and one request before,    *)
(* although the answer may have passed through the files and the memory of *)
(* other scans, and through files written over each other (slopsquat.ts:111). *)
ToldRecently ==
  \A s \in Scans : \A f \in scan[s].told :
    \E a \in said : /\ a.name = f.name /\ a.exists = f.exists
                    /\ a.at <= f.at /\ f.at - a.at < Ttl + Patience

(* A scan that calls its coverage complete was told something about every  *)
(* package up to the limit of each detector, by the service or by an entry *)
(* that was fresh when it looked (scanner index.ts:265, slopsquat.ts:358). *)
CompleteWasTold ==
  \A s \in Scans : scan[s].phase = "done" /\ scan[s].complete =>
    \A i \in DOMAIN scan[s].asked : LET d == scan[s].asked[i] IN
      \E c \in Cut(d, Mentioned[d]) :
        c \subseteq scan[s].checked[d]
=============================================================================
