---------------------------- MODULE RecordAttest ----------------------------
(***************************************************************************)
(* `verglos record attest` (executeRecordAttest of                         *)
(* packages/cli/src/record-sigstore.ts): runs that share one output        *)
(* directory.  A run claims the directory by creating it, writes a status  *)
(* file, has the statement signed and uploaded to the public transparency  *)
(* log, verifies the answer, renames bundle and binding into place, and    *)
(* writes the status again.  The upload cannot be undone.  Any file        *)
(* operation may fail, the answer to an upload may be lost, and a run may  *)
(* be killed at any point.                                                 *)
(*                                                                         *)
(* Which manifests can be attested is decided by the store, so Begin is    *)
(* an action of the module that composes the two.  A bundle is the run     *)
(* whose upload returned it.                                               *)
(***************************************************************************)
EXTENDS Integers, FiniteSets

CONSTANTS
  Attesters,   \* runs of `record attest` with one output directory
  Attestable,  \* manifests they may be given
  Audited      \* the runs that were given an approval store

ASSUME AttestConstants ==
  /\ Audited \subseteq Attesters
  /\ "none" \notin Attesters \cup Attestable
  /\ "torn" \notin Attesters \cup Attestable

VARIABLES
  dir,       \* the output directory
  apc,       \* where each run is
  subject,   \* the manifest it attests
  flags,     \* destinationClaimed, networkAttempted, bundleBytes of the run
  receipts,  \* approval receipts it has stored
  rekor,     \* entries of the transparency log, by the run that caused them
  outcome    \* transparencyLogOutcome it reported when it ended

attestVars == <<dir, apc, subject, flags, receipts, rekor, outcome>>

Absent == "none"
Cut == "torn"

NoDir == [exists |-> FALSE, status |-> Absent, bundle |-> Absent, binding |-> Absent]
Claimed == [NoDir EXCEPT !.exists = TRUE]
Fresh == [claimed |-> FALSE, attempted |-> FALSE, bundle |-> FALSE]

AttestInit ==
  /\ dir = NoDir
  /\ apc = [a \in Attesters |-> "idle"]
  /\ subject = [a \in Attesters |-> Absent]
  /\ flags = [a \in Attesters |-> Fresh]
  /\ receipts = [a \in Attesters |-> {}]
  /\ rekor = {}
  /\ outcome = [a \in Attesters |-> Absent]

(* Consents and both approvals hold, the directory is absent, and the      *)
(* record of manifest m has been read and verified.                        *)
BeginAttest(a, m) ==
  /\ apc[a] = "idle"
  /\ ~dir.exists
  /\ apc' = [apc EXCEPT ![a] = IF a \in Audited THEN "approving" ELSE "claiming"]
  /\ subject' = [subject EXCEPT ![a] = m]
  /\ UNCHANGED <<dir, flags, receipts, rekor, outcome>>

PutReceipt(a) ==
  /\ apc[a] = "approving"
  /\ LET action == IF receipts[a] = {} THEN "sign" ELSE "network"
     IN receipts' = [receipts EXCEPT ![a] = @ \cup {action}]
  /\ apc' = [apc EXCEPT ![a] = IF receipts[a] = {} THEN "approving" ELSE "claiming"]
  /\ UNCHANGED <<dir, subject, flags, rekor, outcome>>

\* mkdir fails when the directory exists; the staging directory is made in it.
Claim(a) ==
  /\ apc[a] = "claiming"
  /\ ~dir.exists
  /\ dir' = Claimed
  /\ flags' = [flags EXCEPT ![a].claimed = TRUE]
  /\ apc' = [apc EXCEPT ![a] = "announcing"]
  /\ UNCHANGED <<subject, receipts, rekor, outcome>>

(* The status "pending, not-attempted" is written with the exclusive flag, *)
(* and nothing is awaited between that and the request.                    *)
Announce(a) ==
  /\ apc[a] = "announcing"
  /\ dir.status = Absent
  /\ dir' = [dir EXCEPT !.status = "pending"]
  /\ flags' = [flags EXCEPT ![a].attempted = TRUE]
  /\ apc' = [apc EXCEPT ![a] = "uploading"]
  /\ UNCHANGED <<subject, receipts, rekor, outcome>>

(* The log accepts the entry, once (no retries): possibly after the run    *)
(* has timed out, failed or been killed.                                   *)
LogEntry(a) ==
  /\ flags[a].attempted
  /\ rekor' = rekor \cup {a}
  /\ UNCHANGED <<dir, apc, subject, flags, receipts, outcome>>

ReceiveBundle(a) ==
  /\ apc[a] = "uploading"
  /\ a \in rekor
  /\ flags' = [flags EXCEPT ![a].bundle = TRUE]
  /\ apc' = [apc EXCEPT ![a] = "staging"]
  /\ UNCHANGED <<dir, subject, receipts, rekor, outcome>>

(* Both files are written into the staging directory, after the bundle was *)
(* verified against the statement, the trusted root and the policy.        *)
Stage(a) ==
  /\ apc[a] = "staging"
  /\ apc' = [apc EXCEPT ![a] = "staged"]
  /\ UNCHANGED <<dir, subject, flags, receipts, rekor, outcome>>

\* Mutant: the binding is renamed first.
PlaceBindingFirst(a) ==
  /\ apc[a] = "staged"
  /\ dir' = [dir EXCEPT !.binding = a]
  /\ apc' = [apc EXCEPT ![a] = "placed"]
  /\ UNCHANGED <<subject, flags, receipts, rekor, outcome>>

PlaceBundle(a) ==
  /\ apc[a] = "staged"
  /\ dir' = [dir EXCEPT !.bundle = a]
  /\ apc' = [apc EXCEPT ![a] = "placed"]
  /\ UNCHANGED <<subject, flags, receipts, rekor, outcome>>

\* The binding names the bundle's digest and the manifest.
PlaceBinding(a) ==
  /\ apc[a] = "placed"
  /\ dir' = [dir EXCEPT !.binding = a]
  /\ apc' = [apc EXCEPT ![a] = "bound"]
  /\ UNCHANGED <<subject, flags, receipts, rekor, outcome>>

\* The final status is opened, which truncates the file, and then written.
OpenStatus(a) ==
  /\ apc[a] = "bound"
  /\ dir' = [dir EXCEPT !.status = Cut]
  /\ apc' = [apc EXCEPT ![a] = "closing"]
  /\ UNCHANGED <<subject, flags, receipts, rekor, outcome>>

WriteVerified(a) ==
  /\ apc[a] = "closing"
  /\ dir' = [dir EXCEPT !.status = "verified"]
  /\ apc' = [apc EXCEPT ![a] = "attested"]
  /\ outcome' = [outcome EXCEPT ![a] = "performed"]
  /\ UNCHANGED <<subject, flags, receipts, rekor>>

Working == {"approving", "claiming", "announcing", "uploading",
            "staging", "staged", "placed", "bound", "closing"}

\* mkdir finds the directory: another run claimed it in the meantime.
Refused(a) ==
  /\ apc[a] = "claiming"
  /\ dir.exists
  /\ apc' = [apc EXCEPT ![a] = "catching"]
  /\ UNCHANGED <<dir, subject, flags, receipts, rekor, outcome>>

(* Any step throws: an approval that cannot be stored, a request that is   *)
(* refused or times out (before or after the log took the entry), an       *)
(* answer that does not verify, a failing write.                           *)
Throw(a) ==
  /\ apc[a] \in Working
  /\ apc' = [apc EXCEPT ![a] = "catching"]
  /\ UNCHANGED <<dir, subject, flags, receipts, rekor, outcome>>

(* The catch keeps a received bundle, unless one is in place already or    *)
(* the write fails or is cut.                                              *)
KeepBundle(a) ==
  /\ apc[a] = "catching"
  /\ flags[a].claimed /\ flags[a].attempted
  /\ flags[a].bundle /\ dir.bundle = Absent
  /\ \E b \in {a, Cut} : dir' = [dir EXCEPT !.bundle = b]
  /\ apc' = [apc EXCEPT ![a] = "recording"]
  /\ UNCHANGED <<subject, flags, receipts, rekor, outcome>>

SkipBundle(a) ==
  /\ apc[a] = "catching"
  /\ flags[a].claimed /\ flags[a].attempted
  /\ apc' = [apc EXCEPT ![a] = "recording"]
  /\ UNCHANGED <<dir, subject, flags, receipts, rekor, outcome>>

\* Mutant: an upload without an answer counts as not attempted.
Optimistic(a) == IF flags[a].bundle THEN "performed" ELSE "not-attempted"

Outcome(a) ==
  IF flags[a].bundle THEN "performed"
  ELSE IF flags[a].attempted THEN "unknown" ELSE "not-attempted"

\* The status "incomplete" is written (or not), and the outcome reported.
RecordIncomplete(a) ==
  /\ apc[a] = "recording"
  /\ \E s \in {dir.status, Cut, "incomplete"} : dir' = [dir EXCEPT !.status = s]
  /\ apc' = [apc EXCEPT ![a] = "failed"]
  /\ outcome' = [outcome EXCEPT ![a] = Outcome(a)]
  /\ UNCHANGED <<subject, flags, receipts, rekor>>

\* Mutant: a claimed directory is always removed.
AlwaysGiveUp(a) ==
  /\ apc[a] = "catching"
  /\ dir' = IF flags[a].claimed THEN NoDir ELSE dir
  /\ apc' = [apc EXCEPT ![a] = "failed"]
  /\ outcome' = [outcome EXCEPT ![a] = Outcome(a)]
  /\ UNCHANGED <<subject, flags, receipts, rekor>>

(* Nothing was sent: a directory this run claimed is removed again, if     *)
(* that succeeds.                                                          *)
GiveUp(a) ==
  /\ apc[a] = "catching"
  /\ ~flags[a].attempted
  /\ dir' \in IF flags[a].claimed THEN {NoDir, dir} ELSE {dir}
  /\ apc' = [apc EXCEPT ![a] = "failed"]
  /\ outcome' = [outcome EXCEPT ![a] = Outcome(a)]
  /\ UNCHANGED <<subject, flags, receipts, rekor>>

\* The process is killed: it reports nothing and cleans nothing up.
Kill(a) ==
  /\ apc[a] \in Working \cup {"catching", "recording"}
  /\ apc' = [apc EXCEPT ![a] = "killed"]
  /\ UNCHANGED <<dir, subject, flags, receipts, rekor, outcome>>

AttestNext ==
  \E a \in Attesters :
    \/ PutReceipt(a) \/ Claim(a) \/ Announce(a) \/ LogEntry(a) \/ ReceiveBundle(a)
    \/ Stage(a) \/ PlaceBundle(a) \/ PlaceBinding(a) \/ OpenStatus(a) \/ WriteVerified(a)
    \/ Refused(a) \/ KeepBundle(a) \/ SkipBundle(a) \/ RecordIncomplete(a) \/ GiveUp(a)

AttestFault == \E a \in Attesters : Throw(a) \/ Kill(a)

-----------------------------------------------------------------------------
AttestTypeOK ==
  /\ dir \in [exists : BOOLEAN,
              status : {Absent, Cut, "pending", "incomplete", "verified"},
              bundle : Attesters \cup {Absent, Cut},
              binding : Attesters \cup {Absent}]
  /\ apc \in [Attesters -> Working \cup {"idle", "attested", "catching", "recording",
                                         "failed", "killed"}]
  /\ subject \in [Attesters -> Attestable \cup {Absent}]
  /\ flags \in [Attesters -> [claimed : BOOLEAN, attempted : BOOLEAN, bundle : BOOLEAN]]
  /\ receipts \in [Attesters -> SUBSET {"sign", "network"}]
  /\ rekor \subseteq Attesters
  /\ outcome \in [Attesters -> {Absent, "performed", "unknown", "not-attempted"}]

(* However many runs are started on one output directory, together or one  *)
(* after the failure or crash of another, at most one of them causes an    *)
(* entry in the public log, and if it was given an approval store both     *)
(* its approvals were stored before.                                       *)
UploadedOnce ==
  /\ \A a, b \in rekor : a = b
  /\ \A a \in rekor \cap Audited : receipts[a] = {"sign", "network"}

(* A binding is never without the bundle it binds, whole; and a status     *)
(* "verified" is never without a binding and its entry in the log.         *)
BindingHasBundle ==
  /\ dir.binding # Absent => dir.bundle = dir.binding
  /\ dir.status = "verified" => dir.binding \in rekor

(* The reported outcome never denies an upload that happened: whoever is   *)
(* told "not-attempted" can retry without a second public entry.           *)
OutcomeHonest ==
  \A a \in Attesters :
    /\ outcome[a] = "not-attempted" => a \notin rekor
    /\ outcome[a] = "performed" => a \in rekor
=============================================================================
