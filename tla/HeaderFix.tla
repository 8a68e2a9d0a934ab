------------------------------ MODULE HeaderFix ------------------------------
(***************************************************************************)
(* verglos fix --headers: the command of packages/cli/src/index.ts and the *)
(* planner, the writer and the rollback of packages/cli/src/fix.ts, while  *)
(* other programs edit the same project.                                   *)
(*                                                                         *)
(* A plan has at most one file: in a Next.js project the first candidate   *)
(* config that can be patched, elsewhere a helper file that does not exist *)
(* yet.  The human approves the file set of a plan; the command plans      *)
(* again, compares, and plans once more before it selects the writer,      *)
(* which reads the project for itself.                                     *)
(***************************************************************************)
EXTENDS Integers, Sequences

CONSTANTS
  Configs,    \* next.config.js, .mjs, .ts, in the order they are tried
  Helpers,    \* the places a helper file can go (src/ or the root)
  MaxEdits    \* bound of the model: edits by others

ConfigFiles == {Configs[i] : i \in DOMAIN Configs}
Files == ConfigFiles \cup Helpers

ASSUME FixConstants ==
  /\ Configs \in Seq(ConfigFiles)
  /\ Helpers \cap {"nextjs", "unsupported"} = {}
  /\ "none" \notin Files
  /\ MaxEdits \in Nat

VARIABLES
  shape,     \* the detected project type, or where its helper file goes
  files,     \* what each file is, and which edit made it so
  suite,     \* which edit made the selected test files what they are
  edits,     \* edits made so far
  pc,        \* where the command is
  opts,      \* tests and rescan requested; the test files' plan
  plan,      \* the planned files the command compares against
  approved,  \* the files of the approval receipt
  snap,      \* what captureHeaderFixSnapshots captured, per planned file
  target,    \* the file the writer selected, and the edit of it that it read
  audited,   \* history: the receipt is in the audit store
  wrote,     \* history: the files the command wrote
  before,    \* history: what the written file was just before
  ran,       \* history: the version of the test files that was run
  raced,     \* history: somebody edited the project between a look of the command and its use
  outcome    \* what the command reported

vars == <<shape, files, suite, edits, pc, opts, plan, approved, snap, target, audited, wrote,
          before, ran, raced, outcome>>
project == <<shape, files, suite, edits, raced>>
history == <<audited, wrote, before, ran>>

None == "none"
Kinds == {"absent", "plain", "headers", "other"}
KindsOf(f) == IF f \in Helpers THEN {"absent", "other"} ELSE Kinds
Contents == [kind : Kinds \cup {"patched"}, edit : 0..MaxEdits]
Shapes == {"nextjs", "unsupported"} \cup Helpers
NoFile == [kind |-> "absent", edit |-> 0]
NoSnapshot == [f \in {} |-> NoFile]
NoTarget == [file |-> None, edit |-> 0]

Init ==
  /\ shape \in Shapes
  /\ files \in [Files -> {[kind |-> k, edit |-> 0] : k \in {"absent", "plain"}}]
  /\ \A f \in Helpers : files[f].kind = "absent"
  /\ suite = 0
  /\ edits = 0
  /\ pc = "idle"
  /\ opts = [tests |-> FALSE, rescan |-> FALSE, suite |-> 0]
  /\ plan = {}
  /\ approved = {}
  /\ snap = NoSnapshot
  /\ target = NoTarget
  /\ audited = FALSE
  /\ wrote = {}
  /\ before = NoFile
  /\ ran = {}
  /\ raced = FALSE
  /\ outcome = "none"

-----------------------------------------------------------------------------
(* Other programs: an editor, a generator, a version control checkout.     *)

Edit ==
  /\ edits < MaxEdits
  /\ edits' = edits + 1
  /\ raced' = (raced \/ pc \in {"select", "write", "spawn"})
  /\ \/ /\ \E f \in Files : \E k \in KindsOf(f) :
             files' = [files EXCEPT ![f] = [kind |-> k, edit |-> edits + 1]]
        /\ UNCHANGED <<shape, suite>>
     \/ /\ shape' \in Shapes \ {shape}
        /\ UNCHANGED <<files, suite>>
     \/ /\ suite' = edits + 1
        /\ UNCHANGED <<shape, files>>
  /\ UNCHANGED <<pc, opts, plan, approved, snap, target, history, outcome>>

-----------------------------------------------------------------------------
(* planHeaderFixes.                                                        *)

Declares(c) == c.kind \in {"headers", "patched"}

\* The first candidate that declares headers or can be patched, if it can be patched.
NextConfig(fs) ==
  {Configs[i] : i \in {i \in DOMAIN Configs :
     /\ fs[Configs[i]].kind = "plain"
     /\ \A j \in 1..i-1 : fs[Configs[j]].kind # "plain" /\ ~Declares(fs[Configs[j]])}}

\* The files a plan changes; a plan that skips or finds nothing changes none.
Planned(sh, fs) ==
  IF sh = "nextjs" THEN NextConfig(fs)
  ELSE {f \in Helpers : f = sh /\ fs[f].kind = "absent"}

-----------------------------------------------------------------------------
(* The command up to the mutation.                                         *)

End(result) ==
  /\ pc' = "idle"
  /\ outcome' = result
  /\ UNCHANGED <<project, opts, plan, approved, snap, target, history>>

\* A plan is made and shown; an approval receipt for some file set is presented.
Start(files_, tests, rescan) ==
  /\ pc = "idle"
  /\ pc' = IF tests THEN "tests-approval" ELSE "approval"
  /\ opts' = [tests |-> tests, rescan |-> rescan, suite |-> suite]
  /\ plan' = Planned(shape, files)
  /\ approved' = files_
  /\ snap' = NoSnapshot
  /\ target' = NoTarget
  /\ audited' = FALSE
  /\ wrote' = {}
  /\ before' = NoFile
  /\ ran' = {}
  /\ raced' = FALSE
  /\ outcome' = "none"
  /\ UNCHANGED <<shape, files, suite, edits>>

\* The execute receipt names exactly these test files and bytes, and is stored.
ApproveTests ==
  /\ pc = "tests-approval"
  /\ pc' = "approval"
  /\ UNCHANGED <<project, opts, plan, approved, snap, target, history, outcome>>

\* authorizeHeaderFix: a usable mutate receipt for exactly the planned files.
Approve ==
  /\ pc = "approval"
  /\ plan = approved
  /\ pc' = IF opts.tests \/ opts.rescan THEN "snapshot" ELSE "apply"
  /\ UNCHANGED <<project, opts, plan, approved, snap, target, history, outcome>>

\* captureHeaderFixSnapshots
Capture ==
  /\ pc = "snapshot"
  /\ snap' = [f \in plan |-> files[f]]
  /\ pc' = "apply"
  /\ UNCHANGED <<project, opts, plan, approved, target, history, outcome>>

\* Mutant: the receipt is stored only after the mutation.
ApplyUnrecorded ==
  /\ pc = "apply"
  /\ plan' = Planned(shape, files)
  /\ plan' \in {{}, approved}
  /\ UNCHANGED audited
  /\ pc' = "replan"
  /\ UNCHANGED <<project, opts, approved, snap, target, wrote, before, ran, outcome>>

\* applyHeaderFixes plans, authorizes and stores the receipt if files are planned.
Apply ==
  /\ pc = "apply"
  /\ plan' = Planned(shape, files)
  /\ plan' \in {{}, approved}
  /\ audited' = (plan' # {})
  /\ pc' = "replan"
  /\ UNCHANGED <<project, opts, approved, snap, target, wrote, before, ran, outcome>>

\* Mutant: the second plan is not compared with the first.
ReplanBlind ==
  /\ pc = "replan"
  /\ pc' = "select"
  /\ UNCHANGED <<project, opts, plan, approved, snap, target, history, outcome>>

\* "Re-plan immediately before selecting the writer."
Replan ==
  /\ pc = "replan"
  /\ Planned(shape, files) = plan
  /\ pc' = "select"
  /\ UNCHANGED <<project, opts, plan, approved, snap, target, history, outcome>>

(* Not approved, expired, audit store failure, snapshot failure, or a plan *)
(* that changed: nothing was changed.                                      *)
Refuse ==
  /\ pc \in {"tests-approval", "approval", "snapshot", "apply", "replan"}
  /\ End("refused")

-----------------------------------------------------------------------------
(* The writer.                                                             *)

\* fixNextjs and fixWithHelperFile read the project again and pick the file.
Select ==
  /\ pc = "select"
  /\ \E f \in Planned(shape, files) :
       /\ target' = [file |-> f, edit |-> files[f].edit]
       /\ pc' = "write"
  /\ UNCHANGED <<project, opts, plan, approved, snap, history, outcome>>

\* Nothing can be changed (any more): the command ends without any check.
SelectNothing ==
  /\ pc = "select"
  /\ Planned(shape, files) = {}
  /\ End("unchanged")

(* A config is replaced by a patch of what was read, if it still is a      *)
(* file; a helper is created unless one appeared (open with wx).           *)
Writable(f) == (files[f].kind = "absent") = (f \in Helpers)

Write ==
  /\ pc = "write"
  /\ Writable(target.file)
  /\ files' = [files EXCEPT ![target.file] = [kind |-> "patched", edit |-> target.edit]]
  /\ wrote' = {target.file}
  /\ before' = files[target.file]
  /\ pc' = "tests"
  /\ UNCHANGED <<shape, suite, edits, raced, opts, plan, approved, snap, target, audited, ran,
                 outcome>>

\* The target changed kind, a helper appeared, a candidate is too large, or the disk failed.
WriteFails ==
  /\ pc = "write"
  /\ End("unchanged")

-----------------------------------------------------------------------------
(* verifyOrRollbackHeaderFix: tests, then rescan, then success.            *)

SkipTests ==
  /\ pc = "tests"
  /\ ~opts.tests
  /\ pc' = "rescan"
  /\ UNCHANGED <<project, opts, plan, approved, snap, target, history, outcome>>

\* Mutant: the test files are not hashed again.
CheckTestsNot ==
  /\ pc = "tests"
  /\ opts.tests
  /\ pc' = "spawn"
  /\ UNCHANGED <<project, opts, plan, approved, snap, target, history, outcome>>

\* runApprovedHeaderFixTests: the bytes to run hash to what was approved.
CheckTests ==
  /\ pc = "tests"
  /\ opts.tests
  /\ suite = opts.suite
  /\ pc' = "spawn"
  /\ UNCHANGED <<project, opts, plan, approved, snap, target, history, outcome>>

\* Node starts and reads the files.
Spawn ==
  /\ pc = "spawn"
  /\ ran' = {suite}
  /\ pc' = "running"
  /\ UNCHANGED <<project, opts, plan, approved, snap, target, audited, wrote, before, outcome>>

TestsPass ==
  /\ pc = "running"
  /\ pc' = "rescan"
  /\ UNCHANGED <<project, opts, plan, approved, snap, target, history, outcome>>

\* Changed or denied tests, a failing exit, a timeout, too much output; a failing scan.
CheckFails ==
  /\ \/ pc \in {"tests", "spawn", "running"} /\ opts.tests
     \/ pc = "rescan" /\ opts.rescan
  /\ pc' = "rollback"
  /\ UNCHANGED <<project, opts, plan, approved, snap, target, history, outcome>>

Succeed ==
  /\ pc = "rescan"
  /\ End("fixed")

\* Mutant: rollback restores contents but removes nothing.
RollbackKeepsNew ==
  /\ pc = "rollback"
  /\ files' = [f \in Files |-> IF f \in DOMAIN snap /\ snap[f].kind # "absent"
                               THEN snap[f] ELSE files[f]]
  /\ pc' = "idle"
  /\ outcome' = "rolled-back"
  /\ UNCHANGED <<shape, suite, edits, raced, opts, plan, approved, snap, target, history>>

\* Every captured file is restored, or removed if it did not exist.
Rollback ==
  /\ pc = "rollback"
  /\ files' = [f \in Files |-> IF f \in DOMAIN snap THEN snap[f] ELSE files[f]]
  /\ pc' = "idle"
  /\ outcome' = "rolled-back"
  /\ UNCHANGED <<shape, suite, edits, raced, opts, plan, approved, snap, target, history>>

RollbackFails ==
  /\ pc = "rollback"
  /\ End("rollback-unverified")

\* The command is killed; what it wrote stays.
Crash ==
  /\ pc # "idle"
  /\ End("killed")

Next ==
  \/ Edit
  \/ \E fs \in {{}} \cup {{f} : f \in Files}, tests, rescan \in BOOLEAN : Start(fs, tests, rescan)
  \/ ApproveTests \/ Approve \/ Capture \/ Apply \/ Replan \/ Refuse
  \/ Select \/ SelectNothing \/ Write \/ WriteFails
  \/ SkipTests \/ CheckTests \/ Spawn \/ TestsPass \/ CheckFails \/ Succeed
  \/ Rollback \/ RollbackFails
  \/ Crash

Spec == Init /\ [][Next]_vars

-----------------------------------------------------------------------------
Points == {"idle", "tests-approval", "approval", "snapshot", "apply", "replan", "select", "write",
           "tests", "spawn", "running", "rescan", "rollback"}
Outcomes == {"none", "refused", "unchanged", "fixed", "rolled-back", "rollback-unverified",
             "killed"}

(* Beyond the types: a rollback has a snapshot to work with, and a command *)
(* that writes selected a target first.                                    *)
TypeOK ==
  /\ shape \in Shapes
  /\ files \in [Files -> Contents]
  /\ suite \in 0..MaxEdits
  /\ edits \in 0..MaxEdits
  /\ pc \in Points
  /\ opts \in [tests : BOOLEAN, rescan : BOOLEAN, suite : 0..MaxEdits]
  /\ plan \subseteq Files
  /\ approved \subseteq Files
  /\ DOMAIN snap \subseteq Files /\ \A f \in DOMAIN snap : snap[f] \in Contents
  /\ target \in [file : Files, edit : 0..MaxEdits] \cup {NoTarget}
  /\ audited \in BOOLEAN
  /\ wrote \subseteq Files
  /\ before \in Contents
  /\ ran \subseteq 0..MaxEdits
  /\ raced \in BOOLEAN
  /\ outcome \in Outcomes
  /\ pc \in {"write", "tests", "spawn", "running", "rescan", "rollback"} => target # NoTarget
  /\ pc = "rollback" => opts.tests \/ opts.rescan

(* The command changes only files its receipt names: "A project can change *)
(* between the approval preview and this call; never let that turn an      *)
(* approved file set into an unapproved helper-file mutation."             *)
WritesAsApproved == wrote \subseteq approved

\* No file is changed without the receipt in the audit store first.
WritesAreAudited == wrote # {} => audited

(* What the code keeps of both: whatever edits came before its last look   *)
(* at the project, only an edit between that look and the write changes    *)
(* the file that is written, or writes where the plan had none and asked   *)
(* for no receipt.                                                         *)
ApprovedUnlessRaced == ~raced => WritesAsApproved /\ WritesAreAudited

\* A file that the command creates does not replace a file of someone else.
CreatesOnlyNewFiles == \A f \in wrote \cap Helpers : before.kind = "absent"

(* A command that reports a successful rollback left nothing it wrote in   *)
(* the project, created helper files included, whatever others edited      *)
(* while its tests and its rescan ran.                                     *)
RollbackLeavesNothing ==
  ~raced => (outcome = "rolled-back" => \A f \in wrote : files[f].kind # "patched")

(* The test files that are run are byte for byte those that were approved, *)
(* however long ago, unless they change while Node starts.                 *)
RunsApprovedTests == ~raced => ran \subseteq {opts.suite}
=============================================================================
