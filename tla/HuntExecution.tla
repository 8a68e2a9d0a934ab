---------------------------- MODULE HuntExecution ----------------------------
(***************************************************************************)
(* The commands over runHunt: `verglos hunt execute`                       *)
(* (packages/cli/src/hunt-execute.ts), `hunt worker`, `hunt proof` and     *)
(* `hunt retest` (packages/hunt/src/attack-worker.ts), and a program that  *)
(* calls the library.  A proof is two calls, the probe and its negative    *)
(* control; an execution turns each outcome into a verification attempt,   *)
(* which the contract of packages/shared/src/verification.ts may refuse.   *)
(*                                                                         *)
(* Whether the inputs are valid and the recipe trusted and approved is a   *)
(* single choice, made before anything runs.                               *)
(***************************************************************************)
EXTENDS HuntRun

CONSTANT
  Total   \* the default maxDurationMs of a run

ASSUME TotalConstant == Total \in Nat \ {0} /\ MaxTime >= Total

VARIABLES
  mode,     \* the command
  nonRoot,  \* whether the process runs as an unprivileged user
  stage,    \* "start", its "primary" or "control" run, or "done"
  primary,  \* what the primary run of a proof left: its outcome and its answer
  report,   \* the status it printed
  code      \* its exit code

commandVars == <<mode, nonRoot, stage, primary, report, code>>
vars == <<runVars, commandVars>>

Modes == {"execute", "worker", "proof", "retest", "library"}
NoPrimary == [outcome |-> NoOutcome, answer |-> "none"]
NoCode == -1

Init ==
  /\ mode \in Modes
  /\ nonRoot \in BOOLEAN
  /\ stage = "start"
  /\ primary = NoPrimary
  /\ report = "none"
  /\ code = NoCode
  /\ now = 0
  /\ adapter \in IF mode = "library" THEN Adapters ELSE {"restricted-process", "docker"}
  /\ budget = 0
  /\ count = 1
  /\ pc = "idle"
  /\ current = 1
  /\ before = 0 /\ limit = 0 /\ deadline = 0
  /\ answer = Unset
  /\ running = {} /\ fired = {}
  /\ outcome = [i \in 1..N |-> NoOutcome]
  /\ dirty = FALSE

\* The command prints s and ends with code c.
End(s, c) ==
  /\ stage' = "done" /\ report' = s /\ code' = c
  /\ UNCHANGED <<runVars, mode, nonRoot, primary>>

Deny ==
  /\ stage = "start" /\ mode # "library"
  /\ End("denied", 78)

(* An execution probes every critical or high finding of its rule within   *)
(* the default duration; a worker and a proof probe one, within the limits *)
(* of the recipe.                                                          *)
Start(b, c) ==
  /\ stage = "start"
  /\ IF mode \in {"execute", "library"}
     THEN b = Total /\ c \in 1..N
     ELSE b \in {Timeout, Cpu} /\ b <= Timeout /\ b <= Cpu /\ c = 1
  /\ Call(adapter, b, c)
  /\ stage' = "primary"
  /\ UNCHANGED <<mode, nonRoot, primary, report, code>>

Selected == 1..count

(* parseVerificationAttempt accepts the attempt of outcome o: what was     *)
(* executed was so by an unprivileged user, within the timeout of the      *)
(* recipe, and is not unsupported; what was not executed left no trace,    *)
(* and a container claims its cleanup all the same.                        *)
Projectable(o, executed) ==
  IF executed
  THEN /\ adapter = "docker" \/ nonRoot
       /\ o.verdict # "not-supported"
       /\ o.took <= Timeout
  ELSE adapter # "docker"

\* Mutant: the exit code is that of the last finding.
ReportLast ==
  /\ mode = "execute" /\ stage = "primary" /\ pc = "ended"
  /\ \A i \in Selected : Projectable(outcome[i], outcome[i].executed)
  /\ End("completed", IF outcome[count].verdict = "confirmed" THEN 1 ELSE 0)

\* Every outcome has its attempt; the exit code tells of a confirmed finding.
Report ==
  /\ mode = "execute" /\ stage = "primary" /\ pc = "ended"
  /\ \A i \in Selected : Projectable(outcome[i], outcome[i].executed)
  /\ End("completed", IF \E i \in Selected : outcome[i].verdict = "confirmed" THEN 1 ELSE 0)

\* One attempt is refused: the exception denies the whole execution.
ReportFails ==
  /\ mode = "execute" /\ stage = "primary" /\ pc = "ended"
  /\ \E i \in Selected : ~Projectable(outcome[i], outcome[i].executed)
  /\ End("denied", 78)

\* `hunt worker` projects the outcome without an attempt.
ReportWorker ==
  /\ mode = "worker" /\ stage = "primary" /\ pc = "ended"
  /\ End("completed", IF outcome[1].verdict = "confirmed" THEN 1 ELSE 0)

\* The library returns the result, or throws.
Return ==
  /\ mode = "library" /\ stage = "primary"
  /\ pc \in {"ended", "thrown"}
  /\ End(pc, NoCode)

\* The same signed binding, with the safe inputs of the control.
StartControl ==
  /\ mode \in {"proof", "retest"} /\ stage = "primary" /\ pc = "ended"
  /\ primary' = [outcome |-> outcome[1], answer |-> answer[1]]
  /\ Call(adapter, budget, 1)
  /\ stage' = "control"
  /\ UNCHANGED <<mode, nonRoot, report, code>>

\* Mutant: a control that was not confirmed has passed.
NotConfirmed(v) == v # "confirmed"

Passed(v) == v = "not-reproduced"

ProofStatus ==
  IF Passed(outcome[1].verdict) /\ primary.outcome.verdict \in {"confirmed", "not-reproduced"}
  THEN primary.outcome.verdict ELSE "inconclusive"

RetestStatus ==
  CASE ProofStatus = "confirmed" -> "still-reproduced"
    [] ProofStatus = "not-reproduced" -> "cleared"
    [] OTHER -> "inconclusive"

(* The attempt of the primary run claims an execution, whatever happened;  *)
(* a retest prints the status of the proof under another name.             *)
Conclude ==
  /\ mode \in {"proof", "retest"} /\ stage = "control" /\ pc = "ended"
  /\ Projectable(primary.outcome, TRUE)
  /\ End(IF mode = "retest" THEN RetestStatus ELSE ProofStatus,
         CASE ProofStatus = "confirmed" -> 1
           [] ProofStatus = "not-reproduced" -> 0
           [] OTHER -> 3)

ConcludeFails ==
  /\ mode \in {"proof", "retest"} /\ stage = "control" /\ pc = "ended"
  /\ ~Projectable(primary.outcome, TRUE)
  /\ End("denied", 78)

CommandNext ==
  \/ Deny
  \/ \E b \in {Timeout, Cpu, Total}, c \in 1..N : Start(b, c)
  \/ Report \/ ReportFails \/ ReportWorker \/ Return
  \/ StartControl \/ Conclude \/ ConcludeFails

Next == CommandNext \/ (RunNext /\ UNCHANGED commandVars)

Spec == Init /\ [][Next]_vars

\* The commands go on by themselves once they have begun.
FairSpec == Spec /\ RunFairness /\ WF_vars(CommandNext)

-----------------------------------------------------------------------------
Statuses == {"none", "denied", "completed", "ended", "thrown", "confirmed",
             "not-reproduced", "inconclusive", "still-reproduced", "cleared"}

TypeOK ==
  /\ RunTypeOK
  /\ mode \in Modes
  /\ nonRoot \in BOOLEAN
  /\ stage \in {"start", "primary", "control", "done"}
  /\ primary \in [outcome : [verdict : Verdicts, took : 0..MaxTime, executed : BOOLEAN],
                  answer : Answers("other") \cup {"none"}]
  /\ report \in Statuses
  /\ code \in {NoCode, 0, 1, 3, 78}

(* Exit code 1 is given only for a probe that answered that its assertion  *)
(* holds, and code 0 never hides one.                                      *)
ExitCodeHonest ==
  LET reproduced ==
        IF mode \in {"proof", "retest"} THEN primary.answer = "matched"
        ELSE \E i \in Selected : answer[i] = "matched" /\ outcome[i].verdict = "confirmed"
  IN (code = 1 => reproduced) /\ (code = 0 => ~reproduced)

(* A proof says anything of a finding, and a retest clears one, only after *)
(* both of its runs were answered: the probe with that result, the control *)
(* with the opposite of a finding.                                         *)
ProofNeedsControl ==
  /\ report \in {"confirmed", "still-reproduced"} =>
       primary.answer = "matched" /\ answer[1] = "unmatched"
  /\ report \in {"not-reproduced", "cleared"} =>
       primary.answer = "unmatched" /\ answer[1] = "unmatched"

(* A call of runHunt that has ended gave every finding it selected one     *)
(* verdict, in their order: none is skipped when the time is up, none is   *)
(* revised by what comes in later, and a failed cleanup voids them all.    *)
Findings ==
  INSTANCE FindingVerdicts
    WITH None <- "none", Verdicts <- Verdicts \ {"none"}, Void <- "environment-error",
         verdict <- [i \in 1..N |-> outcome[i].verdict], selected <- count,
         open <- pc \in {"preparing", "choosing", "validating", "probing", "stopping"}

FindingsSpec == Findings!Spec

(* A command that has begun ends, unless a container's client ignores the  *)
(* signal it was sent, or an adapter of the caller's own never answers.    *)
EveryRunEnds ==
  (stage = "primary")
    ~> (stage = "done" \/ (adapter = "docker" /\ pc = "stopping")
                       \/ (adapter = "other" /\ pc = "probing"))
=============================================================================
