----------------------------- MODULE ReleaseGate -----------------------------
(***************************************************************************)
(* The documents a release is decided with: a policy evaluation            *)
(* (packages/shared/src/policy-evaluation.ts), the decision that binds it  *)
(* (release-decision.ts), an exception and its approval (exception.ts),    *)
(* and the commands that read them: `verglos policy check`                 *)
(* (packages/cli/src/policy-check.ts), `verglos policy exception`, and the *)
(* policy tool of the MCP server (packages/mcp/src/tools/check-policy.ts). *)
(*                                                                         *)
(* Any program may write or edit a document; a reader trusts nothing but   *)
(* what it derives again from the facts the document records.              *)
(***************************************************************************)
EXTENDS Integers, FiniteSets

CONSTANTS
  Checks,    \* checks a policy may configure
  Policy,    \* the policy document: its checks, each with its level
  Horizon,   \* instants are 0..Horizon
  Nobody,    \* no document
  Documents, \* bound of the model: the evaluations that programs write
  Referred   \* bound of the model: the sets of approvals a decision refers to

Levels == {"block", "review", "advisory"}  \* requirement and onFailure
Instants == 0..Horizon
NoInstant == -1

ASSUME GateConstants ==
  /\ Horizon \in Nat
  /\ \E S \in SUBSET Checks : Policy \in [S -> Levels]

VARIABLES
  evaluation,  \* the evaluation on disk
  release,     \* the release decision in the record beside it
  gate,        \* what the last command concluded, and from what
  grant        \* what the last use of an exception concluded, and from what

gateVars == <<evaluation, release, gate, grant>>

Statuses == {"satisfied", "failed", "missing", "stale", "unsupported", "error"}
Claim == [level : Levels, status : Statuses, evidence : BOOLEAN,
          freshness : {"current", "stale", "unknown"}, until : Instants \cup {NoInstant}]
Decisions == {"PASS", "REVIEW", "BLOCK", "INCOMPLETE"}

\* observed is the subject that was seen: the one of the evaluation, another, none.
IsDocument(d) ==
  /\ DOMAIN d = {"match", "observed", "at", "checks", "decision"}
  /\ d.match \in {"matched", "mismatched", "unresolved"}
  /\ d.observed \in {"same", "other", "none"}
  /\ d.at \in Instants
  /\ DOMAIN d.checks \subseteq Checks
  /\ \A k \in DOMAIN d.checks : d.checks[k] \in Claim
  /\ d.decision \in Decisions

\* An approval that is referred to: when it was decided, and until when it holds.
Reference == [decidedAt : Instants, until : Instants \cup {NoInstant}]

ASSUME GateDocuments ==
  /\ Nobody \notin Documents
  /\ \A d \in Documents : IsDocument(d)
  /\ \A r \in Referred : r \subseteq Reference

NoGate == [code |-> -1, of |-> Nobody, by |-> "none"]
NoGrant == [applicable |-> FALSE]

GateInit ==
  /\ evaluation = Nobody
  /\ release = Nobody
  /\ gate = NoGate
  /\ grant = NoGrant

\* The refinements of PolicyCheckSchema.
WellFormed(c) ==
  /\ c.status \in {"satisfied", "failed", "stale"} => c.evidence
  /\ c.status \in {"missing", "unsupported"} => ~c.evidence
  /\ c.status \in {"satisfied", "failed"} => c.freshness = "current"
  /\ c.status = "stale" => c.freshness = "stale"
  /\ c.status \in {"missing", "unsupported", "error"} => c.freshness = "unknown"

\* Evidence is current before the instant its validity ends, and stale from then on.
FreshAt(c, t) ==
  CASE c.freshness = "current" -> c.until # NoInstant /\ c.until > t
    [] c.freshness = "stale"   -> c.until # NoInstant /\ c.until <= t
    [] c.freshness = "unknown" -> c.until = NoInstant

\* Mutant: the validity of evidence is not compared with the evaluation.
Timeless(d) ==
  /\ <<d.match, d.observed>> \in
       {<<"matched", "same">>, <<"mismatched", "other">>, <<"unresolved", "none">>}
  /\ \A k \in DOMAIN d.checks : WellFormed(d.checks[k])

\* refineEvaluationInput
Consistent(d) ==
  /\ <<d.match, d.observed>> \in
       {<<"matched", "same">>, <<"mismatched", "other">>, <<"unresolved", "none">>}
  /\ \A k \in DOMAIN d.checks : WellFormed(d.checks[k]) /\ FreshAt(d.checks[k], d.at)

Unavailable == {"missing", "stale", "unsupported", "error"}

\* deriveDecision
Derive(d) ==
  LET some(levels, statuses) ==
        \E k \in DOMAIN d.checks : d.checks[k].level \in levels /\ d.checks[k].status \in statuses
  IN IF d.match # "matched" \/ some({"block", "review"}, Unavailable) THEN "INCOMPLETE"
     ELSE IF some({"block"}, {"failed"}) THEN "BLOCK"
     ELSE IF some({"review", "advisory"}, {"failed"}) \/ some({"advisory"}, Unavailable) THEN "REVIEW"
     ELSE "PASS"

\* parsePolicyEvaluation
Parsed(d) ==
  d # Nobody /\ DOMAIN d.checks # {} /\ Consistent(d) /\ d.decision = Derive(d)

ExitCode == [PASS |-> 0, BLOCK |-> 1, REVIEW |-> 2, INCOMPLETE |-> 3]

\* A program writes an evaluation, createPolicyEvaluation among them, or edits it.
WriteEvaluation(d) ==
  /\ evaluation' = d
  /\ UNCHANGED <<release, gate, grant>>

(* policy check: the code of the decision, or 2 for a document it refuses, *)
(* which is also the code of REVIEW.                                       *)
CheckPolicy ==
  /\ gate' = [code |-> IF Parsed(evaluation) THEN ExitCode[evaluation.decision] ELSE 2,
              of |-> evaluation, by |-> "cli"]
  /\ UNCHANGED <<evaluation, release, grant>>

(* The evaluation made for a snapshot that has none: one required check,   *)
(* unsupported, at the beginning of time.                                  *)
WithoutEvaluation(k) ==
  [match |-> "matched", observed |-> "same", at |-> 0, decision |-> "INCOMPLETE",
   checks |-> [j \in {k} |-> [level |-> "block", status |-> "unsupported",
     evidence |-> FALSE, freshness |-> "unknown", until |-> NoInstant]]]

CheckSnapshot(k) ==
  /\ gate' = [code |-> ExitCode[Derive(WithoutEvaluation(k))], of |-> WithoutEvaluation(k), by |-> "cli"]
  /\ UNCHANGED <<evaluation, release, grant>>

\* createReleaseDecision and refineReleaseDecision
CreateRelease(approvals, generatedAt) ==
  /\ Parsed(evaluation)
  /\ evaluation.at <= generatedAt
  /\ \A a \in approvals :
       a.decidedAt <= generatedAt /\ (a.until # NoInstant => a.until > generatedAt)
  /\ release' = [of |-> evaluation, decision |-> evaluation.decision,
                 approvals |-> approvals, at |-> generatedAt]
  /\ UNCHANGED <<evaluation, gate, grant>>

\* Mutant: the checks of the evaluation are not held against the policy.
BindsDecisionOnly(d) == release # Nobody /\ release.of = d /\ release.decision = d.decision

\* The evaluation has exactly the checks of the policy; the decision is of it.
Bound(d) ==
  /\ release # Nobody /\ release.of = d /\ release.decision = d.decision
  /\ DOMAIN d.checks = DOMAIN Policy
  /\ \A k \in DOMAIN Policy : d.checks[k].level = Policy[k]

\* The tool reads a record, in which all three documents are, or refuses it.
ExplainPolicy ==
  /\ Parsed(evaluation) /\ Bound(evaluation)
  /\ gate' = [code |-> ExitCode[evaluation.decision], of |-> evaluation, by |-> "mcp"]
  /\ UNCHANGED <<evaluation, release, grant>>

-----------------------------------------------------------------------------
Exception == [requested : Instants, from : Instants, expires : Instants]
Approval == [bound : BOOLEAN, approved : BOOLEAN, decided : Instants,
             until : Instants \cup {NoInstant}]

\* The two schemas.
Requestable(e) == e.requested <= e.from /\ e.from < e.expires
Decidable(a) ==
  /\ a.approved <=> a.until # NoInstant
  /\ a.approved => a.until > a.decided

DecidedFor(e, a) ==
  /\ a.bound /\ a.approved
  /\ e.requested <= a.decided /\ a.decided < e.expires
  /\ a.until <= e.expires

\* projectExceptionExport: "within-time-window"
WithinWindow(e, a, t) == DecidedFor(e, a) /\ e.from <= t /\ t < e.expires /\ t < a.until

\* Mutant: at the instant it expires an exception still holds.
AppliesToTheEnd(e, a, t, inScope) ==
  /\ a.bound /\ a.approved
  /\ e.requested <= a.decided /\ a.decided < e.expires
  /\ a.until <= e.expires
  /\ e.from <= t /\ t <= e.expires /\ t <= a.until
  /\ inScope

\* evaluatePolicyException for a subject and an observation, in its scope or not.
Applies(e, a, t, inScope) ==
  /\ a.bound /\ a.approved
  /\ e.requested <= a.decided /\ a.decided < e.expires
  /\ a.until <= e.expires
  /\ e.from <= t /\ t < e.expires /\ t < a.until
  /\ inScope

UseException(e, a, t, inScope) ==
  /\ Requestable(e) /\ Decidable(a)
  /\ grant' = [applicable |-> Applies(e, a, t, inScope), shown |-> WithinWindow(e, a, t),
               e |-> e, a |-> a, t |-> t, inScope |-> inScope]
  /\ UNCHANGED <<evaluation, release, gate>>

GateNext ==
  \/ \E d \in Documents : WriteEvaluation(d)
  \/ CheckPolicy
  \/ \E k \in Checks : CheckSnapshot(k)
  \/ \E r \in Referred, t \in Instants : CreateRelease(r, t)
  \/ ExplainPolicy
  \/ \E e \in Exception, a \in Approval, t \in Instants, s \in BOOLEAN :
       UseException(e, a, t, s)

GateSpec == GateInit /\ [][GateNext]_gateVars

-----------------------------------------------------------------------------
(* Whoever wrote the document, a command reports PASS only when it records *)
(* every check it has as satisfied, by evidence that was still valid       *)
(* when it was evaluated, for the subject itself, and no check as failed;  *)
(* and it reports BLOCK only when nothing required is unknown.             *)
GateTellsFacts ==
  /\ gate.code = 0 =>
       /\ gate.of.match = "matched" /\ gate.of.observed = "same"
       /\ \A k \in DOMAIN gate.of.checks :
            LET c == gate.of.checks[k] IN
            c.status = "satisfied" /\ c.evidence /\ c.until > gate.of.at
  /\ gate.code = 1 =>
       \A k \in DOMAIN gate.of.checks :
         gate.of.checks[k].level # "advisory" => gate.of.checks[k].status \in {"satisfied", "failed"}

(* What the tool of the MCP server reports as passed has passed every      *)
(* check of the policy document, at the level the policy gives it.         *)
RecordMeetsPolicy ==
  gate.by = "mcp" /\ gate.code = 0 =>
    \A k \in DOMAIN Policy :
      /\ k \in DOMAIN gate.of.checks
      /\ gate.of.checks[k].level = Policy[k] /\ gate.of.checks[k].status = "satisfied"

(* An exception applies only while both itself and its approval hold, and  *)
(* the projection that a person is shown says so at the same instants.     *)
ExceptionWithinGrant ==
  /\ grant.applicable =>
       /\ grant.e.requested <= grant.a.decided
       /\ grant.t \in grant.e.from..(grant.e.expires - 1)
       /\ grant.t < grant.a.until
       /\ grant.inScope
  /\ grant # NoGrant => (grant.shown /\ grant.inScope <=> grant.applicable)
=============================================================================
