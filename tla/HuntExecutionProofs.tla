------------------------- MODULE HuntExecutionProofs -------------------------
(***************************************************************************)
(* Theorems about HuntRun and HuntExecution, for any number of findings    *)
(* and any limits: what a verdict rests on, and what a command may say.    *)
(***************************************************************************)
EXTENDS HuntExecution, TLAPS

Phases == {"idle", "preparing", "choosing", "validating", "probing", "stopping", "ended", "thrown"}
Outcomes == [verdict : Verdicts, took : 0..MaxTime, executed : BOOLEAN]
AllAnswers == {"matched", "unmatched", "error", "unsupported"}

LEMMA AnswersAre == /\ Answers("other") = AllAnswers
                    /\ \A a : Answers(a) \subseteq AllAnswers
BY DEF Answers, AllAnswers

LEMMA VerdictsAre == \A a \in AllAnswers : Verdict(a) \in Verdicts \ {"none", "inconclusive"}
BY DEF AllAnswers, Verdict, Verdicts

\* An outcome with a Boolean that is written out.
LEMMA OutcomeType ==
  ASSUME NEW v \in Verdicts, NEW t \in 0..MaxTime
  PROVE  /\ [verdict |-> v, took |-> t, executed |-> TRUE] \in Outcomes
         /\ [verdict |-> v, took |-> t, executed |-> FALSE] \in Outcomes
<1>1. \A e \in BOOLEAN : [verdict |-> v, took |-> t, executed |-> e] \in Outcomes
  BY DEF Outcomes
<1> QED
  BY <1>1

LEMMA NoOutcomeType == NoOutcome \in Outcomes /\ Expired \in Outcomes
<1>1. "none" \in Verdicts /\ "inconclusive" \in Verdicts /\ 0 \in 0..MaxTime
  BY HuntConstants DEF Verdicts
<1> QED
  BY <1>1, OutcomeType DEF NoOutcome, Expired

-----------------------------------------------------------------------------
(* One call of runHunt.                                                    *)

\* A finding the call has not probed yet, or not to the end.
Untouched(i) == i > current \/ (i = current /\ pc \notin {"probing", "stopping"})

RunInv ==
  /\ RunTypeOK
  /\ before <= now
  /\ current <= count + 1
  /\ pc \in {"validating", "probing", "stopping"} => current \in 1..N /\ current <= count
  /\ pc = "stopping" => current \in fired
  /\ pc = "validating" => adapter = "docker"
  /\ pc \in {"probing", "stopping"} => outcome[current] = NoOutcome
  /\ pc = "probing" => current \notin fired
  /\ \A i \in 1..N : Untouched(i) =>
       answer[i] = "none" /\ i \notin running /\ i \notin fired /\ outcome[i] = NoOutcome
  /\ dirty => pc = "ended"
  /\ adapter = "restricted-process" /\ pc \in {"probing", "stopping"} =>
       deadline <= budget /\ now <= deadline + Slack
  /\ VerdictEarned
  /\ NothingLeftRunning

LEMMA CallStarts ==
  ASSUME NEW a \in Adapters, NEW b \in Nat, NEW c \in 1..N, Call(a, b, c)
  PROVE  RunInv'
<1> USE HuntConstants DEF Call
<1>1. outcome' \in [1..N -> Outcomes] /\ answer' \in [1..N -> AllAnswers \cup {"none"}]
  BY NoOutcomeType DEF Unset
<1>2. /\ now' \in 0..MaxTime /\ adapter' \in Adapters /\ budget' \in Nat /\ count' \in 1..N
      /\ current' \in 1..(N + 1) /\ before' \in 0..MaxTime /\ limit' \in Nat /\ deadline' \in Nat
      /\ running' \subseteq 1..N /\ fired' \subseteq 1..N
  OBVIOUS
<1>4. dirty' \in BOOLEAN /\ pc' \in Phases
  BY Zenon DEF Phases
<1>5. RunTypeOK'
  BY <1>1, <1>2, <1>4, AnswersAre, Zenon DEF RunTypeOK, Outcomes, Phases
<1>3. RunInv'
  BY <1>5 DEF RunInv, Untouched, Unset, NoOutcome, VerdictEarned, NothingLeftRunning
<1> QED
  BY <1>3

LEMMA RunStutters == RunInv /\ UNCHANGED runVars => RunInv'
BY DEF RunInv, runVars, RunTypeOK, Untouched, VerdictEarned, NothingLeftRunning, Remaining

\* What is recorded of a finding, when it was settled or has expired.
LEMMA RecordTypes ==
  ASSUME RunTypeOK, before <= now, current \in 1..N,
         NEW o \in Outcomes, Record(o)
  PROVE  outcome' \in [1..N -> Outcomes] /\ current' \in 1..(N + 1) /\ pc' = "choosing"
BY HuntConstants DEF RunTypeOK, Record, Outcomes

LEMMA SettleTypes ==
  ASSUME RunTypeOK, before <= now, current \in 1..N, NEW v \in Verdicts, Settle(v)
  PROVE  /\ outcome' \in [1..N -> Outcomes] /\ current' \in 1..(N + 1) /\ pc' = "choosing"
         /\ outcome' = [outcome EXCEPT ![current] =
                          [verdict |-> v, took |-> now - before, executed |-> TRUE]]
         /\ current' = current + 1
<1>1. now - before \in 0..MaxTime
  BY HuntConstants DEF RunTypeOK
<1>2. [verdict |-> v, took |-> now - before, executed |-> TRUE] \in Outcomes
  BY <1>1, OutcomeType
<1> QED
  BY <1>2, RecordTypes DEF Settle, Record

LEMMA CleanedType ==
  ASSUME NEW o \in Outcomes, NEW e \in BOOLEAN
  PROVE  [o EXCEPT !.verdict = "environment-error", !.executed = e] \in Outcomes
BY DEF Outcomes, Verdicts

LEMMA RunTypes ==
  ASSUME RunInv, RunNext
  PROVE  RunTypeOK'
<1>0. RunTypeOK /\ before <= now /\ (pc \in {"validating", "probing", "stopping"} => current \in 1..N)
  BY DEF RunInv
<1> USE HuntConstants, AnswersAre, <1>0 DEF RunTypeOK
<1>1. CASE Prepare
  BY <1>1 DEF Prepare
<1>2. CASE PrepareThrows
  BY <1>2 DEF PrepareThrows
<1>3. CASE Expire
  <2>1. outcome' \in [1..N -> Outcomes] /\ current' \in 1..(N + 1) /\ pc' = "choosing"
    BY <1>3, NoOutcomeType, RecordTypes DEF Expire
  <2> QED
    BY <1>3, <2>1 DEF Expire, Outcomes
<1>4. ASSUME NEW l \in Limits, StartWorker(l) PROVE RunTypeOK'
  BY <1>4 DEF StartWorker, IsLimit, Remaining, Limits
<1>5. ASSUME NEW l \in Limits, WalkProject(l) PROVE RunTypeOK'
  BY <1>5 DEF WalkProject, IsLimit, Remaining, Limits
<1>6. CASE RejectProject
  <2>1. \E v \in Verdicts : Settle(v)
    BY <1>6, VerdictsAre DEF RejectProject, Verdicts, AllAnswers
  <2>2. outcome' \in [1..N -> Outcomes] /\ current' \in 1..(N + 1) /\ pc' = "choosing"
    BY <1>6, <2>1, SettleTypes DEF RejectProject
  <2> QED
    BY <1>6, <2>2 DEF RejectProject, Outcomes
<1>7. CASE StartContainer
  BY <1>7 DEF StartContainer
<1>8. CASE CallOther
  BY <1>8 DEF CallOther, Remaining
<1>9. ASSUME NEW i \in 1..N, NEW v \in Answers("other"), Answer(i, v) PROVE RunTypeOK'
  BY <1>9 DEF Answer
<1>10. ASSUME NEW i \in 1..N, WorkerEnds(i) PROVE RunTypeOK'
  BY <1>10 DEF WorkerEnds
<1>11. CASE HandleAnswer
  <2>1. \E v \in Verdicts : Settle(v)
    BY <1>11, VerdictsAre DEF HandleAnswer, Verdicts, AllAnswers
  <2>2. outcome' \in [1..N -> Outcomes] /\ current' \in 1..(N + 1) /\ pc' = "choosing"
    BY <1>11, <2>1, SettleTypes DEF HandleAnswer
  <2> QED
    BY <1>11, <2>2 DEF HandleAnswer, Outcomes
<1>12. CASE TimerFires
  BY <1>12 DEF TimerFires
<1>13. CASE Terminated
  <2>1. \E v \in Verdicts : Settle(v)
    BY <1>13, VerdictsAre DEF Terminated, Verdicts, AllAnswers
  <2>2. outcome' \in [1..N -> Outcomes] /\ current' \in 1..(N + 1) /\ pc' = "choosing"
    BY <1>13, <2>1, SettleTypes DEF Terminated
  <2> QED
    BY <1>13, <2>2 DEF Terminated, Outcomes
<1>14. CASE Reaped
  <2>1. \E v \in Verdicts : Settle(v)
    BY <1>14, VerdictsAre DEF Reaped, Verdicts, AllAnswers
  <2>2. outcome' \in [1..N -> Outcomes] /\ current' \in 1..(N + 1) /\ pc' = "choosing"
    BY <1>14, <2>1, SettleTypes DEF Reaped
  <2> QED
    BY <1>14, <2>2 DEF Reaped, Outcomes
<1>15. CASE Cleanup
  BY <1>15 DEF Cleanup
<1>16. CASE CleanupFails
  <2>1. ASSUME NEW i \in 1..N
        PROVE  [outcome[i] EXCEPT !.verdict = "environment-error", !.executed = TRUE] \in Outcomes
    BY CleanedType DEF Outcomes
  <2>2. outcome' \in [1..N -> Outcomes]
    BY <1>16, <2>1 DEF CleanupFails, Outcomes
  <2>3. dirty' \in BOOLEAN
    BY <1>16 DEF CleanupFails
  <2> QED
    BY <1>16, <2>2, <2>3 DEF CleanupFails, Outcomes
<1>17. CASE Tick
  BY <1>17 DEF Tick
<1> QED
  BY <1>1, <1>2, <1>3, <1>4, <1>5, <1>6, <1>7, <1>8, <1>9, <1>10, <1>11, <1>12, <1>13, <1>14, <1>15, <1>16, <1>17 DEF RunNext

\* A finding that was settled, with the verdict on its own answer or none.
LEMMA SettlePreserves ==
  ASSUME RunInv, RunTypeOK', NEW v \in Verdicts, Settle(v),
         pc \in {"validating", "probing", "stopping"},
         UNCHANGED <<now, adapter, budget, count, before, limit, deadline, answer, running, dirty>>,
         fired' = fired,
         v \in {"confirmed", "not-reproduced"} =>
           /\ answer[current] # "none" /\ v = Verdict(answer[current])
           /\ adapter = "restricted-process" => current \notin fired,
         v = "inconclusive" => current \in fired,
         current \in running => answer[current] # "none"
  PROVE  RunInv'
<1>1. /\ RunTypeOK /\ before <= now /\ current \in 1..N /\ pc' = "choosing" /\ ~dirty
      /\ current' = current + 1
      /\ outcome' = [outcome EXCEPT ![current] =
                       [verdict |-> v, took |-> now - before, executed |-> TRUE]]
  BY SettleTypes DEF RunInv
<1>2. \A i \in 1..N : Untouched(i)' =>
        answer'[i] = "none" /\ i \notin running' /\ i \notin fired' /\ outcome'[i] = NoOutcome
  BY <1>1 DEF RunInv, Untouched, RunTypeOK
<1>3. VerdictEarned'
  <2> SUFFICES ASSUME NEW i \in 1..N
               PROVE  /\ outcome'[i].verdict \in {"confirmed", "not-reproduced"} =>
                           /\ answer[i] # "none" /\ outcome'[i].verdict = Verdict(answer[i])
                           /\ outcome'[i].executed
                           /\ adapter = "restricted-process" => i \notin fired
                      /\ outcome'[i].verdict = "inconclusive" /\ outcome'[i].executed => i \in fired
    BY <1>1 DEF VerdictEarned
  <2>1. CASE i = current
    <3>1. outcome'[i] = [verdict |-> v, took |-> now - before, executed |-> TRUE]
      BY <1>1, <2>1 DEF RunTypeOK
    <3>2. outcome'[i].verdict = v
      BY <3>1
    <3>3. outcome'[i].executed
      BY <3>1
    <3> QED
      BY <2>1, <3>2, <3>3, <1>1
  <2>2. CASE i # current
    <3>1. outcome'[i] = outcome[i]
      BY <1>1, <2>2 DEF RunTypeOK
    <3> QED
      BY <3>1, Zenon DEF RunInv, VerdictEarned
  <2> QED
    BY <2>1, <2>2
<1>4. NothingLeftRunning'
  BY <1>1 DEF RunInv, NothingLeftRunning
<1>5. current' <= count' + 1
  BY <1>1 DEF RunInv, RunTypeOK
<1> QED
  BY <1>1, <1>2, <1>3, <1>4, <1>5 DEF RunInv

LEMMA RunPreserved ==
  ASSUME RunInv, RunNext
  PROVE  RunInv'
<1>0. RunTypeOK /\ RunTypeOK' /\ current \in 1..(N + 1)
  BY RunTypes DEF RunInv, RunTypeOK
<1> USE HuntConstants, <1>0
<1>1. CASE Prepare
  BY <1>1 DEF Prepare, RunInv, RunTypeOK, Untouched, VerdictEarned, NothingLeftRunning
<1>2. CASE PrepareThrows
  BY <1>2 DEF PrepareThrows, RunInv, RunTypeOK, Untouched, VerdictEarned, NothingLeftRunning
<1>3. CASE Expire
  BY <1>3 DEF Expire, Record, Expired, RunInv, RunTypeOK, Untouched, VerdictEarned, NothingLeftRunning
<1>4. ASSUME NEW l \in Limits, StartWorker(l) PROVE RunInv'
  BY <1>4 DEF StartWorker, IsLimit, Remaining, RunInv, RunTypeOK, Untouched, VerdictEarned, NothingLeftRunning
<1>5. ASSUME NEW l \in Limits, WalkProject(l) PROVE RunInv'
  BY <1>5 DEF WalkProject, IsLimit, Remaining, RunInv, RunTypeOK, Untouched, VerdictEarned, NothingLeftRunning
<1>6. CASE RejectProject
  <2>1. /\ pc = "validating" /\ Settle("environment-error")
        /\ UNCHANGED <<now, adapter, budget, count, before, limit, deadline, answer, running, fired,
                       dirty>>
    BY <1>6 DEF RejectProject
  <2>2. current \notin running
    BY <2>1 DEF RunInv, Untouched
  <2> QED
    BY <2>1, <2>2, SettlePreserves DEF Verdicts
<1>7. CASE StartContainer
  BY <1>7 DEF StartContainer, RunInv, RunTypeOK, Untouched, VerdictEarned, NothingLeftRunning
<1>8. CASE CallOther
  BY <1>8 DEF CallOther, Remaining, RunInv, RunTypeOK, Untouched, VerdictEarned, NothingLeftRunning
<1>9. ASSUME NEW i \in 1..N, NEW v \in Answers("other"), Answer(i, v) PROVE RunInv'
  BY <1>9 DEF Answer, RunInv, RunTypeOK, Untouched, VerdictEarned, NothingLeftRunning
<1>10. ASSUME NEW i \in 1..N, WorkerEnds(i) PROVE RunInv'
  BY <1>10 DEF WorkerEnds, RunInv, RunTypeOK, Untouched, VerdictEarned, NothingLeftRunning
<1>11. CASE HandleAnswer
  <2>1. /\ pc = "probing" /\ answer[current] # "none" /\ Settle(Verdict(answer[current]))
        /\ UNCHANGED <<now, adapter, budget, count, before, limit, deadline, answer, running, fired,
                       dirty>>
    BY <1>11 DEF HandleAnswer
  <2>2. current \in 1..N /\ current \notin fired
    BY <2>1 DEF RunInv, RunTypeOK
  <2>3. Verdict(answer[current]) \in Verdicts \ {"none", "inconclusive"}
    BY <2>1, <2>2, VerdictsAre, AnswersAre DEF RunTypeOK
  <2> QED
    BY <2>1, <2>2, <2>3, SettlePreserves
<1>12. CASE TimerFires
  <2>1. outcome[current].verdict = "none"
    BY <1>12 DEF TimerFires, RunInv, NoOutcome
  <2> QED
    BY <1>12, <2>1 DEF TimerFires, RunInv, RunTypeOK, Untouched, VerdictEarned, NothingLeftRunning
<1>13. CASE Terminated
  <2>1. /\ pc = "stopping" /\ current \notin running /\ Settle("inconclusive")
        /\ UNCHANGED <<now, adapter, budget, count, before, limit, deadline, answer, running, fired,
                       dirty>>
    BY <1>13 DEF Terminated
  <2>2. current \in fired
    BY <2>1 DEF RunInv
  <2> QED
    BY <2>1, <2>2, SettlePreserves DEF Verdicts
<1>14. CASE Reaped
  <2> DEFINE v == IF answer[current] = "error" THEN "inconclusive" ELSE Verdict(answer[current])
  <2>1. /\ pc = "stopping" /\ adapter = "docker" /\ answer[current] # "none" /\ Settle(v)
        /\ UNCHANGED <<now, adapter, budget, count, before, limit, deadline, answer, running, fired,
                       dirty>>
    BY <1>14 DEF Reaped
  <2>2. current \in 1..N /\ current \in fired
    BY <2>1 DEF RunInv, RunTypeOK
  <2>3. Verdict(answer[current]) \in Verdicts
    BY <2>1, <2>2, VerdictsAre, AnswersAre DEF RunTypeOK
  <2>4. v \in Verdicts /\ (v = "inconclusive" \/ v = Verdict(answer[current]))
    BY <2>3 DEF Verdicts
  <2> HIDE DEF v
  <2> QED
    BY <2>1, <2>2, <2>4, SettlePreserves
<1>15. CASE Cleanup
  BY <1>15 DEF Cleanup, RunInv, RunTypeOK, Untouched, VerdictEarned, NothingLeftRunning
<1>16. CASE CleanupFails
  <2> DEFINE F(i) == [outcome[i] EXCEPT !.verdict = "environment-error", !.executed = TRUE]
  <2>5. \A i \in 1..N : F(i).verdict = "environment-error"
    BY DEF RunTypeOK
  <2>6. outcome' = [i \in 1..N |-> IF i <= count THEN F(i) ELSE outcome[i]]
    BY <1>16, Zenon DEF CleanupFails
  <2> HIDE DEF F
  <2>7. /\ current > count /\ current' = current /\ count' = count /\ pc = "choosing"
        /\ pc' = "ended" /\ answer' = answer /\ running' = running /\ fired' = fired
    BY <1>16, Zenon DEF CleanupFails
  <2>0. current = count + 1
    BY <2>7 DEF RunInv, RunTypeOK
  <2>1. \A i \in 1..N : outcome'[i].verdict \in {"environment-error", "none"}
    <3> SUFFICES ASSUME NEW i \in 1..N PROVE outcome'[i].verdict \in {"environment-error", "none"}
      OBVIOUS
    <3>1. CASE i <= count
      BY <2>5, <2>6, <3>1
    <3>2. CASE i > count
      <4>1. outcome[i] = NoOutcome
        BY <2>0, <2>7, <3>2 DEF RunInv, RunTypeOK, Untouched
      <4>2. outcome'[i] = outcome[i]
        BY <2>6, <3>2 DEF RunTypeOK
      <4> QED
        BY <4>1, <4>2 DEF NoOutcome
    <3> QED
      BY <3>1, <3>2 DEF RunTypeOK
  <2>2. VerdictEarned'
    BY <2>1 DEF VerdictEarned
  <2>3. \A i \in 1..N : Untouched(i)' => i > count /\ Untouched(i)
    BY <2>0, <2>7 DEF Untouched, RunTypeOK
  <2>4. \A i \in 1..N : Untouched(i)' =>
          answer'[i] = "none" /\ i \notin running' /\ i \notin fired' /\ outcome'[i] = NoOutcome
    <3> SUFFICES ASSUME NEW i \in 1..N, Untouched(i)'
                 PROVE  /\ answer'[i] = "none" /\ i \notin running' /\ i \notin fired'
                        /\ outcome'[i] = NoOutcome
      OBVIOUS
    <3>1. i > count /\ Untouched(i)
      BY <2>3
    <3>2. outcome'[i] = outcome[i]
      BY <2>6, <3>1 DEF RunTypeOK
    <3> QED
      BY <2>7, <3>1, <3>2 DEF RunInv
  <2>8. NothingLeftRunning'
    BY <2>7 DEF RunInv, NothingLeftRunning
  <2> QED
    BY <2>0, <2>2, <2>4, <2>7, <2>8, <1>16 DEF RunInv, CleanupFails
<1>17. CASE Tick
  BY <1>17 DEF Tick, RunInv, RunTypeOK, Untouched, VerdictEarned, NothingLeftRunning
<1> QED
  BY <1>1, <1>2, <1>3, <1>4, <1>5, <1>6, <1>7, <1>8, <1>9, <1>10, <1>11, <1>12, <1>13, <1>14, <1>15, <1>16, <1>17 DEF RunNext

-----------------------------------------------------------------------------
(* The commands.                                                           *)

LEMMA AnswerOfVerdict ==
  \A a \in AllAnswers :
    /\ Verdict(a) = "confirmed" => a = "matched"
    /\ Verdict(a) = "not-reproduced" => a = "unmatched"
BY DEF AllAnswers, Verdict

\* What a verdict says of the answer.
LEMMA Earned ==
  ASSUME RunInv, NEW i \in 1..N
  PROVE  /\ outcome[i].verdict = "confirmed" => answer[i] = "matched"
         /\ outcome[i].verdict = "not-reproduced" => answer[i] = "unmatched"
BY AnswersAre, AnswerOfVerdict DEF RunInv, RunTypeOK, VerdictEarned

CommandTypeOK ==
  /\ mode \in Modes
  /\ nonRoot \in BOOLEAN
  /\ stage \in {"start", "primary", "control", "done"}
  /\ primary \in [outcome : Outcomes, answer : AllAnswers \cup {"none"}]
  /\ report \in Statuses
  /\ code \in {NoCode, 0, 1, 3, 78}

\* Where a command stands determines where its run stands and what it has said.
CommandInv ==
  /\ CommandTypeOK
  /\ stage # "done" => report = "none" /\ code = NoCode
  /\ stage = "start" => pc = "idle"
  /\ stage = "done" => pc \in {"idle", "ended", "thrown"}
  /\ mode \notin {"execute", "library"} => count = 1
  /\ primary.outcome.verdict = "confirmed" => primary.answer = "matched"
  /\ primary.outcome.verdict = "not-reproduced" => primary.answer = "unmatched"
  /\ ExitCodeHonest
  /\ ProofNeedsControl

HuntInv == RunInv /\ CommandInv

LEMMA HuntInitial == Init => HuntInv
<1> SUFFICES ASSUME Init PROVE HuntInv
  OBVIOUS
<1> USE HuntConstants DEF Init
<1>1. outcome \in [1..N -> Outcomes] /\ answer \in [1..N -> AllAnswers \cup {"none"}]
  BY NoOutcomeType DEF Unset
<1>2. adapter \in Adapters
  BY DEF Adapters
<1>3. /\ now \in 0..MaxTime /\ budget \in Nat /\ count \in 1..N
      /\ current \in 1..(N + 1) /\ before \in 0..MaxTime /\ limit \in Nat /\ deadline \in Nat
      /\ running \subseteq 1..N /\ fired \subseteq 1..N
  OBVIOUS
<1>4. dirty \in BOOLEAN /\ pc \in Phases
  BY Zenon DEF Phases
<1>5. RunTypeOK
  BY <1>1, <1>2, <1>3, <1>4, AnswersAre, Zenon DEF RunTypeOK, Outcomes, Phases
<1>6. RunInv
  BY <1>5 DEF RunInv, Untouched, Unset, NoOutcome, VerdictEarned, NothingLeftRunning
<1>7. CommandTypeOK
  BY NoOutcomeType DEF CommandTypeOK, NoPrimary, Statuses
<1>8. primary.outcome.verdict = "none" /\ report = "none" /\ code = NoCode
  BY DEF NoPrimary, NoOutcome
<1>9. ExitCodeHonest /\ ProofNeedsControl
  BY <1>8 DEF ExitCodeHonest, ProofNeedsControl, NoCode
<1> QED
  BY <1>6, <1>7, <1>8, <1>9 DEF HuntInv, CommandInv

\* Once a run has ended, nothing changes what it found.
LEMMA EndedIsFrozen ==
  ASSUME RunInv, RunNext, pc \in {"idle", "ended", "thrown"}
  PROVE  UNCHANGED <<pc, count, outcome, answer>>
<1>1. \A i \in running : answer[i] # "none"
  BY DEF RunInv, NothingLeftRunning
<1> QED
  BY <1>1 DEF RunNext, Prepare, PrepareThrows, Expire, StartWorker, WalkProject, RejectProject,
              StartContainer, CallOther, Answer, WorkerEnds, HandleAnswer, TimerFires,
              Terminated, Reaped, Cleanup, CleanupFails, Tick

LEMMA CountStays == RunNext => count' = count
BY DEF RunNext, Prepare, PrepareThrows, Expire, StartWorker, WalkProject, RejectProject,
       StartContainer, CallOther, Answer, WorkerEnds, HandleAnswer, TimerFires,
       Terminated, Reaped, Cleanup, CleanupFails, Tick

LEMMA RunKeepsCommand ==
  ASSUME HuntInv, RunNext, UNCHANGED commandVars
  PROVE  CommandInv'
<1> USE DEF HuntInv, CommandInv, commandVars
<1>1. CASE stage \in {"start", "done"}
  <2>1. UNCHANGED <<pc, count, outcome, answer>>
    BY <1>1, EndedIsFrozen
  <2> QED
    BY <1>1, <2>1 DEF CommandTypeOK, ExitCodeHonest, ProofNeedsControl, Selected, Passed
<1>2. CASE stage \notin {"start", "done"}
  <2>1. report' = "none" /\ code' = NoCode /\ count' = count
    BY <1>2, CountStays
  <2>2. ExitCodeHonest' /\ ProofNeedsControl'
    BY <2>1 DEF ExitCodeHonest, ProofNeedsControl, NoCode
  <2> QED
    BY <1>2, <2>1, <2>2 DEF CommandTypeOK
<1> QED
  BY <1>1, <1>2

\* The end of a command that has printed s and its code c.
LEMMA EndPreserves ==
  ASSUME HuntInv, NEW s \in Statuses, NEW c \in {NoCode, 0, 1, 3, 78}, End(s, c),
         pc \in {"idle", "ended", "thrown"},
         ExitCodeHonest', ProofNeedsControl'
  PROVE  HuntInv'
<1>1. RunInv'
  BY RunStutters DEF HuntInv, End
<1>2. CommandInv'
  BY DEF HuntInv, CommandInv, CommandTypeOK, End, runVars
<1> QED
  BY <1>1, <1>2 DEF HuntInv

\* A run begins: nothing has been said yet.
LEMMA CallPreserves ==
  ASSUME HuntInv, NEW b \in Nat, NEW c \in 1..N, Call(adapter, b, c),
         stage # "done", stage' \in {"primary", "control"},
         UNCHANGED <<mode, nonRoot, report, code>>,
         mode \notin {"execute", "library"} => c = 1,
         primary' \in [outcome : Outcomes, answer : AllAnswers \cup {"none"}],
         primary'.outcome.verdict = "confirmed" => primary'.answer = "matched",
         primary'.outcome.verdict = "not-reproduced" => primary'.answer = "unmatched"
  PROVE  HuntInv'
<1>1. RunInv'
  BY CallStarts DEF HuntInv, RunInv, RunTypeOK
<1>2. report' = "none" /\ code' = NoCode /\ count' = c
  BY DEF HuntInv, CommandInv, Call
<1>3. ExitCodeHonest' /\ ProofNeedsControl'
  BY <1>2 DEF ExitCodeHonest, ProofNeedsControl, NoCode
<1> QED
  BY <1>1, <1>2, <1>3 DEF HuntInv, CommandInv, CommandTypeOK

LEMMA CommandPreserved ==
  ASSUME HuntInv, CommandNext
  PROVE  HuntInv'
<1> USE HuntConstants, TotalConstant
<1>0. RunInv /\ CommandInv /\ RunTypeOK /\ CommandTypeOK
  BY DEF HuntInv, RunInv, CommandInv
<1>1. CASE Deny
  <2>1. pc = "idle" /\ End("denied", 78)
    BY <1>1, <1>0 DEF Deny, CommandInv
  <2>2. ExitCodeHonest' /\ ProofNeedsControl'
    BY <2>1 DEF End, ExitCodeHonest, ProofNeedsControl
  <2> QED
    BY <2>1, <2>2, EndPreserves DEF Statuses
<1>2. ASSUME NEW b \in {Timeout, Cpu, Total}, NEW c \in 1..N, Start(b, c) PROVE HuntInv'
  <2>1. /\ Call(adapter, b, c) /\ stage = "start" /\ stage' = "primary"
        /\ UNCHANGED <<mode, nonRoot, primary, report, code>>
        /\ mode \notin {"execute", "library"} => c = 1
    BY <1>2 DEF Start
  <2> QED
    BY <2>1, <1>0, CallPreserves DEF CommandInv, CommandTypeOK
<1>3. CASE Report
  <2> DEFINE found == \E i \in Selected : outcome[i].verdict = "confirmed"
  <2>1. /\ mode = "execute" /\ pc = "ended"
        /\ End("completed", IF found THEN 1 ELSE 0)
    BY <1>3 DEF Report
  <2>2. Selected \subseteq 1..N
    BY <1>0 DEF Selected, RunTypeOK
  <2>3. found <=> \E i \in Selected : answer[i] = "matched" /\ outcome[i].verdict = "confirmed"
    BY <2>2, <1>0, Earned
  <2>4. UNCHANGED <<mode, count, answer, outcome>> /\ code' = IF found THEN 1 ELSE 0
    BY <2>1 DEF End, runVars
  <2>5. Selected' = Selected
    BY <2>4 DEF Selected
  <2>6. ExitCodeHonest'
    BY <2>1, <2>3, <2>4, <2>5 DEF ExitCodeHonest
  <2>7. ProofNeedsControl'
    BY <2>1 DEF End, ProofNeedsControl
  <2> QED
    BY <2>1, <2>6, <2>7, EndPreserves DEF Statuses
<1>4. CASE ReportFails
  <2>1. pc = "ended" /\ End("denied", 78)
    BY <1>4 DEF ReportFails
  <2>2. ExitCodeHonest' /\ ProofNeedsControl'
    BY <2>1 DEF End, ExitCodeHonest, ProofNeedsControl
  <2> QED
    BY <2>1, <2>2, EndPreserves DEF Statuses
<1>5. CASE ReportWorker
  <2> DEFINE found == outcome[1].verdict = "confirmed"
  <2>1. /\ mode = "worker" /\ pc = "ended" /\ count = 1 /\ 1 \in 1..N
        /\ End("completed", IF found THEN 1 ELSE 0)
    BY <1>5, <1>0 DEF ReportWorker, CommandInv
  <2>2. UNCHANGED <<mode, count, answer, outcome>> /\ code' = IF found THEN 1 ELSE 0
    BY <2>1 DEF End, runVars
  <2>3. Selected' = {1}
    BY <2>1, <2>2 DEF Selected
  <2>4. found => answer[1] = "matched"
    BY <2>1, <1>0, Earned
  <2>5. ExitCodeHonest'
    BY <2>1, <2>2, <2>3, <2>4 DEF ExitCodeHonest
  <2>6. ProofNeedsControl'
    BY <2>1 DEF End, ProofNeedsControl
  <2> QED
    BY <2>1, <2>5, <2>6, EndPreserves DEF Statuses
<1>6. CASE Return
  <2>1. pc \in {"ended", "thrown"} /\ End(pc, NoCode)
    BY <1>6 DEF Return
  <2>2. ExitCodeHonest' /\ ProofNeedsControl'
    BY <2>1 DEF End, ExitCodeHonest, ProofNeedsControl, NoCode
  <2> QED
    BY <2>1, <2>2, EndPreserves DEF Statuses
<1>7. CASE StartControl
  <2>1. /\ Call(adapter, budget, 1) /\ stage = "primary" /\ stage' = "control"
        /\ UNCHANGED <<mode, nonRoot, report, code>>
        /\ primary' = [outcome |-> outcome[1], answer |-> answer[1]]
    BY <1>7 DEF StartControl
  <2>2. budget \in Nat /\ 1 \in 1..N
    BY <1>0 DEF RunTypeOK
  <2>3. outcome[1] \in Outcomes /\ answer[1] \in AllAnswers \cup {"none"}
    BY <2>2, <1>0, AnswersAre DEF RunTypeOK, Outcomes
  <2>4. /\ outcome[1].verdict = "confirmed" => answer[1] = "matched"
        /\ outcome[1].verdict = "not-reproduced" => answer[1] = "unmatched"
    BY <2>2, <1>0, Earned
  <2> QED
    BY <2>1, <2>2, <2>3, <2>4, CallPreserves
<1>8. CASE Conclude
  <2> DEFINE s == IF mode = "retest" THEN RetestStatus ELSE ProofStatus
             c == CASE ProofStatus = "confirmed" -> 1
                    [] ProofStatus = "not-reproduced" -> 0
                    [] OTHER -> 3
  <2>1. /\ mode \in {"proof", "retest"} /\ pc = "ended" /\ 1 \in 1..N
        /\ End(s, c)
    BY <1>8 DEF Conclude
  <2>2. /\ ProofStatus = "confirmed" => primary.answer = "matched" /\ answer[1] = "unmatched"
        /\ ProofStatus = "not-reproduced" => primary.answer = "unmatched" /\ answer[1] = "unmatched"
        /\ ProofStatus \in {"confirmed", "not-reproduced", "inconclusive"}
    BY <2>1, <1>0, Earned DEF ProofStatus, Passed, CommandInv
  <2>3. /\ s \in Statuses
        /\ s \in {"confirmed", "still-reproduced"} => ProofStatus = "confirmed"
        /\ s \in {"not-reproduced", "cleared"} => ProofStatus = "not-reproduced"
    BY <2>2 DEF RetestStatus, Statuses
  <2>4. c \in {0, 1, 3} /\ (c = 1 <=> ProofStatus = "confirmed") /\ (c = 0 <=> ProofStatus = "not-reproduced")
    BY <2>2
  <2>5. UNCHANGED <<mode, primary, answer>> /\ code' = c /\ report' = s
    BY <2>1 DEF End, runVars
  <2> HIDE DEF s, c
  <2>6. ExitCodeHonest'
    BY <2>1, <2>2, <2>4, <2>5 DEF ExitCodeHonest
  <2>7. ProofNeedsControl'
    BY <2>2, <2>3, <2>5 DEF ProofNeedsControl
  <2> QED
    BY <2>1, <2>3, <2>4, <2>6, <2>7, EndPreserves
<1>9. CASE ConcludeFails
  <2>1. pc = "ended" /\ End("denied", 78)
    BY <1>9 DEF ConcludeFails
  <2>2. ExitCodeHonest' /\ ProofNeedsControl'
    BY <2>1 DEF End, ExitCodeHonest, ProofNeedsControl
  <2> QED
    BY <2>1, <2>2, EndPreserves DEF Statuses
<1> QED
  BY <1>1, <1>2, <1>3, <1>4, <1>5, <1>6, <1>7, <1>8, <1>9 DEF CommandNext

LEMMA HuntPreserved == HuntInv /\ [Next]_vars => HuntInv'
<1> SUFFICES ASSUME HuntInv, [Next]_vars PROVE HuntInv'
  OBVIOUS
<1>1. CASE CommandNext
  BY <1>1, CommandPreserved
<1>2. CASE RunNext /\ UNCHANGED commandVars
  BY <1>2, RunPreserved, RunKeepsCommand DEF HuntInv
<1>3. CASE UNCHANGED vars
  <2>1. RunInv'
    BY <1>3, RunStutters DEF vars, HuntInv
  <2>2. UNCHANGED <<runVars, commandVars>>
    BY <1>3 DEF vars
  <2> QED
    BY <2>1, <2>2 DEF HuntInv, CommandInv, CommandTypeOK, ExitCodeHonest, ProofNeedsControl,
                      Selected, runVars, commandVars
<1> QED
  BY <1>1, <1>2, <1>3 DEF Next

-----------------------------------------------------------------------------
(* The theorems.                                                           *)

\* The inductive invariant of a command and its run (hunt/src/index.ts, cli/src/hunt-execute.ts).
THEOREM HuntInvHolds == Spec => []HuntInv
BY HuntInitial, HuntPreserved, PTL DEF Spec

\* Every variable of a command and of its run keeps its type.
THEOREM TypeCorrect == Spec => []TypeOK
<1>1. HuntInv => TypeOK
  BY AnswersAre DEF HuntInv, RunInv, CommandInv, CommandTypeOK, TypeOK, Outcomes
<1> QED
  BY <1>1, HuntInvHolds, PTL

\* A verdict rests on the finding's own probe, answered in time (index.ts, runHunt).
THEOREM VerdictHolds == Spec => []VerdictEarned
<1>1. HuntInv => VerdictEarned
  BY DEF HuntInv, RunInv
<1> QED
  BY <1>1, HuntInvHolds, PTL

\* No probe is alive unanswered but the one the run waits for (restricted-process-adapter.ts).
THEOREM NothingLeftHolds == Spec => []NothingLeftRunning
<1>1. HuntInv => NothingLeftRunning
  BY DEF HuntInv, RunInv
<1> QED
  BY <1>1, HuntInvHolds, PTL

\* Every worker is gone when the budget shared by all findings is (index.ts, remainingMs).
THEOREM DeadlineHolds == Spec => []SharedDeadline
<1>1. HuntInv => SharedDeadline
  BY HuntConstants DEF HuntInv, RunInv, RunTypeOK, SharedDeadline
<1> QED
  BY <1>1, HuntInvHolds, PTL

\* Exit code 1 tells of a probe that matched and 0 hides none (hunt-execute.ts, attack-worker.ts).
THEOREM ExitCodeHolds == Spec => []ExitCodeHonest
<1>1. HuntInv => ExitCodeHonest
  BY DEF HuntInv, CommandInv
<1> QED
  BY <1>1, HuntInvHolds, PTL

\* A proof is stated, and a finding cleared, only with its answered control (attack-worker.ts).
THEOREM ControlHolds == Spec => []ProofNeedsControl
<1>1. HuntInv => ProofNeedsControl
  BY DEF HuntInv, CommandInv
<1> QED
  BY <1>1, HuntInvHolds, PTL

-----------------------------------------------------------------------------
(* The call implements the promise of FindingVerdicts.                     *)

Underway == pc \in {"preparing", "choosing", "validating", "probing", "stopping"}

\* The findings with a verdict are those the call is past.
InOrder ==
  /\ \A i \in 1..N : i < current <=> outcome[i].verdict # "none"
  /\ pc \in {"idle", "preparing", "thrown"} => current = 1

MapsTo(next) == next \/ UNCHANGED <<[i \in 1..N |-> outcome[i].verdict], count, Underway>>

\* A recorded outcome settles the first finding that is not settled.
LEMMA RecordSettles ==
  ASSUME RunInv, InOrder, NEW o \in Outcomes, Record(o), o.verdict \in Verdicts \ {"none"},
         pc \in {"choosing", "validating", "probing", "stopping"}, current <= count,
         count' = count
  PROVE  InOrder' /\ Findings!Settle
<1>1. /\ current \in 1..count /\ count \in 1..N /\ current \in 1..N
      /\ current' = current + 1 /\ pc' = "choosing"
      /\ outcome' = [outcome EXCEPT ![current] = o]
      /\ outcome \in [1..N -> Outcomes]
  BY HuntConstants DEF RunInv, RunTypeOK, Record, Outcomes
<1>2. \A i \in 1..N : outcome'[i] = IF i = current THEN o ELSE outcome[i]
  BY <1>1
<1>3. InOrder'
  BY <1>1, <1>2 DEF InOrder
<1> DEFINE v == [i \in 1..N |-> outcome[i].verdict]
<1>4. v' = [v EXCEPT ![current] = o.verdict]
  BY <1>1, <1>2
<1>5. \A j \in 1..N : j < current <=> v[j] # "none"
  BY DEF InOrder
<1>6. Underway = TRUE /\ Underway' = TRUE
  BY <1>1 DEF Underway
<1> QED
  BY <1>1, <1>3, <1>4, <1>5, <1>6 DEF Findings!Settle, Underway

\* A settled finding was probed, or the environment failed it.
LEMMA SettleSettles ==
  ASSUME RunInv, InOrder, NEW v \in Verdicts \ {"none"}, Settle(v),
         pc \in {"validating", "probing", "stopping"}, count' = count
  PROVE  InOrder' /\ Findings!Settle
<1>1. now - before \in 0..MaxTime
  BY HuntConstants DEF RunInv, RunTypeOK
<1>2. [verdict |-> v, took |-> now - before, executed |-> TRUE] \in Outcomes
  BY <1>1, OutcomeType
<1>3. current <= count
  BY DEF RunInv
<1> QED
  BY <1>2, <1>3, RecordSettles DEF Settle

\* A step that records nothing and does not end the call is no step of the promise.
LEMMA NothingSettled ==
  ASSUME InOrder, UNCHANGED <<outcome, count, current>>, Underway, Underway',
         pc' # "preparing"
  PROVE  InOrder' /\ MapsTo(FALSE)
<1>1. Underway = Underway'
  BY DEF Underway
<1>2. [i \in 1..N |-> outcome[i].verdict]' = [i \in 1..N |-> outcome[i].verdict]
  OBVIOUS
<1>3. InOrder'
  BY DEF InOrder, Underway
<1> QED
  BY <1>1, <1>2, <1>3 DEF MapsTo

\* Every step of a call.
LEMMA RunMaps ==
  ASSUME RunInv, InOrder, RunNext
  PROVE  InOrder' /\ MapsTo(Findings!Next)
<1> USE DEF MapsTo, Findings!Next
<1>1. CASE Prepare
  BY <1>1, NothingSettled DEF Prepare, Underway
<1>2. CASE PrepareThrows
  <2>1. pc' = "thrown" /\ pc = "preparing" /\ current = 1 /\ UNCHANGED <<outcome, count, current>>
    BY <1>2 DEF PrepareThrows, InOrder
  <2>2. \A i \in 1..N : outcome[i].verdict = "none"
    BY <2>1 DEF InOrder
  <2>3. [i \in 1..N |-> outcome[i].verdict] = Findings!Unsettled
    BY <2>2 DEF Findings!Unsettled
  <2>4. Findings!Abandon
    BY <2>1, <2>3 DEF Findings!Abandon
  <2> QED
    BY <2>1, <2>4 DEF InOrder
<1>3. CASE Expire
  <2>1. Expired \in Outcomes /\ Expired.verdict \in Verdicts \ {"none"}
    BY NoOutcomeType DEF Expired, Verdicts
  <2> QED
    BY <1>3, <2>1, RecordSettles DEF Expire
<1>4. CASE (\E l \in Limits : StartWorker(l) \/ WalkProject(l)) \/ StartContainer \/ CallOther
           \/ TimerFires
  BY <1>4, NothingSettled
  DEF StartWorker, WalkProject, StartContainer, CallOther, TimerFires, Underway
<1>5. CASE RejectProject
  BY <1>5, SettleSettles DEF RejectProject, Verdicts
<1>6. CASE HandleAnswer
  <2>1. answer[current] \in AllAnswers /\ pc = "probing"
    BY <1>6, AnswersAre DEF HandleAnswer, RunInv, RunTypeOK
  <2>2. Verdict(answer[current]) \in Verdicts \ {"none"}
    BY <2>1, VerdictsAre
  <2> QED
    BY <1>6, <2>1, <2>2, SettleSettles DEF HandleAnswer
<1>7. CASE Terminated
  BY <1>7, SettleSettles DEF Terminated, Verdicts
<1>8. CASE Reaped
  <2>1. answer[current] \in AllAnswers /\ pc = "stopping"
    BY <1>8, AnswersAre DEF Reaped, RunInv, RunTypeOK
  <2>2. (IF answer[current] = "error" THEN "inconclusive" ELSE Verdict(answer[current]))
          \in Verdicts \ {"none"}
    BY <2>1, VerdictsAre DEF Verdicts
  <2> QED
    BY <1>8, <2>1, <2>2, SettleSettles DEF Reaped
<1>9. CASE Cleanup \/ CleanupFails
  <2>1. count \in 1..N /\ current \in 1..(N + 1) /\ current <= count + 1
    BY DEF RunInv, RunTypeOK
  <2>2. /\ pc = "choosing" /\ pc' = "ended" /\ UNCHANGED <<count, current>>
        /\ current > count
    BY <1>9 DEF Cleanup, CleanupFails
  <2>3. /\ pc = "choosing" /\ pc' = "ended" /\ UNCHANGED <<count, current>>
        /\ current = count + 1 /\ count \in 1..N
    BY <2>1, <2>2, HuntConstants
  <2>4. \A i \in 1..N : i <= count <=> outcome[i].verdict # "none"
    BY <2>3 DEF InOrder
  <2>5. \/ \A i \in 1..N : outcome'[i].verdict = outcome[i].verdict
        \/ \A i \in 1..N : outcome'[i].verdict = IF i <= count THEN "environment-error" ELSE "none"
    <3>1. CASE Cleanup
      BY <3>1 DEF Cleanup
    <3>2. CASE CleanupFails
      <4>1. \A i \in 1..N : outcome'[i] =
              IF i <= count
              THEN [outcome[i] EXCEPT !.verdict = "environment-error", !.executed = TRUE]
              ELSE outcome[i]
        BY <3>2 DEF CleanupFails
      <4>2. \A i \in 1..N : outcome[i] \in Outcomes
        BY DEF RunInv, RunTypeOK, Outcomes
      <4> QED
        BY <2>4, <4>1, <4>2 DEF Outcomes
    <3> QED
      BY <1>9, <3>1, <3>2
  <2>6. Findings!Close
    BY <2>3, <2>4, <2>5 DEF Findings!Close
  <2>7. \A i \in 1..N : outcome'[i].verdict # "none" <=> outcome[i].verdict # "none"
    BY <2>4, <2>5
  <2> QED
    BY <2>3, <2>6, <2>7 DEF InOrder
<1>10. CASE \/ \E i \in 1..N, v \in Answers("other") : Answer(i, v)
            \/ \E i \in 1..N : WorkerEnds(i)
            \/ Tick
  <2>1. UNCHANGED <<pc, current, count, outcome>>
    BY <1>10 DEF Answer, WorkerEnds, Tick
  <2> QED
    BY <2>1 DEF InOrder, Underway
<1> QED
  BY <1>1, <1>2, <1>3, <1>4, <1>5, <1>6, <1>7, <1>8, <1>9, <1>10 DEF RunNext

\* Every step of a command.
LEMMA CommandMaps ==
  ASSUME HuntInv, InOrder, CommandNext
  PROVE  InOrder' /\ MapsTo(Findings!Next)
<1>1. ASSUME UNCHANGED runVars
      PROVE  InOrder' /\ MapsTo(Findings!Next)
  BY <1>1 DEF runVars, InOrder, MapsTo, Underway
<1>2. ASSUME NEW b, NEW c \in 1..N, Call(adapter, b, c), pc \in {"idle", "ended"}
      PROVE  InOrder' /\ MapsTo(Findings!Next)
  <2>1. /\ count' = c /\ current' = 1 /\ pc' = "preparing"
        /\ \A i \in 1..N : outcome'[i].verdict = "none"
    BY <1>2 DEF Call, NoOutcome
  <2>2. [i \in 1..N |-> outcome[i].verdict]' = Findings!Unsettled
    BY <2>1 DEF Findings!Unsettled
  <2>3. Findings!Begin
    BY <1>2, <2>1, <2>2 DEF Findings!Begin
  <2> QED
    BY <2>1, <2>3 DEF InOrder, MapsTo, Findings!Next
<1>3. ASSUME NEW b \in {Timeout, Cpu, Total}, NEW c \in 1..N, Start(b, c)
      PROVE  InOrder' /\ MapsTo(Findings!Next)
  BY <1>2, <1>3 DEF Start, HuntInv, CommandInv
<1>4. CASE StartControl
  <2>1. 1 \in 1..N
    BY HuntConstants
  <2> QED
    BY <1>2, <1>4, <2>1 DEF StartControl
<1> QED
  BY <1>1, <1>3, <1>4 DEF CommandNext, Deny, Report, ReportFails, ReportWorker, Return, Conclude,
     ConcludeFails, End

(* For any number of findings, adapters that answer, hang or throw, and    *)
(* any deadline: a call of runHunt settles its findings one by one, ends   *)
(* with a verdict for each of them and for no other, and revises none.     *)
THEOREM ImplementsFindings == Spec => FindingsSpec
<1>1. Init => InOrder /\ Findings!Init
  <2> SUFFICES ASSUME Init PROVE InOrder /\ Findings!Init
    OBVIOUS
  <2>1. \A i \in 1..N : outcome[i].verdict = "none"
    BY DEF Init, NoOutcome
  <2>2. [i \in 1..N |-> outcome[i].verdict] = Findings!Unsettled
    BY <2>1 DEF Findings!Unsettled
  <2>3. count \in 1..N /\ current = 1 /\ pc = "idle"
    BY HuntConstants DEF Init
  <2>4. InOrder
    BY <2>1, <2>3 DEF InOrder
  <2> QED
    BY <2>2, <2>3, <2>4 DEF Findings!Init
<1>2. HuntInv /\ InOrder /\ [Next]_vars
        => InOrder' /\ [Findings!Next]_<<[i \in 1..N |-> outcome[i].verdict], count, Underway>>
  <2> SUFFICES ASSUME HuntInv, InOrder, [Next]_vars
               PROVE  InOrder' /\ MapsTo(Findings!Next)
    BY DEF MapsTo
  <2>1. CASE CommandNext
    BY <2>1, CommandMaps
  <2>2. CASE RunNext
    BY <2>2, RunMaps DEF HuntInv
  <2>3. CASE UNCHANGED vars
    BY <2>3 DEF vars, runVars, InOrder, MapsTo, Underway
  <2> QED
    BY <2>1, <2>2, <2>3 DEF Next
<1> QED
  BY <1>1, <1>2, HuntInvHolds, PTL DEF Spec, FindingsSpec, Findings!Spec, Underway
=============================================================================
