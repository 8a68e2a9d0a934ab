------------------------------- MODULE HuntRun -------------------------------
(***************************************************************************)
(* One call of runHunt (packages/hunt/src/index.ts): the probes of the     *)
(* selected findings run one after the other against one deadline, under   *)
(* an adapter.  "restricted-process" is a worker thread with a timer       *)
(* (restricted-process-adapter.ts), "docker" a child process that gets a   *)
(* SIGTERM at its timeout (docker-sandbox-adapter.ts, docker-runner.ts),   *)
(* "other" any adapter a caller of the library may pass.                   *)
(*                                                                         *)
(* Time is a clock that starts with the call.  A probe may take any time   *)
(* to answer, or never answer; what it answers is the question, so an      *)
(* answer is only classified.                                              *)
(***************************************************************************)
EXTENDS Integers, FiniteSets

CONSTANTS
  N,        \* findings of the report
  Timeout,  \* timeoutMs of the recipe
  Cpu,      \* cpuMs of the recipe
  Slack,    \* how late a timer or the end of a terminated worker can be
  MaxTime   \* bound of the model: the clock

ASSUME HuntConstants ==
  /\ N \in Nat \ {0}
  /\ Timeout \in Nat \ {0}
  /\ Cpu \in Nat \ {0}
  /\ Slack \in Nat
  /\ MaxTime \in Nat

VARIABLES
  now,       \* time since the call
  adapter,   \* the adapter it was given
  budget,    \* maxDurationMs
  count,     \* the findings it selected are 1..count
  pc,        \* where it is
  current,   \* the finding it is at
  before,    \* when the adapter was called
  limit,     \* what the adapter was allowed
  deadline,  \* when the adapter's own timer fires
  answer,    \* what each probe has answered
  running,   \* the probes whose worker or child is alive
  fired,     \* the findings whose timer fired first
  outcome,   \* outcomes so far
  dirty      \* cleanupFailed

runVars == <<now, adapter, budget, count, pc, current, before, limit, deadline,
             answer, running, fired, outcome, dirty>>

Adapters == {"restricted-process", "docker", "other"}

\* What a probe can answer; the container alone reports output it cannot read.
Answers(a) == {"matched", "unmatched", "error"}
                \cup (IF a = "restricted-process" THEN {} ELSE {"unsupported"})

\* classifyHuntOutcome of an answer in time.
Verdict(a) ==
  CASE a = "matched" -> "confirmed"
    [] a = "unmatched" -> "not-reproduced"
    [] a = "unsupported" -> "not-supported"
    [] a = "error" -> "environment-error"

NoOutcome == [verdict |-> "none", took |-> 0, executed |-> FALSE]
Expired == [verdict |-> "inconclusive", took |-> 0, executed |-> FALSE]
Unset == [i \in 1..N |-> "none"]

(* A call with maxDurationMs b on c findings.  A worker of an earlier call *)
(* that has answered and is only ending is forgotten.                      *)
Call(a, b, c) ==
  /\ now' = 0
  /\ adapter' = a /\ budget' = b /\ count' = c
  /\ pc' = "preparing"
  /\ current' = 1
  /\ before' = 0 /\ limit' = 0 /\ deadline' = 0
  /\ answer' = Unset
  /\ running' = {} /\ fired' = {}
  /\ outcome' = [i \in 1..N |-> NoOutcome]
  /\ dirty' = FALSE

Prepare ==
  /\ pc = "preparing"
  /\ pc' = "choosing"
  /\ UNCHANGED <<now, adapter, budget, count, current, before, limit, deadline,
                 answer, running, fired, outcome, dirty>>

\* After cleanup() the exception goes to the caller; neither adapter here throws.
PrepareThrows ==
  /\ pc = "preparing" /\ adapter = "other"
  /\ pc' = "thrown"
  /\ UNCHANGED <<now, adapter, budget, count, current, before, limit, deadline,
                 answer, running, fired, outcome, dirty>>

Remaining == budget - now

\* The outcome of the current finding is known: on to the next.
Record(o) ==
  /\ outcome' = [outcome EXCEPT ![current] = o]
  /\ current' = current + 1
  /\ pc' = "choosing"

Settle(v) == Record([verdict |-> v, took |-> now - before, executed |-> TRUE])

\* Mutant: the loop ends at the deadline and leaves the other findings out.
ExpireStops ==
  /\ pc = "choosing" /\ current <= count
  /\ Remaining <= 0
  /\ pc' = "ended"
  /\ UNCHANGED <<now, adapter, budget, count, current, before, limit, deadline,
                 answer, running, fired, outcome, dirty>>

\* The time is up: the finding is not probed any more.
Expire ==
  /\ pc = "choosing" /\ current <= count
  /\ Remaining <= 0
  /\ Record(Expired)
  /\ UNCHANGED <<now, adapter, budget, count, before, limit, deadline,
                 answer, running, fired, dirty>>

\* Mutant: the adapter looks at the recipe only.
OwnLimit(l) == l \in {Timeout, Cpu} /\ \A x \in {Timeout, Cpu} : l <= x

\* Math.min(input.timeoutMs, limits.timeoutMs, limits.cpuMs)
IsLimit(l) == l \in {Remaining, Timeout, Cpu} /\ \A x \in {Remaining, Timeout, Cpu} : l <= x

StartWorker(l) ==
  /\ pc = "choosing" /\ current <= count /\ adapter = "restricted-process"
  /\ Remaining > 0
  /\ IsLimit(l)
  /\ before' = now /\ limit' = l /\ deadline' = now + l
  /\ running' = running \cup {current}
  /\ pc' = "probing"
  /\ UNCHANGED <<now, adapter, budget, count, current, answer, fired, outcome, dirty>>

\* The container starts after a walk over the project, with the limit from before it.
WalkProject(l) ==
  /\ pc = "choosing" /\ current <= count /\ adapter = "docker"
  /\ Remaining > 0
  /\ IsLimit(l)
  /\ before' = now /\ limit' = l
  /\ pc' = "validating"
  /\ UNCHANGED <<now, adapter, budget, count, current, deadline,
                 answer, running, fired, outcome, dirty>>

RejectProject ==
  /\ pc = "validating"
  /\ Settle("environment-error")
  /\ UNCHANGED <<now, adapter, budget, count, before, limit, deadline,
                 answer, running, fired, dirty>>

StartContainer ==
  /\ pc = "validating"
  /\ deadline' = now + limit
  /\ running' = running \cup {current}
  /\ pc' = "probing"
  /\ UNCHANGED <<now, adapter, budget, count, current, before, limit,
                 answer, fired, outcome, dirty>>

\* Nothing but the adapter itself bounds another adapter.
CallOther ==
  /\ pc = "choosing" /\ current <= count /\ adapter = "other"
  /\ Remaining > 0
  /\ before' = now /\ limit' = Remaining
  /\ running' = running \cup {current}
  /\ pc' = "probing"
  /\ UNCHANGED <<now, adapter, budget, count, current, deadline,
                 answer, fired, outcome, dirty>>

(* A worker posts a message, or ends with an error; a child ends, with     *)
(* code 0 and an output, or otherwise.                                     *)
Answer(i, v) ==
  /\ i \in running /\ answer[i] = "none"
  /\ v \in Answers(adapter)
  /\ answer' = [answer EXCEPT ![i] = v]
  /\ running' = IF adapter = "restricted-process" /\ v # "error"
                THEN running ELSE running \ {i}
  /\ UNCHANGED <<now, adapter, budget, count, pc, current, before, limit, deadline,
                 fired, outcome, dirty>>

\* A worker that has posted its message, or is being terminated, ends.
WorkerEnds(i) ==
  /\ adapter = "restricted-process"
  /\ i \in running
  /\ answer[i] # "none" \/ i \in fired
  /\ running' = running \ {i}
  /\ UNCHANGED <<now, adapter, budget, count, pc, current, before, limit, deadline,
                 answer, fired, outcome, dirty>>

(* The answer is handled before the timer.  The worker is terminated, and  *)
(* that is not awaited.                                                    *)
HandleAnswer ==
  /\ pc = "probing"
  /\ answer[current] # "none"
  /\ Settle(Verdict(answer[current]))
  /\ UNCHANGED <<now, adapter, budget, count, before, limit, deadline,
                 answer, running, fired, dirty>>

\* Mutant: the result is settled before the worker has ended.
TimerSettles ==
  /\ pc = "probing" /\ adapter # "other"
  /\ now >= deadline
  /\ fired' = fired \cup {current}
  /\ Settle("inconclusive")
  /\ UNCHANGED <<now, adapter, budget, count, before, limit, deadline,
                 answer, running, dirty>>

\* Mutant: the worker is not terminated.
TimerWaits ==
  /\ pc = "probing" /\ adapter # "other"
  /\ now >= deadline
  /\ pc' = "stopping"
  /\ UNCHANGED <<now, adapter, budget, count, current, before, limit, deadline,
                 answer, running, fired, outcome, dirty>>

(* The timer wins, possibly over an answer that is already there: the      *)
(* worker is terminated, the child gets a SIGTERM.                         *)
TimerFires ==
  /\ pc = "probing" /\ adapter # "other"
  /\ now >= deadline
  /\ fired' = fired \cup {current}
  /\ pc' = "stopping"
  /\ UNCHANGED <<now, adapter, budget, count, current, before, limit, deadline,
                 answer, running, outcome, dirty>>

\* Mutant: a message that came in while the worker was terminated counts.
TerminatedLate ==
  /\ pc = "stopping" /\ adapter = "restricted-process"
  /\ current \notin running
  /\ Settle(IF answer[current] = "none" THEN "inconclusive" ELSE Verdict(answer[current]))
  /\ UNCHANGED <<now, adapter, budget, count, before, limit, deadline,
                 answer, running, fired, dirty>>

\* terminate() is awaited; a message that came in meanwhile is discarded.
Terminated ==
  /\ pc = "stopping" /\ adapter = "restricted-process"
  /\ current \notin running
  /\ Settle("inconclusive")
  /\ UNCHANGED <<now, adapter, budget, count, before, limit, deadline,
                 answer, running, fired, dirty>>

(* The child is gone.  One that ended with code 0 in spite of the signal   *)
(* counts as completed.  One that ignores the signal is waited for.        *)
Reaped ==
  /\ pc = "stopping" /\ adapter = "docker"
  /\ answer[current] # "none"
  /\ Settle(IF answer[current] = "error" THEN "inconclusive" ELSE Verdict(answer[current]))
  /\ UNCHANGED <<now, adapter, budget, count, before, limit, deadline,
                 answer, running, fired, dirty>>

Cleanup ==
  /\ pc = "choosing" /\ current > count
  /\ pc' = "ended"
  /\ UNCHANGED <<now, adapter, budget, count, current, before, limit, deadline,
                 answer, running, fired, outcome, dirty>>

\* cleanup() throws: no verdict is retained.
CleanupFails ==
  /\ pc = "choosing" /\ current > count /\ adapter = "other"
  /\ dirty' = TRUE
  /\ outcome' = [i \in 1..N |->
       IF i <= count
       THEN [outcome[i] EXCEPT !.verdict = "environment-error", !.executed = TRUE]
       ELSE outcome[i]]
  /\ pc' = "ended"
  /\ UNCHANGED <<now, adapter, budget, count, current, before, limit, deadline,
                 answer, running, fired>>

(* Time passes.  A timer and the end of a worker are late by at most       *)
(* Slack; a walk leaves room for the container's own deadline.             *)
Tick ==
  /\ pc \in {"preparing", "choosing", "validating", "probing", "stopping"}
  /\ now < MaxTime
  /\ adapter = "restricted-process" /\ pc \in {"probing", "stopping"}
       => now < deadline + Slack
  /\ pc = "validating" => now + limit < MaxTime
  /\ now' = now + 1
  /\ UNCHANGED <<adapter, budget, count, pc, current, before, limit, deadline,
                 answer, running, fired, outcome, dirty>>

Limits == {Timeout, Cpu} \cup 1..MaxTime

RunNext ==
  \/ Prepare \/ PrepareThrows \/ Expire
  \/ \E l \in Limits : StartWorker(l) \/ WalkProject(l)
  \/ RejectProject \/ StartContainer \/ CallOther
  \/ \E i \in 1..N, v \in Answers("other") : Answer(i, v)
  \/ \E i \in 1..N : WorkerEnds(i)
  \/ HandleAnswer \/ TimerFires \/ Terminated \/ Reaped
  \/ Cleanup \/ CleanupFails
  \/ Tick

(* The event loop serves what is due, a terminated worker ends, the walk   *)
(* over a finite project ends, and time goes on.  Nothing says that a      *)
(* probe answers, or that a child obeys its signal.                        *)
RunFairness ==
  /\ WF_runVars(Prepare) /\ WF_runVars(Expire) /\ WF_runVars(Cleanup)
  /\ WF_runVars(\E l \in Limits : StartWorker(l) \/ WalkProject(l))
  /\ WF_runVars(StartContainer) /\ WF_runVars(CallOther)
  /\ WF_runVars(\E i \in 1..N : WorkerEnds(i))
  /\ WF_runVars(HandleAnswer) /\ WF_runVars(TimerFires)
  /\ WF_runVars(Terminated) /\ WF_runVars(Reaped)
  /\ WF_runVars(Tick)

-----------------------------------------------------------------------------
Verdicts == {"none", "confirmed", "not-reproduced", "inconclusive",
             "not-supported", "environment-error"}

RunTypeOK ==
  /\ now \in 0..MaxTime
  /\ adapter \in Adapters
  /\ budget \in Nat
  /\ count \in 1..N
  /\ pc \in {"idle", "preparing", "choosing", "validating", "probing", "stopping",
             "ended", "thrown"}
  /\ current \in 1..(N + 1)
  /\ before \in 0..MaxTime
  /\ limit \in Nat
  /\ deadline \in Nat
  /\ answer \in [1..N -> Answers("other") \cup {"none"}]
  /\ running \subseteq 1..N
  /\ fired \subseteq 1..N
  /\ outcome \in [1..N -> [verdict : Verdicts, took : 0..MaxTime, executed : BOOLEAN]]
  /\ dirty \in BOOLEAN

(* A verdict about a finding is what that finding's own probe answered.    *)
(* Under the restricted process nothing that arrives after the timer is a  *)
(* verdict, a probe that was cut off gives none, and a failed cleanup      *)
(* leaves none.                                                            *)
VerdictEarned ==
  \A i \in 1..N :
    LET v == outcome[i].verdict IN
    /\ v \in {"confirmed", "not-reproduced"} =>
         /\ answer[i] # "none" /\ v = Verdict(answer[i])
         /\ outcome[i].executed
         /\ ~dirty
         /\ adapter = "restricted-process" => i \notin fired
    /\ v = "inconclusive" /\ outcome[i].executed => i \in fired

(* The findings are probed one at a time, and when the run is cleaned up   *)
(* none is probed any more: whatever is alive has given its answer.        *)
NothingLeftRunning ==
  \A i \in running :
    answer[i] # "none" \/ (i = current /\ pc \in {"probing", "stopping"})

(* All findings share one deadline: however many there are, a worker is    *)
(* gone when the budget of the run is, and at most the lateness of a timer *)
(* later.  (The container is not: its limit is from before the walk.)      *)
SharedDeadline ==
  adapter = "restricted-process" /\ pc \in {"probing", "stopping"}
    => now <= budget + Slack
=============================================================================
