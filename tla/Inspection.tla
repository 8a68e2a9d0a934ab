----------------------------- MODULE Inspection -----------------------------
(***************************************************************************)
(* verglos scan --snapshot: the inspection pipeline.                       *)
(*                                                                         *)
(* The command resolves its target directory to a subject (the digest of   *)
(* the tree), runs the selected producers over it with bounded             *)
(* concurrency, resolves the target again after each producer that read    *)
(* it, and publishes one snapshot, without replacing a file that exists.   *)
(* Meanwhile anybody may edit the tree, another inspection may take the    *)
(* output path, and a signal may cancel the command.  One that is killed   *)
(* takes no further step, which every behaviour here may do.               *)
(*                                                                         *)
(* A tree is its digest: two trees are equal when resolving them gives the *)
(* same subject.  Resolving is one read of the tree.  An observation is    *)
(* represented by the tree it was made in.                                 *)
(***************************************************************************)
EXTENDS Naturals, Sequences, FiniteSets

CONSTANTS
    Trees,          \* contents the directory can have
    None,           \* no subject yet; no file at the output path
    Theirs,         \* the file another inspection published there
    Plans,          \* the producer selections, each a sequence of producers
    Concurrency,    \* producers that run at the same time
    MaxEdits        \* bound on the edits of the tree

Producers == {"native", "trivy", "sarif", "cyclonedx", "spdx", "provenance"}

ASSUME PlansAssumption == Plans \subseteq Seq(Producers) \ {<<>>}
ASSUME NoneAssumption == None \notin Trees /\ None # Theirs
ASSUME ConcurrencyAssumption == Concurrency \in Nat \ {0}
ASSUME MaxEditsAssumption == MaxEdits \in Nat

VARIABLES
    tree,       \* the contents of the directory
    edits,      \* how often it was edited
    published,  \* the file at the output path
    pc,         \* where the command is
    plan,       \* its producers, in order
    signalled,  \* where it was when it was cancelled
    subject,    \* the tree its target was resolved to
    targetOk,   \* the target was resolved completely
    next,       \* index of the next producer to start
    free,       \* workers between two producers
    stage,      \* what the producer at each index is doing
    limited,    \* the producer has reported a limitation
    seen,       \* the trees it has read
    output,     \* its result
    exit,       \* how the command ended
    reverted    \* history: the tree returned to the subject while producers ran

work == <<next, free, stage, limited, seen, output>>
target == <<subject, targetOk>>
vars == <<tree, edits, published, pc, plan, signalled, target, work, exit, reverted>>

-----------------------------------------------------------------------------
Steps == DOMAIN plan
Running == {i \in Steps : stage[i] \notin {"waiting", "settled"}}
Aborted == signalled # "never"

Places == {"resolving", "producing", "writing", "done"}
Stages == {"waiting", "importing", "reading", "probing", "executing", "checking", "settled"}
OutputStates == {"complete", "incomplete", "not-provided", "failed"}
Exits == {"none", "complete", "incomplete", "cancelled", "failed"}

NoOutput == [state |-> "none", evidence |-> {}]
Failed == [state |-> "failed", evidence |-> {}]

\* The stage in which a producer starts.
FirstStage(p) ==
    CASE p = "native" -> "reading"
      [] p = "trivy" -> "probing"
      [] OTHER -> "importing"

\* Target and every producer complete, and none with a limitation.
Complete == targetOk /\ \A i \in Steps : output[i].state = "complete"

Init ==
    /\ tree \in Trees
    /\ edits = 0
    /\ published = None
    /\ pc = "resolving"
    /\ plan \in Plans
    /\ signalled = "never"
    /\ subject = None
    /\ targetOk = FALSE
    /\ next = 1
    /\ free = 0
    /\ stage = [i \in DOMAIN plan |-> "waiting"]
    /\ limited = [i \in DOMAIN plan |-> FALSE]
    /\ seen = [i \in DOMAIN plan |-> {}]
    /\ output = [i \in DOMAIN plan |-> NoOutput]
    /\ exit = "none"
    /\ reverted = FALSE

-----------------------------------------------------------------------------
(* Ends of a command.                                                      *)

End(result) ==
    /\ pc' = "done"
    /\ exit' = result

\* The pipeline rejects; producers under way run on, but nobody reads their result.
Cancel == End("cancelled") /\ UNCHANGED <<tree, edits, published, plan, signalled, target, work, reverted>>

\* An error of the command: a cancelled one reports the cancellation.
EndInError == End(IF Aborted THEN "cancelled" ELSE "failed")

-----------------------------------------------------------------------------
(* Resolving the target.                                                   *)

Resolve ==
    /\ pc = "resolving"
    /\ ~Aborted
    /\ subject' = tree
    /\ \E ok \in BOOLEAN : targetOk' = ok
    /\ free' = IF Concurrency < Len(plan) THEN Concurrency ELSE Len(plan)
    /\ pc' = "producing"
    /\ UNCHANGED <<tree, edits, published, plan, signalled, next, stage, limited, seen, output, exit, reverted>>

\* The directory is not there.
ResolveFails ==
    /\ pc = "resolving"
    /\ EndInError
    /\ UNCHANGED <<tree, edits, published, plan, signalled, target, work, reverted>>

-----------------------------------------------------------------------------
(* Workers.  A worker takes the next index, runs that producer and comes   *)
(* back; it returns when no index is left.                                 *)

Take ==
    /\ pc = "producing"
    /\ free > 0
    /\ ~Aborted
    /\ next <= Len(plan)
    /\ next' = next + 1
    /\ free' = free - 1
    /\ stage' = [stage EXCEPT ![next] = FirstStage(plan[next])]
    /\ UNCHANGED <<tree, edits, published, pc, plan, signalled, target, limited, seen, output, exit, reverted>>

WorkerReturns ==
    /\ pc = "producing"
    /\ free > 0
    /\ ~Aborted
    /\ next > Len(plan)
    /\ free' = free - 1
    /\ UNCHANGED <<tree, edits, published, pc, plan, signalled, target, next, stage, limited, seen, output, exit, reverted>>

\* The producer's promise settles and its worker comes back.
Settle(i, result) ==
    /\ output' = [output EXCEPT ![i] = result]
    /\ stage' = [stage EXCEPT ![i] = "settled"]
    /\ free' = free + 1

At(i, place) == pc = "producing" /\ i \in Steps /\ stage[i] = place

-----------------------------------------------------------------------------
(* Producers.                                                              *)

\* Imports are parsed without an await.  None of the formats binds the target
\* well enough to be complete; evidence that was not supplied is not-provided.
Import(i) ==
    /\ At(i, "importing")
    /\ \E s \in {"incomplete", "not-provided"} :
          /\ Settle(i, [state |-> s, evidence |-> {}])
          /\ limited' = [limited EXCEPT ![i] = TRUE]
    /\ UNCHANGED <<tree, edits, published, pc, plan, signalled, target, next, seen, exit, reverted>>

\* The scan walks the project and its detectors read it again; the container reads the mount.
Read(i) ==
    /\ At(i, "reading") \/ At(i, "executing")
    /\ seen' = [seen EXCEPT ![i] = @ \union {tree}]
    /\ UNCHANGED <<tree, edits, published, pc, plan, signalled, target, next, free, stage, limited, output, exit, reverted>>

\* The health of the engine: an unhealthy one ends the producer without a run.
Probe(i) ==
    /\ At(i, "probing")
    /\ ~Aborted
    /\ \/ /\ stage' = [stage EXCEPT ![i] = "executing"]
          /\ UNCHANGED <<free, limited, output>>
       \/ /\ Settle(i, [state |-> "incomplete", evidence |-> {}])
          /\ limited' = [limited EXCEPT ![i] = TRUE]
    /\ UNCHANGED <<tree, edits, published, pc, plan, signalled, target, next, seen, exit, reverted>>

\* The scan or the engine is done, perhaps with limitations of its own; the target is resolved again.
Produced(i) ==
    /\ At(i, "reading") \/ At(i, "executing")
    /\ seen[i] # {}
    /\ ~Aborted
    /\ stage' = [stage EXCEPT ![i] = "checking"]
    /\ \E l \in BOOLEAN : limited' = [limited EXCEPT ![i] = l]
    /\ UNCHANGED <<tree, edits, published, pc, plan, signalled, target, next, free, seen, output, exit, reverted>>

\* Mutant: the observations of the engine are kept when the target changed.
ResultKept(p, limits, read, changed) ==
    [state |-> IF limits \/ changed THEN "incomplete" ELSE "complete",
     evidence |-> read]

\* What a producer reports after the second resolution.  The scan keeps what it
\* observed and adds a limitation; the observations of the engine are discarded.
Result(p, limits, read, changed) ==
    [state |-> IF limits \/ changed THEN "incomplete" ELSE "complete",
     evidence |-> IF p = "trivy" /\ changed THEN {} ELSE read]

CheckTarget(i) ==
    /\ At(i, "checking")
    /\ \E ok \in BOOLEAN :
          LET changed == tree # subject \/ ~ok IN
          /\ Settle(i, Result(plan[i], limited[i], seen[i], changed))
          /\ limited' = [limited EXCEPT ![i] = @ \/ changed]
    /\ UNCHANGED <<tree, edits, published, pc, plan, signalled, target, next, seen, exit, reverted>>

\* Anything a producer throws is recorded as a failed producer, unless the command was cancelled.
ProducerFails(i) ==
    /\ pc = "producing" /\ i \in Running
    /\ ~Aborted
    /\ Settle(i, Failed)
    /\ limited' = [limited EXCEPT ![i] = TRUE]
    /\ UNCHANGED <<tree, edits, published, pc, plan, signalled, target, next, seen, exit, reverted>>

\* Mutant: a cancellation is only noticed by a producer that is running.
NoticeInProducers ==
    /\ Aborted
    /\ pc = "producing" /\ \E i \in Running : stage[i] \notin {"importing", "checking"}
    /\ Cancel

\* A worker, a producer or the pipeline itself notices the cancellation.
Notice ==
    /\ Aborted
    /\ \/ pc = "resolving"
       \/ pc = "producing" /\ (free > 0 \/ Running = {})
       \/ pc = "producing" /\ \E i \in Running : stage[i] \notin {"importing", "checking"}
    /\ Cancel

-----------------------------------------------------------------------------
(* The snapshot.                                                           *)

\* Mutant: the pipeline does not look for a cancellation after its producers.
AssembleAnyway ==
    /\ pc = "producing"
    /\ free = 0
    /\ Running = {}
    /\ pc' = "writing"
    /\ UNCHANGED <<tree, edits, published, plan, signalled, target, work, exit, reverted>>

Assemble ==
    /\ pc = "producing"
    /\ free = 0
    /\ Running = {}
    /\ ~Aborted
    /\ pc' = "writing"
    /\ UNCHANGED <<tree, edits, published, plan, signalled, target, work, exit, reverted>>

Snapshot ==
    [subject |-> subject, complete |-> Complete,
     evidence |-> [i \in Steps |-> output[i].evidence]]

\* The temporary file is linked to the output path, which fails if that exists.
Publish ==
    /\ pc = "writing"
    /\ published = None
    /\ published' = Snapshot
    /\ End(IF Complete THEN "complete" ELSE "incomplete")
    /\ UNCHANGED <<tree, edits, plan, signalled, target, work, reverted>>

\* The path is taken, the snapshot is too large, or the write fails.
PublishFails ==
    /\ pc = "writing"
    /\ EndInError
    /\ UNCHANGED <<tree, edits, published, plan, signalled, target, work, reverted>>

-----------------------------------------------------------------------------
(* Signals and the rest of the world.                                      *)

\* SIGINT or SIGTERM; the handler is installed once, a second signal kills the process.
Signal ==
    /\ pc # "done"
    /\ ~Aborted
    /\ signalled' = pc
    /\ UNCHANGED <<tree, edits, published, pc, plan, target, work, exit, reverted>>

\* Another inspection publishes at the same path; all that it shares with this one is
\* that path and the tree.
OtherPublishes ==
    /\ published = None
    /\ published' = Theirs
    /\ UNCHANGED <<tree, edits, pc, plan, signalled, target, work, exit, reverted>>

Edit ==
    /\ edits < MaxEdits
    /\ edits' = edits + 1
    /\ \E t \in Trees \ {tree} :
          /\ tree' = t
          /\ reverted' = (reverted \/ (pc = "producing" /\ subject = t))
    /\ UNCHANGED <<published, pc, plan, signalled, target, work, exit>>

-----------------------------------------------------------------------------
Produce == \E i \in Steps :
    Import(i) \/ Read(i) \/ Probe(i) \/ Produced(i) \/ CheckTarget(i) \/ ProducerFails(i)

\* The steps the command takes by itself.
Step ==
    \/ Resolve \/ ResolveFails
    \/ Take \/ WorkerReturns \/ Produce \/ Notice
    \/ Assemble \/ Publish \/ PublishFails

Next == Step \/ Signal \/ OtherPublishes \/ Edit

Spec == Init /\ [][Next]_vars

\* The process is not killed and every producer ends: the scan reads a finite tree, the
\* probes and the container have timers (5 s and 30 s), and file operations return.
FairSpec == Spec /\ WF_vars(Step)

-----------------------------------------------------------------------------
(* Properties.                                                             *)

\* Every variable keeps its type.
TypeOK ==
    /\ tree \in Trees
    /\ edits \in 0..MaxEdits
    /\ pc \in Places
    /\ plan \in Plans
    /\ signalled \in {"never", "resolving", "producing", "writing"}
    /\ subject \in Trees \union {None}
    /\ targetOk \in BOOLEAN
    /\ exit \in Exits
    /\ reverted \in BOOLEAN
    /\ next \in 1..(Len(plan) + 1)
    /\ free \in 0..Concurrency
    /\ stage \in [Steps -> Stages]
    /\ limited \in [Steps -> BOOLEAN]
    /\ seen \in [Steps -> SUBSET Trees]
    /\ output \in [Steps -> [state : OutputStates \union {"none"}, evidence : SUBSET Trees]]
    /\ published \in {None, Theirs} \/ published = Snapshot

\* A snapshot that calls itself complete rests on producers each of which read the
\* tree of the subject it names and no other, although the target is only looked at
\* before and after; and what the engine contributes was observed in that tree even
\* when coverage is incomplete.  Both end where the tree left the subject and came
\* back while producers ran, which no second look can tell.
\* (inspection-pipeline.ts:303, :393, :422)
EvidenceBelongs ==
    exit \in {"complete", "incomplete"} /\ ~reverted =>
        /\ exit = "complete" => \A i \in Steps : seen[i] \in {{}, {subject}}
        /\ \A i \in Steps : plan[i] = "trivy" => output[i].evidence \subseteq {subject}

\* When the snapshot is assembled every selected producer has settled with a result
\* of its own run, whatever the order in which the workers took and ended them.
\* (inspection-pipeline.ts:275, :417)
EveryProducerReports ==
    pc = "writing" => \A i \in Steps : stage[i] = "settled" /\ output[i].state # "none"

\* A command cancelled before its producers were done neither publishes a snapshot nor
\* ends as anything but cancelled; one that says it was cancelled has published none.
\* (inspection-pipeline.ts:414, inspection-command.ts:129)
CancelledPublishesNothing ==
    /\ signalled \in {"resolving", "producing"} => exit \in {"none", "cancelled"}
    /\ exit = "cancelled" \/ signalled \in {"resolving", "producing"} => published \in {None, Theirs}

\* A file at the output path is never replaced: of several inspections that publish
\* there the first wins and the others end in an error.
\* (inspection-command.ts:54)
SnapshotNeverReplaced == [][published # None => published' = published]_vars

\* Every inspection ends, cancelled or not, however its workers share the producers.
\* (inspection-pipeline.ts:275)
EveryInspectionEnds == <>(pc = "done")
=============================================================================
