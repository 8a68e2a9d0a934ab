-------------------------- MODULE InspectionProofs --------------------------
(* Theorems about Inspection, for every instance of its constants. *)
EXTENDS Inspection, TLAPS

(* A plan is a sequence: its steps are the indices up to its length.       *)
LEMMA PlanSteps ==
  ASSUME plan \in Plans
  PROVE  Len(plan) \in Nat \ {0} /\ Steps = 1..Len(plan)
BY PlansAssumption DEF Steps

(* The stage a producer starts in is one of those.                         *)
LEMMA FirstStageType ==
  ASSUME NEW p
  PROVE  FirstStage(p) \in {"reading", "probing", "importing"}
BY DEF FirstStage

(* The types alone, without the relation of the published file to the state. *)
Typed ==
    /\ tree \in Trees
    /\ edits \in 0..MaxEdits
    /\ pc \in Places
    /\ plan \in Plans
    /\ signalled \in {"never", "resolving", "producing", "writing"}
    /\ subject \in Trees \union {None}
    /\ exit \in Exits
    /\ reverted \in BOOLEAN
    /\ next \in 1..(Len(plan) + 1)
    /\ free \in Nat
    /\ stage \in [Steps -> Stages]
    /\ seen \in [Steps -> SUBSET Trees]
    /\ output \in [Steps -> [state : OutputStates \union {"none"}, evidence : SUBSET Trees]]

(* The stages of the command determine whether it has a result.            *)
Phases ==
    /\ pc = "done" <=> exit # "none"
    /\ pc = "resolving" => subject = None /\ \A i \in Steps : stage[i] = "waiting"
    /\ pc # "done" => published \in {None, Theirs}
    /\ exit = "complete" => \A i \in Steps : output[i].state = "complete"

(* Producers wait from the next index on, and below it no more.            *)
InOrder == \A i \in Steps : stage[i] = "waiting" <=> i >= next

(* Producers that have settled, and no others, have an output.             *)
OutputsSettle ==
    \A i \in Steps : IF stage[i] = "settled" THEN output[i].state # "none" ELSE output[i] = NoOutput

(* As long as the tree has not come back to the subject, producers in a    *)
(* tree that is still the subject have seen nothing else.                  *)
SeenHere ==
    ~reverted /\ pc = "producing" /\ tree = subject => \A i \in Steps : seen[i] \subseteq {subject}

(* Nothing was read before there was a subject.                            *)
UnreadBefore ==
    pc = "resolving" => \A i \in Steps : seen[i] = {}

(* What settled as complete, or as evidence of the engine, was read in the *)
(* subject, by the second look at the target.                              *)
OutputsBelong ==
    ~reverted => \A i \in Steps :
        /\ output[i].state = "complete" => seen[i] \subseteq {subject}
        /\ plan[i] = "trivy" => output[i].evidence \subseteq {subject}

BelongsInv == Typed /\ Phases /\ InOrder /\ OutputsSettle /\ SeenHere /\ UnreadBefore /\ OutputsBelong

LEMMA TypedInit == Init => Typed
<1> SUFFICES ASSUME Init PROVE Typed
  OBVIOUS
<1>1. Len(plan) \in Nat \ {0}
  BY PlanSteps DEF Init
<1>2. NoOutput \in [state : OutputStates \union {"none"}, evidence : SUBSET Trees]
  BY DEF NoOutput
<1>3. 1 \in 1..(Len(plan) + 1)
  BY <1>1
<1>4. stage \in [Steps -> Stages] /\ seen \in [Steps -> SUBSET Trees]
  BY DEF Init, Steps, Stages
<1>5. output \in [Steps -> [state : OutputStates \union {"none"}, evidence : SUBSET Trees]]
  BY <1>2 DEF Init, Steps
<1>6. edits \in 0..MaxEdits /\ next \in 1..(Len(plan) + 1)
  BY <1>3, MaxEditsAssumption DEF Init
<1>9. free \in Nat
  BY DEF Init
<1>7. reverted \in BOOLEAN
  BY DEF Init
<1>8. /\ tree \in Trees /\ pc \in Places /\ plan \in Plans /\ exit \in Exits /\ subject \in Trees \union {None}
      /\ signalled \in {"never", "resolving", "producing", "writing"}
  BY DEF Init, Places, Exits
<1> QED
  BY <1>4, <1>5, <1>6, <1>7, <1>8, <1>9 DEF Typed

(* What the second look at the target makes of a producer is well typed.   *)
LEMMA ResultType ==
  ASSUME NEW p, NEW limits, NEW read \in SUBSET Trees, NEW changed
  PROVE  Result(p, limits, read, changed) \in [state : OutputStates, evidence : SUBSET Trees]
BY DEF Result, OutputStates

(* Every way in which a producer settles keeps the types.                  *)
LEMMA SettleType ==
  ASSUME Typed, NEW i \in Steps, NEW r \in [state : OutputStates, evidence : SUBSET Trees],
         Settle(i, r)
  PROVE  /\ stage' \in [Steps -> Stages]
         /\ output' \in [Steps -> [state : OutputStates \union {"none"}, evidence : SUBSET Trees]]
<1>1. r \in [state : OutputStates \union {"none"}, evidence : SUBSET Trees]
  OBVIOUS
<1>2. output' = [output EXCEPT ![i] = r] /\ stage' = [stage EXCEPT ![i] = "settled"]
  BY DEF Settle
<1>3. stage' \in [Steps -> Stages]
  BY <1>2 DEF Typed, Stages
<1>4. output' \in [Steps -> [state : OutputStates \union {"none"}, evidence : SUBSET Trees]]
  BY <1>1, <1>2 DEF Typed
<1> QED
  BY <1>3, <1>4

(* The producer's steps that settle it, with the result they settle with.  *)
LEMMA Settling ==
  ASSUME Typed, NEW i \in Steps,
         \/ Import(i)
         \/ Probe(i) /\ stage'[i] # "executing"
         \/ CheckTarget(i)
         \/ ProducerFails(i)
  PROVE  /\ pc = "producing" /\ stage[i] \notin {"waiting", "settled"}
         /\ \E r \in [state : OutputStates, evidence : SUBSET Trees] :
               /\ Settle(i, r)
               /\ \/ r.state # "complete" /\ r.evidence = {}
                  \/ /\ stage[i] = "checking"
                     /\ \E changed \in BOOLEAN :
                           /\ tree # subject => changed
                           /\ r = Result(plan[i], limited[i], seen[i], changed)
<1>1. CASE Import(i)
  <2>1. PICK s \in {"incomplete", "not-provided"} : Settle(i, [state |-> s, evidence |-> {}])
    BY <1>1 DEF Import
  <2>2. [state |-> s, evidence |-> {}] \in [state : OutputStates, evidence : SUBSET Trees]
    BY DEF OutputStates
  <2> QED
    BY <1>1, <2>1, <2>2 DEF Import, At
<1>2. CASE Probe(i) /\ stage'[i] # "executing"
  <2>1. stage' # [stage EXCEPT ![i] = "executing"]
    BY <1>2 DEF Typed
  <2>2. Settle(i, [state |-> "incomplete", evidence |-> {}])
    BY <1>2, <2>1 DEF Probe
  <2>3. [state |-> "incomplete", evidence |-> {}] \in [state : OutputStates, evidence : SUBSET Trees]
    BY DEF OutputStates
  <2> QED
    BY <1>2, <2>2, <2>3 DEF Probe, At
<1>3. CASE CheckTarget(i)
  <2>1. PICK ok \in BOOLEAN : Settle(i, Result(plan[i], limited[i], seen[i], tree # subject \/ ~ok))
    BY <1>3 DEF CheckTarget
  <2>2. Result(plan[i], limited[i], seen[i], tree # subject \/ ~ok) \in [state : OutputStates, evidence : SUBSET Trees]
    BY ResultType DEF Typed
  <2>3. (tree # subject \/ ~ok) \in BOOLEAN
    OBVIOUS
  <2>4. stage[i] = "checking" /\ pc = "producing"
    BY <1>3 DEF CheckTarget, At
  <2> QED
    BY <2>1, <2>2, <2>3, <2>4
<1>4. CASE ProducerFails(i)
  <2>1. Settle(i, Failed) /\ pc = "producing" /\ i \in Running
    BY <1>4 DEF ProducerFails
  <2>2. Failed \in [state : OutputStates, evidence : SUBSET Trees] /\ Failed.state # "complete" /\ Failed.evidence = {}
    BY DEF Failed, OutputStates
  <2> QED
    BY <2>1, <2>2 DEF Running
<1> QED
  BY <1>1, <1>2, <1>3, <1>4

(* The steps of the system, one by one.                                    *)
LEMMA StepCases ==
  ASSUME [Next]_vars
  PROVE  \/ Resolve \/ Take \/ WorkerReturns \/ Notice \/ ResolveFails \/ PublishFails
         \/ Assemble \/ Publish \/ Signal \/ OtherPublishes \/ Edit
         \/ \E i \in Steps : Read(i) \/ Produced(i)
         \/ \E i \in Steps : Probe(i) /\ stage'[i] = "executing"
         \/ \E i \in Steps : Import(i) \/ (Probe(i) /\ stage'[i] # "executing") \/ CheckTarget(i) \/ ProducerFails(i)
         \/ UNCHANGED vars
<1>1. CASE Produce
  <2>1. PICK i \in Steps : Import(i) \/ Read(i) \/ Probe(i) \/ Produced(i) \/ CheckTarget(i) \/ ProducerFails(i)
    BY <1>1 DEF Produce
  <2> QED
    BY <2>1
<1> QED
  BY <1>1 DEF Next, Step

(* What a step that settles a producer leaves alone.                       *)
LEMMA SettlingFrame ==
  ASSUME NEW i \in Steps,
         Import(i) \/ Probe(i) \/ CheckTarget(i) \/ ProducerFails(i)
  PROVE  UNCHANGED <<tree, edits, published, pc, plan, signalled, subject, next, seen, exit, reverted>>
BY DEF Import, Probe, CheckTarget, ProducerFails, target

LEMMA TypedNext == Typed /\ [Next]_vars => Typed'
<1> SUFFICES ASSUME Typed, [Next]_vars PROVE Typed'
  OBVIOUS
<1>0. Len(plan) \in Nat \ {0} /\ Steps = 1..Len(plan)
  BY PlanSteps DEF Typed
<1>1. CASE Resolve
  <2>1. free' \in Nat
    BY <1>0, <1>1, ConcurrencyAssumption DEF Resolve
  <2>2. subject' \in Trees \union {None} /\ pc' \in Places
    BY <1>1 DEF Resolve, Typed, Places
  <2> QED
    BY <1>1, <2>1, <2>2 DEF Resolve, Typed, Steps
<1>2. CASE Take
  <2>1. next \in Steps /\ next' \in 1..(Len(plan) + 1)
    BY <1>0, <1>2 DEF Take, Typed
  <2>2. FirstStage(plan[next]) \in Stages
    BY FirstStageType DEF Stages
  <2>3. stage' \in [Steps -> Stages]
    BY <1>2, <2>1, <2>2 DEF Take, Typed
  <2> QED
    BY <1>2, <2>1, <2>3 DEF Take, Typed, target, Steps
<1>3. CASE WorkerReturns
  BY <1>3 DEF WorkerReturns, Typed, target, Steps
<1>4. CASE Notice \/ ResolveFails \/ PublishFails
  <2>1. pc' \in Places /\ exit' \in Exits
    BY <1>4 DEF Notice, Cancel, ResolveFails, PublishFails, EndInError, End, Places, Exits
  <2> QED
    BY <1>4, <2>1 DEF Notice, Cancel, ResolveFails, PublishFails, Typed, target, work, Steps
<1>5. CASE Assemble
  BY <1>5 DEF Assemble, Typed, target, work, Places, Steps
<1>6. CASE Publish
  BY <1>6 DEF Publish, End, Typed, target, work, Places, Exits, Steps
<1>7. CASE Signal
  <2>1. signalled' \in {"never", "resolving", "producing", "writing"}
    BY <1>7 DEF Signal, Typed, Places
  <2> QED
    BY <1>7, <2>1 DEF Signal, Typed, target, work, Steps
<1>8. CASE OtherPublishes
  BY <1>8 DEF OtherPublishes, Typed, target, work, Steps
<1>9. CASE Edit
  <2>1. edits' \in 0..MaxEdits /\ tree' \in Trees
    BY <1>9, MaxEditsAssumption DEF Edit, Typed
  <2>2. reverted' \in BOOLEAN
    BY <1>9 DEF Edit
  <2> QED
    BY <1>9, <2>1, <2>2 DEF Edit, Typed, target, work, Steps
<1>10. ASSUME NEW i \in Steps, Read(i) \/ Produced(i) PROVE Typed'
  <2>1. stage' \in [Steps -> Stages]
    BY <1>10 DEF Read, Produced, Typed, Stages
  <2>2. seen' \in [Steps -> SUBSET Trees]
    <3>1. CASE Read(i)
      BY <3>1 DEF Read, Typed
    <3>2. CASE Produced(i)
      BY <3>2 DEF Produced, Typed
    <3> QED
      BY <1>10, <3>1, <3>2
  <2> QED
    BY <1>10, <2>1, <2>2 DEF Read, Produced, Typed, target, Steps
<1>11. ASSUME NEW i \in Steps, Probe(i), stage'[i] = "executing" PROVE Typed'
  <2>1. stage' = [stage EXCEPT ![i] = "executing"] /\ UNCHANGED <<free, limited, output>>
    <3>1. SUFFICES ASSUME Settle(i, [state |-> "incomplete", evidence |-> {}]) PROVE FALSE
      BY <1>11 DEF Probe
    <3>2. stage'[i] = "settled"
      BY <3>1 DEF Settle, Typed
    <3> QED
      BY <1>11, <3>2
  <2>2. stage' \in [Steps -> Stages]
    BY <2>1 DEF Typed, Stages
  <2> QED
    BY <1>11, <2>1, <2>2, SettlingFrame DEF Typed, Steps
<1>12. ASSUME NEW i \in Steps,
              Import(i) \/ (Probe(i) /\ stage'[i] # "executing") \/ CheckTarget(i) \/ ProducerFails(i)
       PROVE  Typed'
  <2>1. PICK r \in [state : OutputStates, evidence : SUBSET Trees] : Settle(i, r)
    BY <1>12, Settling
  <2>2. /\ stage' \in [Steps -> Stages]
        /\ output' \in [Steps -> [state : OutputStates \union {"none"}, evidence : SUBSET Trees]]
    BY <2>1, SettleType
  <2>3. free' \in Nat
    BY <2>1 DEF Settle, Typed
  <2> QED
    BY <1>12, <2>2, <2>3, SettlingFrame DEF Typed, Steps
<1>13. CASE UNCHANGED vars
  BY <1>13 DEF vars, target, work, Typed, Steps
<1> QED
  BY <1>1, <1>2, <1>3, <1>4, <1>5, <1>6, <1>7, <1>8, <1>9, <1>10, <1>11, <1>12, <1>13, StepCases

(* Settling a producer changes the stage and the output of that one alone. *)
LEMMA SettlePoint ==
  ASSUME Typed, NEW i \in Steps, NEW r, Settle(i, r)
  PROVE  \A j \in Steps : /\ stage'[j] = IF j = i THEN "settled" ELSE stage[j]
                          /\ output'[j] = IF j = i THEN r ELSE output[j]
BY DEF Settle, Typed

LEMMA BelongsInit == Init => BelongsInv
<1> SUFFICES ASSUME Init PROVE BelongsInv
  OBVIOUS
<1>1. Typed
  BY TypedInit
<1>2. /\ pc = "resolving" /\ exit = "none" /\ published = None /\ subject = None /\ next = 1
      /\ \A i \in Steps : stage[i] = "waiting" /\ seen[i] = {} /\ output[i] = NoOutput
  BY DEF Init, Steps
<1>3. NoOutput.state = "none" /\ NoOutput.evidence = {}
  BY DEF NoOutput
<1>4. \A i \in Steps : i >= 1
  BY <1>1, PlanSteps DEF Typed
<1> QED
  BY <1>1, <1>2, <1>3, <1>4 DEF BelongsInv, Phases, InOrder, OutputsSettle, SeenHere, UnreadBefore, OutputsBelong

LEMMA BelongsNext == BelongsInv /\ [Next]_vars => BelongsInv'
<1> SUFFICES ASSUME BelongsInv, [Next]_vars PROVE BelongsInv'
  OBVIOUS
<1>0. Typed /\ Typed'
  BY TypedNext DEF BelongsInv
<1> DEFINE Rest == Phases /\ InOrder /\ OutputsSettle /\ SeenHere /\ UnreadBefore /\ OutputsBelong
<1>a. Rest
  BY DEF BelongsInv
<1>b. SUFFICES Rest'
  BY <1>0 DEF BelongsInv
<1>c. /\ Len(plan) \in Nat \ {0} /\ Steps = 1..Len(plan) /\ next \in Nat \ {0}
  BY <1>0, PlanSteps DEF Typed
<1>d. plan' = plan /\ Steps' = Steps
  BY <1>0, StepCases, SettlingFrame
  DEF Steps, Resolve, Take, WorkerReturns, Notice, Cancel, ResolveFails, PublishFails, Assemble,
      Publish, Signal, OtherPublishes, Edit, Read, Produced, vars
<1> USE DEF Phases, InOrder, OutputsSettle, SeenHere, UnreadBefore, OutputsBelong
<1>1. CASE Resolve
  <2>1. \A i \in Steps : seen[i] = {} /\ output[i] = NoOutput /\ NoOutput.state = "none" /\ NoOutput.evidence = {}
    BY <1>1, <1>a DEF Resolve, NoOutput
  <2>2. /\ pc = "resolving" /\ pc' = "producing" /\ subject' = tree
        /\ UNCHANGED <<tree, published, next, stage, seen, output, exit, reverted>>
    BY <1>1 DEF Resolve
  <2>3. exit = "none"
    BY <1>a, <2>2
  <2>4. Phases' /\ InOrder' /\ OutputsSettle'
    BY <1>a, <1>d, <2>2, <2>3
  <2>5. SeenHere' /\ UnreadBefore' /\ OutputsBelong'
    BY <1>d, <2>1, <2>2
  <2> QED
    BY <2>4, <2>5
<1>2. CASE Take
  <2>1. next \in Steps /\ FirstStage(plan[next]) \notin {"settled", "waiting"}
    BY <1>c, <1>2, FirstStageType DEF Take
  <2>2. \A i \in Steps : stage'[i] = IF i = next THEN FirstStage(plan[next]) ELSE stage[i]
    BY <1>0, <1>2 DEF Take, Typed
  <2>3. next' = next + 1 /\ pc = "producing" /\ UNCHANGED <<tree, published, pc, subject, seen, output, exit, reverted>>
    BY <1>2 DEF Take, target
  <2>4. InOrder'
    BY <1>a, <1>c, <1>d, <2>1, <2>2, <2>3
  <2>5. OutputsSettle'
    BY <1>a, <1>c, <1>d, <2>1, <2>2, <2>3
  <2> QED
    BY <2>3, <2>4, <2>5, <1>a, <1>d
<1>3. CASE WorkerReturns
  BY <1>3, <1>a, <1>d DEF WorkerReturns, target
<1>4. CASE Notice \/ ResolveFails \/ PublishFails
  <2>1. pc # "done" /\ pc' = "done" /\ exit' # "none"
    BY <1>4 DEF Notice, Cancel, ResolveFails, PublishFails, EndInError, End
  <2>3. exit' # "complete"
    BY <1>4 DEF Notice, Cancel, ResolveFails, PublishFails, EndInError, End
  <2>2. UNCHANGED <<tree, published, subject, next, stage, seen, output, reverted>>
    BY <1>4 DEF Notice, Cancel, ResolveFails, PublishFails, target, work
  <2> QED
    BY <1>a, <1>d, <2>1, <2>2, <2>3
<1>5. CASE Assemble
  BY <1>5, <1>a, <1>d DEF Assemble, target, work
<1>6. CASE Publish
  <2>1. pc # "done" /\ pc' = "done" /\ exit' # "none"
    BY <1>6 DEF Publish, End
  <2>2. UNCHANGED <<tree, subject, next, stage, seen, output, reverted>>
    BY <1>6 DEF Publish, target, work
  <2>3. exit' = "complete" => \A i \in Steps : output[i].state = "complete"
    BY <1>6 DEF Publish, End, Complete
  <2> QED
    BY <1>a, <1>d, <2>1, <2>2, <2>3
<1>7. CASE Signal
  BY <1>7, <1>a, <1>d DEF Signal, target, work
<1>8. CASE OtherPublishes
  BY <1>8, <1>a, <1>d DEF OtherPublishes, target, work
<1>9. CASE Edit
  <2>1. UNCHANGED <<pc, published, subject, next, stage, seen, output, exit>> /\ tree' # tree
    BY <1>9 DEF Edit, target, work
  <2>2. ~reverted' => ~reverted /\ ~(pc = "producing" /\ subject = tree')
    BY <1>9 DEF Edit
  <2> QED
    BY <1>a, <1>d, <2>1, <2>2
<1>10. ASSUME NEW i \in Steps, Read(i) PROVE Rest'
  <2>1. /\ pc = "producing" /\ stage[i] \in {"reading", "executing"}
        /\ UNCHANGED <<tree, published, pc, subject, next, stage, output, exit, reverted>>
    BY <1>10 DEF Read, At, target
  <2>2. \A j \in Steps : seen'[j] = IF j = i THEN seen[j] \union {tree} ELSE seen[j]
    BY <1>0, <1>10 DEF Read, Typed
  <2>3. output[i] = NoOutput /\ NoOutput.state = "none"
    BY <1>a, <2>1 DEF NoOutput
  <2> QED
    BY <1>a, <1>d, <2>1, <2>2, <2>3
<1>11. ASSUME NEW i \in Steps, Produced(i) \/ (Probe(i) /\ stage'[i] = "executing") PROVE Rest'
  <2>1. /\ pc = "producing" /\ stage[i] \notin {"waiting", "settled"}
        /\ UNCHANGED <<tree, published, pc, subject, next, seen, output, exit, reverted>>
        /\ \E s \in {"checking", "executing"} : stage' = [stage EXCEPT ![i] = s]
    <3>1. CASE Produced(i)
      BY <3>1 DEF Produced, At, target
    <3>2. CASE Probe(i) /\ stage'[i] = "executing"
      <4>1. SUFFICES ASSUME Settle(i, [state |-> "incomplete", evidence |-> {}]) PROVE FALSE
        BY <3>2, SettlingFrame DEF Probe, At
      <4>2. stage'[i] = "settled"
        BY <4>1, <1>0 DEF Settle, Typed
      <4> QED
        BY <3>2, <4>2
    <3> QED
      BY <1>11, <3>1, <3>2
  <2>2. \A j \in Steps : IF j = i THEN stage'[j] \in {"checking", "executing"} ELSE stage'[j] = stage[j]
    BY <1>0, <2>1 DEF Typed
  <2> QED
    BY <1>a, <1>d, <2>1, <2>2
<1>12. ASSUME NEW i \in Steps,
              Import(i) \/ (Probe(i) /\ stage'[i] # "executing") \/ CheckTarget(i) \/ ProducerFails(i)
       PROVE  Rest'
  <2>0. /\ pc = "producing" /\ stage[i] \notin {"waiting", "settled"}
        /\ UNCHANGED <<tree, published, pc, plan, subject, next, seen, exit, reverted>>
    BY <1>0, <1>12, Settling, SettlingFrame
  <2>1. PICK r \in [state : OutputStates, evidence : SUBSET Trees] :
           /\ Settle(i, r)
           /\ \/ r.state # "complete" /\ r.evidence = {}
              \/ \E changed \in BOOLEAN :
                    /\ tree # subject => changed
                    /\ r = Result(plan[i], limited[i], seen[i], changed)
    BY <1>0, <1>12, Settling
  <2>2. \A j \in Steps : /\ stage'[j] = IF j = i THEN "settled" ELSE stage[j]
                         /\ output'[j] = IF j = i THEN r ELSE output[j]
    BY <1>0, <2>1, SettlePoint
  <2>3. r.state # "none"
    BY DEF OutputStates
  <2>4. InOrder' /\ OutputsSettle'
    BY <1>a, <1>d, <2>0, <2>2, <2>3
  <2>5. ASSUME ~reverted
        PROVE  /\ r.state = "complete" => seen[i] \subseteq {subject}
               /\ plan[i] = "trivy" => r.evidence \subseteq {subject}
    <3>1. CASE r.state # "complete" /\ r.evidence = {}
      BY <3>1
    <3>2. ASSUME NEW changed \in BOOLEAN, tree # subject => changed,
                 r = Result(plan[i], limited[i], seen[i], changed)
          PROVE  /\ r.state = "complete" => seen[i] \subseteq {subject}
                 /\ plan[i] = "trivy" => r.evidence \subseteq {subject}
      <4>1. CASE changed
        BY <3>2, <4>1 DEF Result
      <4>2. CASE ~changed
        <5>1. seen[i] \subseteq {subject}
          BY <1>a, <2>0, <2>5, <3>2, <4>2
        <5>2. plan[i] = "trivy" => r.evidence = seen[i]
          BY <3>2, <4>2 DEF Result
        <5> QED
          BY <5>1, <5>2
      <4> QED
        BY <4>1, <4>2
    <3> QED
      BY <2>1, <3>1, <3>2
  <2>6. OutputsBelong'
    BY <1>a, <1>d, <2>0, <2>2, <2>5
  <2> QED
    BY <1>a, <1>d, <2>0, <2>4, <2>6
<1>13. CASE UNCHANGED vars
  BY <1>13, <1>a, <1>d DEF vars, target, work
<1> QED
  BY <1>1, <1>2, <1>3, <1>4, <1>5, <1>6, <1>7, <1>8, <1>9, <1>10, <1>11, <1>12, <1>13, StepCases

(* As long as the tree does not return to the subject while producers run, *)
(* a complete snapshot rests on reads of its subject alone, and so does    *)
(* the evidence of the engine in any snapshot.                             *)
THEOREM EvidenceOfSubject == Spec => []EvidenceBelongs
<1>1. BelongsInv => EvidenceBelongs
  <2> SUFFICES ASSUME BelongsInv, exit \in {"complete", "incomplete"}, ~reverted
               PROVE  /\ exit = "complete" => \A i \in Steps : seen[i] \in {{}, {subject}}
                      /\ \A i \in Steps : plan[i] = "trivy" => output[i].evidence \subseteq {subject}
    BY DEF EvidenceBelongs
  <2> QED
    BY DEF BelongsInv, Phases, OutputsBelong
<1> QED
  BY BelongsInit, BelongsNext, <1>1, PTL DEF Spec

(* Workers that have all returned have left no index, and a snapshot is    *)
(* assembled with no producer running.                                     *)
WorkersDone ==
    /\ pc = "producing" /\ free = 0 /\ Running = {} => next > Len(plan)
    /\ pc = "writing" => next > Len(plan) /\ Running = {}

ReportsInv == BelongsInv /\ WorkersDone

(* Only these steps touch the workers or move the command.                 *)
LEMMA WorkersKept ==
  ASSUME BelongsInv, [Next]_vars
  PROVE  \/ pc' = "done"
         \/ pc' = "producing" /\ (free' > 0 \/ Running' # {})
         \/ WorkerReturns \/ Assemble
         \/ UNCHANGED <<pc, free, next, plan, stage>>
<1>0. Typed /\ Len(plan) \in Nat \ {0} /\ Steps = 1..Len(plan)
  BY PlanSteps DEF BelongsInv, Typed
<1>1. CASE Resolve
  BY <1>0, <1>1, ConcurrencyAssumption DEF Resolve
<1>2. CASE Take
  <2>1. next \in Steps /\ FirstStage(plan[next]) \notin {"settled", "waiting"}
    BY <1>0, <1>2, FirstStageType DEF Take, Typed
  <2>2. stage'[next] = FirstStage(plan[next])
    BY <1>0, <1>2, <2>1 DEF Take, Typed
  <2>3. next \in Running'
    BY <1>2, <2>1, <2>2 DEF Take, Running, Steps
  <2> QED
    BY <1>2, <2>3 DEF Take
<1>3. CASE Notice \/ ResolveFails \/ PublishFails \/ Publish
  BY <1>3 DEF Notice, Cancel, ResolveFails, PublishFails, Publish, EndInError, End
<1>4. CASE Signal \/ OtherPublishes \/ Edit \/ UNCHANGED vars
  BY <1>4 DEF Signal, OtherPublishes, Edit, vars, work
<1>5. ASSUME NEW i \in Steps, Read(i) PROVE UNCHANGED <<pc, free, next, plan, stage>>
  BY <1>5 DEF Read
<1>6. ASSUME NEW i \in Steps, Produced(i) \/ (Probe(i) /\ stage'[i] = "executing")
      PROVE  pc' = "producing" /\ Running' # {}
  <2>1. pc' = "producing" /\ plan' = plan
    BY <1>6 DEF Produced, Probe, At
  <2>2. stage'[i] \in {"checking", "executing"}
    BY <1>0, <1>6 DEF Produced, Typed
  <2> QED
    BY <2>1, <2>2 DEF Running, Steps
<1>7. ASSUME NEW i \in Steps,
             Import(i) \/ (Probe(i) /\ stage'[i] # "executing") \/ CheckTarget(i) \/ ProducerFails(i)
      PROVE  pc' = "producing" /\ free' > 0
  <2>1. PICK r : Settle(i, r)
    BY <1>0, <1>7, Settling
  <2>2. free' = free + 1 /\ free \in Nat
    BY <1>0, <2>1 DEF Settle, Typed
  <2> QED
    BY <1>0, <1>7, <2>2, Settling, SettlingFrame
<1> QED
  BY <1>1, <1>2, <1>3, <1>4, <1>5, <1>6, <1>7, StepCases

(* A snapshot is assembled only after every selected producer has settled  *)
(* with a result of its own run.                                           *)
THEOREM AllReported == Spec => []EveryProducerReports
<1>1. Init => ReportsInv
  BY BelongsInit DEF Init, ReportsInv, WorkersDone
<1>2. ReportsInv /\ [Next]_vars => ReportsInv'
  <2> SUFFICES ASSUME ReportsInv, [Next]_vars PROVE WorkersDone'
    BY BelongsNext DEF ReportsInv
  <2>0. Typed /\ Typed' /\ BelongsInv
    BY TypedNext DEF ReportsInv, BelongsInv
  <2>1. CASE pc' = "done"
    BY <2>1 DEF WorkersDone
  <2>2. CASE pc' = "producing" /\ (free' > 0 \/ Running' # {})
    BY <2>0, <2>2 DEF WorkersDone, Typed
  <2>3. CASE WorkerReturns
    BY <2>3 DEF WorkerReturns, WorkersDone
  <2>4. CASE Assemble
    BY <2>4 DEF ReportsInv, Assemble, WorkersDone, Running, Steps, work
  <2>5. CASE UNCHANGED <<pc, free, next, plan, stage>>
    BY <2>5 DEF ReportsInv, WorkersDone, Running, Steps
  <2> QED
    BY <2>0, <2>1, <2>2, <2>3, <2>4, <2>5, WorkersKept
<1>3. ReportsInv => EveryProducerReports
  <2> SUFFICES ASSUME ReportsInv, pc = "writing", NEW i \in Steps
               PROVE  stage[i] = "settled" /\ output[i].state # "none"
    BY DEF EveryProducerReports
  <2>1. Typed /\ Len(plan) \in Nat \ {0} /\ Steps = 1..Len(plan)
    BY PlanSteps DEF ReportsInv, BelongsInv, Typed
  <2>2. next > Len(plan) /\ i \notin Running
    BY DEF ReportsInv, WorkersDone
  <2>3. stage[i] # "waiting"
    BY <2>1, <2>2 DEF ReportsInv, BelongsInv, InOrder, Typed
  <2>4. stage[i] = "settled"
    BY <2>2, <2>3 DEF Running
  <2> QED
    BY <2>4 DEF ReportsInv, BelongsInv, OutputsSettle
<1> QED
  BY <1>1, <1>2, <1>3, PTL DEF Spec

(* What is known of a command that was cancelled: if it was before its     *)
(* producers were done, it never reaches the snapshot.                     *)
CancelInv ==
    /\ signalled \in {"resolving", "producing"} => pc # "writing"
    /\ signalled = "writing" => pc \in {"writing", "done"}
    /\ pc # "done" => exit = "none" /\ published \in {None, Theirs}
    /\ CancelledPublishesNothing

(* A command cancelled before its producers were done publishes nothing    *)
(* and ends as cancelled; one that says it was cancelled published nothing. *)
THEOREM NothingPublishedIfCancelled == Spec => []CancelledPublishesNothing
<1>1. Init => CancelInv
  BY DEF Init, CancelInv, CancelledPublishesNothing
<1>2. Typed /\ CancelInv /\ [Next]_vars => CancelInv'
  <2> SUFFICES ASSUME Typed, CancelInv, [Next]_vars PROVE CancelInv'
    OBVIOUS
  <2> USE DEF CancelInv, CancelledPublishesNothing
  <2>1. CASE Resolve
    BY <2>1 DEF Resolve, Aborted
  <2>2. CASE Take \/ WorkerReturns
    BY <2>2 DEF Take, WorkerReturns, target
  <2>3. CASE Notice
    BY <2>3 DEF Notice, Cancel, End, Aborted
  <2>4. CASE ResolveFails \/ PublishFails
    <3>1. pc \in {"resolving", "writing"} /\ pc' = "done" /\ UNCHANGED <<signalled, published>>
      BY <2>4 DEF ResolveFails, PublishFails, EndInError, End
    <3>2. IF signalled = "never" THEN exit' = "failed" ELSE exit' = "cancelled"
      BY <2>4 DEF ResolveFails, PublishFails, EndInError, End, Aborted
    <3> QED
      BY <3>1, <3>2
  <2>5. CASE Assemble
    BY <2>5 DEF Assemble, Aborted
  <2>6. CASE Publish
    <3>1. pc = "writing" /\ pc' = "done" /\ signalled' = signalled /\ exit' \in {"complete", "incomplete"}
      BY <2>6 DEF Publish, End
    <3> QED
      BY <3>1
  <2>7. CASE Signal
    BY <2>7 DEF Signal, Typed, Places
  <2>8. CASE OtherPublishes
    BY <2>8 DEF OtherPublishes
  <2>9. CASE Edit \/ UNCHANGED vars
    BY <2>9 DEF Edit, vars
  <2>10. ASSUME NEW i \in Steps, Read(i) \/ Produced(i) PROVE CancelInv'
    BY <2>10 DEF Read, Produced
  <2>11. ASSUME NEW i \in Steps, Import(i) \/ Probe(i) \/ CheckTarget(i) \/ ProducerFails(i)
         PROVE  CancelInv'
    BY <2>11, SettlingFrame
  <2> QED
    BY <2>1, <2>2, <2>3, <2>4, <2>5, <2>6, <2>7, <2>8, <2>9, <2>10, <2>11, StepCases
<1>3. CancelInv => CancelledPublishesNothing
  BY DEF CancelInv
<1> QED
  BY <1>1, <1>2, <1>3, TypedInit, TypedNext, PTL DEF Spec

-----------------------------------------------------------------------------
(* A tree nobody edits while producers run.                                *)

Quiet ==
    /\ pc = "producing" => tree = subject
    /\ \A i \in Steps : seen[i] \union output[i].evidence \subseteq {subject}

(* A producer that settles has no evidence it did not read.                *)
LEMMA EvidenceWasRead ==
  ASSUME Typed, Quiet, NEW i \in Steps,
         Import(i) \/ (Probe(i) /\ stage'[i] # "executing") \/ CheckTarget(i) \/ ProducerFails(i)
  PROVE  \A j \in Steps : output'[j].evidence \subseteq {subject}
<1>1. PICK r \in [state : OutputStates, evidence : SUBSET Trees] :
         /\ Settle(i, r)
         /\ \/ r.state # "complete" /\ r.evidence = {}
            \/ \E changed \in BOOLEAN : r = Result(plan[i], limited[i], seen[i], changed)
  BY Settling
<1>2. r.evidence \subseteq {subject}
  BY <1>1 DEF Result, Quiet
<1>3. \A j \in Steps : output'[j] = IF j = i THEN r ELSE output[j]
  BY <1>1, SettlePoint
<1> QED
  BY <1>2, <1>3 DEF Quiet

LEMMA QuietKept ==
  ASSUME BelongsInv, Quiet, [Next]_vars, pc = "producing" => tree' = tree
  PROVE  Quiet'
<1>0. Typed /\ SeenHere /\ UnreadBefore /\ OutputsSettle /\ Phases
  BY DEF BelongsInv
<1>1. Steps' = Steps
  BY <1>0, StepCases, SettlingFrame
  DEF Steps, Resolve, Take, WorkerReturns, Notice, Cancel, ResolveFails, PublishFails, Assemble,
      Publish, Signal, OtherPublishes, Edit, Read, Produced, vars
<1>2. CASE Resolve
  <2>1. \A i \in Steps : seen[i] = {} /\ output[i].evidence = {}
    BY <1>0, <1>2 DEF Resolve, UnreadBefore, Phases, OutputsSettle, NoOutput
  <2>2. subject' = tree /\ UNCHANGED <<tree, seen, output>>
    BY <1>2 DEF Resolve
  <2> QED
    BY <1>1, <2>1, <2>2 DEF Quiet
<1>3. ASSUME NEW i \in Steps, Read(i) PROVE Quiet'
  <2>1. /\ pc = "producing" /\ UNCHANGED <<pc, tree, subject, output>>
        /\ \A j \in Steps : seen'[j] = IF j = i THEN seen[j] \union {tree} ELSE seen[j]
    BY <1>0, <1>3 DEF Read, At, Typed, target
  <2> QED
    BY <1>1, <2>1 DEF Quiet
<1>4. ASSUME NEW i \in Steps,
             Import(i) \/ (Probe(i) /\ stage'[i] # "executing") \/ CheckTarget(i) \/ ProducerFails(i)
      PROVE  Quiet'
  <2>1. UNCHANGED <<pc, tree, subject, seen>>
    BY <1>4, SettlingFrame
  <2>2. \A j \in Steps : output'[j].evidence \subseteq {subject}
    BY <1>0, <1>4, EvidenceWasRead
  <2> QED
    BY <1>1, <2>1, <2>2 DEF Quiet
<1>5. ASSUME NEW i \in Steps, Probe(i), stage'[i] = "executing" PROVE Quiet'
  <2>1. output' = output
    <3>1. SUFFICES ASSUME Settle(i, [state |-> "incomplete", evidence |-> {}]) PROVE FALSE
      BY <1>5 DEF Probe
    <3>2. stage'[i] = "settled"
      BY <1>0, <3>1 DEF Settle, Typed
    <3> QED
      BY <1>5, <3>2
  <2>2. UNCHANGED <<pc, tree, subject, seen>>
    BY <1>5, SettlingFrame
  <2> QED
    BY <1>1, <2>1, <2>2 DEF Quiet
<1>6. CASE Edit
  <2>1. UNCHANGED <<pc, subject, seen, output>>
    BY <1>6 DEF Edit, target, work
  <2> QED
    BY <1>1, <2>1 DEF Quiet
<1>7. ASSUME \/ Take \/ WorkerReturns \/ Notice \/ ResolveFails \/ PublishFails \/ Assemble
             \/ Publish \/ Signal \/ OtherPublishes \/ UNCHANGED vars
             \/ \E i \in Steps : Produced(i)
      PROVE  Quiet'
  <2>1. (pc' = pc \/ pc' # "producing") /\ UNCHANGED <<tree, subject, seen, output>>
    BY <1>7 DEF Take, WorkerReturns, Notice, Cancel, ResolveFails, PublishFails, EndInError, End,
       Assemble, Publish, Signal, OtherPublishes, Produced, vars, target, work
  <2> QED
    BY <1>1, <2>1 DEF Quiet
<1> QED
  BY <1>2, <1>3, <1>4, <1>5, <1>6, <1>7, StepCases

(* If nobody edits the directory while producers run, whatever is done to  *)
(* it before and after, every producer has read the subject and nothing    *)
(* else, and so has all the evidence of a published snapshot, the scan's   *)
(* and that of incomplete coverage included.                               *)
THEOREM QuietTreeSuffices ==
  Spec /\ [][pc = "producing" => tree' = tree]_vars =>
    [](exit \in {"complete", "incomplete"} =>
         \A i \in Steps : seen[i] \union output[i].evidence \subseteq {subject})
<1>1. Init => Quiet
  BY DEF Init, Quiet, Steps, NoOutput
<1>2. BelongsInv /\ Quiet /\ [Next]_vars /\ [pc = "producing" => tree' = tree]_vars => Quiet'
  <2>1. [pc = "producing" => tree' = tree]_vars => (pc = "producing" => tree' = tree)
    BY DEF vars
  <2> QED
    BY <2>1, QuietKept
<1>3. Quiet => (exit \in {"complete", "incomplete"} =>
         \A i \in Steps : seen[i] \union output[i].evidence \subseteq {subject})
  BY DEF Quiet
<1> QED
  BY BelongsInit, BelongsNext, <1>1, <1>2, <1>3, PTL DEF Spec
=============================================================================
