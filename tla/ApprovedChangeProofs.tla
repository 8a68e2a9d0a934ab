------------------------- MODULE ApprovedChangeProofs -------------------------
(***************************************************************************)
(* Theorems about the audit store (ApprovalStore), for any processes,      *)
(* requests and failures, and about the command that changes files under   *)
(* a receipt (HeaderFix), for any candidate files and any number of edits  *)
(* at any point of it.                                                     *)
(***************************************************************************)
EXTENDS ApprovalStore, HeaderFix, TLAPS

(* The store, the program counters and what the processes hold stay well   *)
(* typed, and a process holds a receipt exactly while its command runs.    *)
THEOREM TypeCorrect == ApprovalSpec => []StoreTypeOK
<1>1. ApprovalInit => StoreTypeOK
  <2> SUFFICES ASSUME ApprovalInit PROVE StoreTypeOK
    OBVIOUS
  <2>1. overlapped \in BOOLEAN
    BY DEF ApprovalInit
  <2> QED
    BY <2>1, ApprovalConstants DEF ApprovalInit, StoreTypeOK, Idle, Receipts
<1>2. StoreTypeOK /\ [ApprovalNext]_approvalVars => StoreTypeOK'
  <2> SUFFICES ASSUME StoreTypeOK, [ApprovalNext]_approvalVars PROVE StoreTypeOK'
    OBVIOUS
  <2> USE ApprovalConstants
  <2>0. Idle \notin Receipts
    BY DEF Idle, Receipts, NoDecision
  <2>1. CASE Tick
    BY <2>1 DEF Tick, StoreTypeOK
  <2>2. ASSUME NEW p \in Processes, NEW r \in Receipts, Authorize(p, r) PROVE StoreTypeOK'
    BY <2>2, <2>0 DEF Authorize, StoreTypeOK
  <2>3. ASSUME NEW p \in Processes, ListStore(p) PROVE StoreTypeOK'
    BY <2>3 DEF ListStore, StoreTypeOK, Stored
  <2>4. ASSUME NEW p \in Processes, NEW q \in Requests, CheckCandidate(p, q) PROVE StoreTypeOK'
    BY <2>4 DEF CheckCandidate, StoreTypeOK
  <2>5. ASSUME NEW p \in Processes, EndPut(p), UNCHANGED <<now, store, overlapped>>,
               done' \subseteq Receipts
        PROVE  StoreTypeOK'
    BY <2>5 DEF EndPut, StoreTypeOK
  <2>6. ASSUME NEW p \in Processes, NEW q \in Requests, RefuseReuse(p, q) PROVE StoreTypeOK'
    BY <2>5, <2>6 DEF RefuseReuse, StoreTypeOK
  <2>7. ASSUME NEW p \in Processes, Publish(p) PROVE StoreTypeOK'
    <3>1. receipt[p] \in Receipts
      BY <2>7 DEF Publish, StoreTypeOK
    <3>2. store' \in [Requests -> Decisions \cup {NoDecision}]
      BY <3>1, <2>7 DEF Publish, StoreTypeOK, Receipts
    <3>3. overlapped' \in BOOLEAN
      BY <2>7, Zenon DEF Publish
    <3> QED
      BY <3>2, <3>3, <2>7 DEF Publish, StoreTypeOK
  <2>8. ASSUME NEW p \in Processes, PutFails(p) PROVE StoreTypeOK'
    BY <2>5, <2>8 DEF PutFails, StoreTypeOK
  <2>9. ASSUME NEW p \in Processes, Perform(p) PROVE StoreTypeOK'
    <3>1. receipt[p] \in Receipts
      BY <2>9 DEF Perform, StoreTypeOK
    <3> QED
      BY <2>5, <2>9, <3>1 DEF Perform, StoreTypeOK
  <2>10. ASSUME NEW p \in Processes, CrashPut(p) PROVE StoreTypeOK'
    BY <2>5, <2>10 DEF CrashPut, StoreTypeOK
  <2>11. CASE UNCHANGED approvalVars
    BY <2>11 DEF approvalVars, StoreTypeOK
  <2> QED
    BY <2>1, <2>2, <2>3, <2>4, <2>6, <2>7, <2>8, <2>9, <2>10, <2>11 DEF ApprovalNext
<1> QED
  BY <1>1, <1>2, PTL DEF ApprovalSpec

-----------------------------------------------------------------------------
\* The receipt a process is about to act on is in the store.
StoredFirst ==
  \A p \in Processes : step[p] = "stored" => receipt[p].request \in Stored

(* Whatever fails or crashes, no action is performed under a request that  *)
(* is not in the audit store; no process ever removes a receipt.           *)
THEOREM Recorded == ApprovalSpec => []EveryActionRecorded
<1> DEFINE IInv == StoreTypeOK /\ StoredFirst /\ EveryActionRecorded
<1>1. ApprovalInit => StoredFirst /\ EveryActionRecorded
  BY DEF ApprovalInit, StoredFirst, EveryActionRecorded
<1>2. StoreTypeOK /\ StoreTypeOK' /\ StoredFirst /\ EveryActionRecorded /\ [ApprovalNext]_approvalVars
        => StoredFirst' /\ EveryActionRecorded'
  <2> SUFFICES ASSUME StoreTypeOK, StoreTypeOK', StoredFirst, EveryActionRecorded, [ApprovalNext]_approvalVars
               PROVE  StoredFirst' /\ EveryActionRecorded'
    OBVIOUS
  <2> USE ApprovalConstants
  <2>1. ASSUME NEW p \in Processes, step' = [step EXCEPT ![p] = "idle"],
               receipt' = [receipt EXCEPT ![p] = Idle], store' = store
        PROVE  StoredFirst'
    BY <2>1 DEF StoredFirst, StoreTypeOK, Stored
  <2>2. CASE Tick
    BY <2>2 DEF Tick, StoredFirst, EveryActionRecorded, Stored
  <2>3. ASSUME NEW p \in Processes, NEW r \in Receipts, Authorize(p, r)
        PROVE  StoredFirst' /\ EveryActionRecorded'
    BY <2>3 DEF Authorize, StoredFirst, EveryActionRecorded, Stored, StoreTypeOK
  <2>4. ASSUME NEW p \in Processes, ListStore(p) PROVE StoredFirst' /\ EveryActionRecorded'
    BY <2>4 DEF ListStore, StoredFirst, EveryActionRecorded, Stored, StoreTypeOK
  <2>5. ASSUME NEW p \in Processes, NEW q \in Requests, CheckCandidate(p, q)
        PROVE  StoredFirst' /\ EveryActionRecorded'
    BY <2>5 DEF CheckCandidate, StoredFirst, EveryActionRecorded, Stored
  <2>6. ASSUME NEW p \in Processes, NEW q \in Requests, RefuseReuse(p, q)
        PROVE  StoredFirst' /\ EveryActionRecorded'
    BY <2>1, <2>6 DEF RefuseReuse, EndPut, EveryActionRecorded, Stored
  <2>7. ASSUME NEW p \in Processes, Publish(p) PROVE StoredFirst' /\ EveryActionRecorded'
    <3>1. receipt[p] \in Receipts
      BY <2>7 DEF Publish, StoreTypeOK
    <3>2. receipt[p].request \in Requests /\ receipt[p].decision \in Decisions
      BY <3>1 DEF Receipts
    <3>3. store' = [store EXCEPT ![receipt[p].request] = receipt[p].decision]
      BY <2>7 DEF Publish
    <3>4. Stored \subseteq Stored' /\ receipt[p].request \in Stored'
      BY <3>2, <3>3 DEF Stored, StoreTypeOK, NoDecision
    <3> QED
      BY <3>4, <2>7 DEF Publish, StoredFirst, EveryActionRecorded, StoreTypeOK
  <2>8. ASSUME NEW p \in Processes, PutFails(p) PROVE StoredFirst' /\ EveryActionRecorded'
    BY <2>1, <2>8 DEF PutFails, EndPut, EveryActionRecorded, Stored
  <2>9. ASSUME NEW p \in Processes, Perform(p) PROVE StoredFirst' /\ EveryActionRecorded'
    <3>1. receipt[p].request \in Stored
      BY <2>9 DEF Perform, StoredFirst
    <3> QED
      BY <2>1, <2>9, <3>1 DEF Perform, EndPut, EveryActionRecorded, Stored
  <2>10. ASSUME NEW p \in Processes, CrashPut(p) PROVE StoredFirst' /\ EveryActionRecorded'
    BY <2>1, <2>10 DEF CrashPut, EndPut, EveryActionRecorded, Stored
  <2>11. CASE UNCHANGED approvalVars
    BY <2>11 DEF approvalVars, StoredFirst, EveryActionRecorded, Stored
  <2> QED
    BY <2>2, <2>3, <2>4, <2>5, <2>6, <2>7, <2>8, <2>9, <2>10, <2>11 DEF ApprovalNext
<1> QED
  BY <1>1, <1>2, TypeCorrect, PTL DEF ApprovalSpec

-----------------------------------------------------------------------------
(* What is left to read covers every stored reuse of the receipt's id.     *)
ScanCovers ==
  ~overlapped =>
    \A p \in Processes : step[p] = "scanning" =>
      \A q \in Stored : Reuses(receipt[p], q) => q \in names[p]

(* Any number of processes: unless a receipt is published while another    *)
(* put is reading the store, a request id is never stored with two         *)
(* contents, because the scan covers every receipt stored before it.       *)
THEOREM OneContent == ApprovalSpec => []OneContentUnlessOverlapped
<1>1. ApprovalInit => ScanCovers /\ OneContentUnlessOverlapped
  BY DEF ApprovalInit, ScanCovers, OneContentUnlessOverlapped, OneContentPerId, Stored
<1>2. StoreTypeOK /\ ScanCovers /\ OneContentUnlessOverlapped /\ [ApprovalNext]_approvalVars
        => ScanCovers' /\ OneContentUnlessOverlapped'
  <2> SUFFICES ASSUME StoreTypeOK, ScanCovers, OneContentUnlessOverlapped, [ApprovalNext]_approvalVars
               PROVE  ScanCovers' /\ OneContentUnlessOverlapped'
    OBVIOUS
  <2> USE ApprovalConstants DEF OneContentUnlessOverlapped
  <2>1. store' = store => Stored' = Stored
    BY DEF Stored
  <2>2. CASE UNCHANGED <<store, step, receipt, names, overlapped>>
    BY <2>1, <2>2 DEF ScanCovers, OneContentPerId, Reuses
  <2>3. ASSUME NEW p \in Processes, EndPut(p), UNCHANGED <<store, overlapped>>
        PROVE  ScanCovers' /\ OneContentUnlessOverlapped'
    BY <2>1, <2>3 DEF EndPut, ScanCovers, OneContentPerId, Reuses, StoreTypeOK
  <2>4. ASSUME NEW p \in Processes, NEW r \in Receipts, Authorize(p, r)
        PROVE  ScanCovers' /\ OneContentUnlessOverlapped'
    BY <2>1, <2>4 DEF Authorize, ScanCovers, OneContentPerId, Reuses, StoreTypeOK
  <2>5. ASSUME NEW p \in Processes, ListStore(p)
        PROVE  ScanCovers' /\ OneContentUnlessOverlapped'
    <3>1. names'[p] = Stored
      BY <2>5 DEF ListStore, StoreTypeOK
    <3> QED
      BY <2>1, <2>5, <3>1 DEF ListStore, ScanCovers, OneContentPerId, Reuses, StoreTypeOK
  <2>6. ASSUME NEW p \in Processes, NEW q \in Requests, CheckCandidate(p, q)
        PROVE  ScanCovers' /\ OneContentUnlessOverlapped'
    BY <2>1, <2>6 DEF CheckCandidate, ScanCovers, OneContentPerId, Reuses, StoreTypeOK
  <2>7. ASSUME NEW p \in Processes, Publish(p)
        PROVE  ScanCovers' /\ OneContentUnlessOverlapped'
    <3> SUFFICES ASSUME ~overlapped' PROVE ScanCovers' /\ OneContentPerId'
      BY DEF ScanCovers
    <3>0. ~overlapped /\ \A q \in Processes \ {p} : step[q] # "scanning"
      BY <2>7 DEF Publish
    <3>1. receipt[p] \in Receipts
      BY <2>7 DEF Publish, StoreTypeOK
    <3>2. receipt[p].request \in Requests /\ receipt[p].decision \in Decisions
      BY <3>1 DEF Receipts
    <3>3. Stored' = Stored \cup {receipt[p].request}
      BY <3>2, <2>7 DEF Publish, Stored, StoreTypeOK, NoDecision
    <3>4. \A q \in Stored : IdOf[q] = IdOf[receipt[p].request] => q = receipt[p].request
      BY <2>7, <3>0 DEF Publish, ScanCovers, Reuses
    <3>5. OneContentPerId'
      BY <3>0, <3>3, <3>4 DEF OneContentPerId
    <3>6. \A q \in Processes : step'[q] # "scanning"
      BY <2>7, <3>0 DEF Publish, StoreTypeOK
    <3> QED
      BY <3>5, <3>6 DEF ScanCovers
  <2> QED
    BY <2>2, <2>3, <2>4, <2>5, <2>6, <2>7
    DEF ApprovalNext, Tick, RefuseReuse, PutFails, Perform, CrashPut, approvalVars
<1> QED
  BY <1>1, <1>2, TypeCorrect, PTL DEF ApprovalSpec

(* The puts of the store run one at a time, as they would under a lock.    *)
OnePut ==
  \A p, q \in Processes : step[p] # "idle" /\ step[q] # "idle" => p = q

(* Nothing but the missing lock lets an agent reuse a request id: if the   *)
(* puts run one at a time, no two stored receipts ever share an id,        *)
(* whatever puts fail and whatever processes die in between.               *)
THEOREM LockKeepsOneContent == ApprovalSpec /\ []OnePut => []OneContentPerId
<1>1. ApprovalInit => ~overlapped
  BY DEF ApprovalInit
<1>2. ~overlapped /\ OnePut /\ [ApprovalNext]_approvalVars => ~overlapped'
  <2> SUFFICES ASSUME ~overlapped, OnePut, [ApprovalNext]_approvalVars
               PROVE  ~overlapped'
    OBVIOUS
  <2>1. ASSUME NEW p \in Processes, Publish(p)
        PROVE  ~overlapped'
    <3>1. \A q \in Processes \ {p} : step[q] # "scanning"
      BY <2>1 DEF Publish, OnePut
    <3> QED
      BY <2>1, <3>1 DEF Publish
  <2> QED
    BY <2>1 DEF ApprovalNext, Tick, Authorize, ListStore, CheckCandidate, RefuseReuse, PutFails,
       Perform, CrashPut, approvalVars
<1>3. ~overlapped /\ OneContentUnlessOverlapped => OneContentPerId
  BY DEF OneContentUnlessOverlapped
<1> QED
  BY <1>1, <1>2, <1>3, OneContent, PTL DEF ApprovalSpec

-----------------------------------------------------------------------------
(* The header fix.                                                         *)

(* From the last comparison to the write, the plan is what the receipt      *)
(* approved or empty, the writer can only find planned files, and a         *)
(* non-empty plan was recorded.                                             *)
BeforeWrite == {"tests-approval", "approval", "snapshot", "apply", "replan", "select", "write"}

PlanHolds ==
  /\ pc \in BeforeWrite => wrote = {}
  /\ pc \in {"replan", "select", "write"} => plan \in {{}, approved} /\ (plan # {} => audited)
  /\ pc = "select" /\ ~raced => Planned(shape, files) = plan
  /\ pc = "write" /\ ~raced => target.file \in plan

LEMMA PlanStep ==
  ASSUME PlanHolds, ApprovedUnlessRaced, [Next]_vars
  PROVE  PlanHolds' /\ ApprovedUnlessRaced'
<1> USE DEF PlanHolds, BeforeWrite, ApprovedUnlessRaced, WritesAsApproved, WritesAreAudited
<1>1. CASE Edit
  BY <1>1 DEF Edit, history
<1>2. ASSUME NEW fs \in {{}} \cup {{f} : f \in Files}, NEW t \in BOOLEAN, NEW r \in BOOLEAN,
             Start(fs, t, r)
      PROVE  PlanHolds' /\ ApprovedUnlessRaced'
  BY <1>2 DEF Start
<1>3. CASE ApproveTests \/ Approve \/ Capture
  BY <1>3 DEF ApproveTests, Approve, Capture, project, history
<1>4. CASE Apply
  <2>1. pc' = "replan" /\ wrote' = {}
    BY <1>4 DEF Apply
  <2>2. plan' \in {{}, approved'}
    BY <1>4 DEF Apply
  <2>3. plan' # {} => audited'
    BY <1>4, Zenon DEF Apply
  <2> QED
    BY <2>1, <2>2, <2>3
<1>5. CASE Replan
  BY <1>5 DEF Replan, project, history
<1>6. CASE Refuse \/ SelectNothing \/ WriteFails \/ Succeed \/ RollbackFails \/ Crash
  BY <1>6 DEF Refuse, SelectNothing, WriteFails, Succeed, RollbackFails, Crash, End, project,
              history
<1>7. CASE Select
  BY <1>7 DEF Select, project, history
<1>8. CASE Write
  BY <1>8 DEF Write
<1>9. CASE SkipTests \/ CheckTests \/ TestsPass \/ CheckFails
  BY <1>9 DEF SkipTests, CheckTests, TestsPass, CheckFails, project, history
<1>10. CASE Spawn
  BY <1>10 DEF Spawn, project
<1>11. CASE Rollback
  BY <1>11 DEF Rollback, history
<1>12. CASE UNCHANGED vars
  BY <1>12 DEF vars
<1> QED
  BY <1>1, <1>2, <1>3, <1>4, <1>5, <1>6, <1>7, <1>8, <1>9, <1>10, <1>11, <1>12 DEF Next

(* The command changes only files its receipt names, each under a receipt   *)
(* that is already in the audit store, however the project changed since    *)
(* the approval, unless it changes between the comparison of the two plans  *)
(* and the write.                                                           *)
THEOREM ApprovedOnly == Spec => []ApprovedUnlessRaced
<1>1. Init => PlanHolds /\ ApprovedUnlessRaced
  BY DEF Init, PlanHolds, BeforeWrite, ApprovedUnlessRaced, WritesAsApproved, WritesAreAudited
<1> QED
  BY <1>1, PlanStep, PTL DEF Spec

LEMMA PlannedType ==
  /\ \A sh \in Shapes : \A fs : Planned(sh, fs) \subseteq Files
  /\ \A sh \in Shapes : \A fs : \A f \in Planned(sh, fs) : fs[f].kind \in {"plain", "absent"}
<1>1. \A fs : NextConfig(fs) \subseteq ConfigFiles
  BY DEF NextConfig, ConfigFiles
<1>2. \A fs : \A f \in NextConfig(fs) : fs[f].kind = "plain"
  BY DEF NextConfig
<1> QED
  BY <1>1, <1>2 DEF Planned, Files

(* The project, the command and its snapshot stay well typed, whatever is   *)
(* edited; a rollback always has checks that asked for it.                  *)
THEOREM FixTypeCorrect == Spec => []TypeOK
<1> USE FixConstants
<1>1. Init => TypeOK
  <2> SUFFICES ASSUME Init PROVE TypeOK
    OBVIOUS
  <2>1. \A k \in {"absent", "plain"} : [kind |-> k, edit |-> 0] \in Contents
    BY DEF Contents, Kinds
  <2>2. files \in [Files -> Contents]
    BY <2>1 DEF Init
  <2>3. NoFile \in Contents
    BY <2>1 DEF NoFile
  <2>4. opts \in [tests : BOOLEAN, rescan : BOOLEAN, suite : 0..MaxEdits]
    BY DEF Init
  <2>5. DOMAIN snap = {}
    BY DEF Init, NoSnapshot
  <2> QED
    BY <2>2, <2>3, <2>4, <2>5 DEF Init, TypeOK, Points, Outcomes
<1>2. TypeOK /\ [Next]_vars => TypeOK'
  <2> SUFFICES ASSUME TypeOK, [Next]_vars PROVE TypeOK'
    OBVIOUS
  <2> USE DEF project, history
  <2>1. CASE Edit
    <3>1. edits' \in 0..MaxEdits /\ raced' \in BOOLEAN
      BY <2>1 DEF Edit, TypeOK
    <3>2. files' \in [Files -> Contents]
      BY <2>1, <3>1 DEF Edit, TypeOK, KindsOf, Kinds, Contents
    <3>3. shape' \in Shapes /\ suite' \in 0..MaxEdits
      BY <2>1, <3>1 DEF Edit, TypeOK
    <3> QED
      BY <2>1, <3>1, <3>2, <3>3 DEF Edit, TypeOK
  <2>2. ASSUME NEW fs \in {{}} \cup {{f} : f \in Files}, NEW t \in BOOLEAN, NEW r \in BOOLEAN,
               Start(fs, t, r)
        PROVE  TypeOK'
    <3>1. plan' \subseteq Files /\ approved' \subseteq Files
      BY <2>2, PlannedType DEF Start, TypeOK
    <3>2. NoFile \in Contents
      BY DEF NoFile, Contents, Kinds
    <3> QED
      BY <2>2, <3>1, <3>2 DEF Start, TypeOK, NoSnapshot, Points, Outcomes
  <2>3. CASE ApproveTests \/ Approve \/ Replan \/ SkipTests \/ CheckTests \/ TestsPass \/ CheckFails
    BY <2>3 DEF ApproveTests, Approve, Replan, SkipTests, CheckTests, TestsPass, CheckFails, TypeOK,
                Points
  <2>4. CASE Capture
    BY <2>4 DEF Capture, TypeOK, Points
  <2>5. CASE Apply
    <3>1. plan' \subseteq Files
      BY <2>5, PlannedType DEF Apply, TypeOK
    <3>2. audited' \in BOOLEAN
      BY <2>5, Zenon DEF Apply
    <3>3. pc' = "replan" /\ UNCHANGED <<project, opts, approved, snap, target, wrote, before, ran,
                                        outcome>>
      BY <2>5 DEF Apply
    <3> QED
      BY <3>1, <3>2, <3>3 DEF TypeOK, Points
  <2>6. CASE Refuse \/ SelectNothing \/ WriteFails \/ Succeed \/ RollbackFails \/ Crash
    BY <2>6 DEF Refuse, SelectNothing, WriteFails, Succeed, RollbackFails, Crash, End, TypeOK,
                Points, Outcomes
  <2>7. CASE Select
    <3>1. PICK f \in Planned(shape, files) : target' = [file |-> f, edit |-> files[f].edit]
      BY <2>7 DEF Select
    <3>2. f \in Files /\ files[f] \in Contents
      BY <3>1, PlannedType DEF TypeOK
    <3>3. target' \in [file : Files, edit : 0..MaxEdits]
      BY <3>1, <3>2 DEF Contents
    <3>4. target' # NoTarget
      BY <3>1, <3>2 DEF NoTarget, None
    <3> QED
      BY <2>7, <3>3, <3>4 DEF Select, TypeOK, Points
  <2>8. CASE Write
    <3>1. target \in [file : Files, edit : 0..MaxEdits]
      BY <2>8 DEF Write, TypeOK
    <3>2. [kind |-> "patched", edit |-> target.edit] \in Contents
      BY <3>1 DEF Contents
    <3> QED
      BY <2>8, <3>1, <3>2 DEF Write, TypeOK, Points
  <2>9. CASE Spawn
    BY <2>9 DEF Spawn, TypeOK, Points
  <2>10. CASE Rollback
    <3>1. files' \in [Files -> Contents]
      BY <2>10 DEF Rollback, TypeOK
    <3> QED
      BY <2>10, <3>1 DEF Rollback, TypeOK, Points, Outcomes
  <2>11. CASE UNCHANGED vars
    BY <2>11 DEF vars, TypeOK
  <2> QED
    BY <2>1, <2>2, <2>3, <2>4, <2>5, <2>6, <2>7, <2>8, <2>9, <2>10, <2>11 DEF Next
<1> QED
  BY <1>1, <1>2, PTL DEF Spec

(* What the snapshot is worth: until it is taken the planned files are not  *)
(* patched, what it holds is not patched, and from then on it covers what   *)
(* was approved; a command reports nothing before it has ended.             *)
SnapshotHolds ==
  /\ pc \in {"tests-approval", "approval", "snapshot"} =>
       \A f \in plan : files[f].kind # "patched"
  /\ \A f \in DOMAIN snap : snap[f].kind # "patched"
  /\ pc = "snapshot" => plan = approved
  /\ /\ pc \in {"apply", "replan", "select", "write", "tests", "spawn", "running", "rescan",
                "rollback"}
     /\ opts.tests \/ opts.rescan
     => DOMAIN snap = approved
  /\ pc # "idle" => outcome = "none"

LEMMA SnapshotStep ==
  ASSUME TypeOK, TypeOK', ApprovedUnlessRaced, SnapshotHolds, RollbackLeavesNothing, [Next]_vars
  PROVE  SnapshotHolds' /\ RollbackLeavesNothing'
<1> USE DEF project, history
<1>1. CASE Edit
  <2>1. \A f \in Files : files'[f] = files[f] \/ files'[f].kind \in Kinds
    BY <1>1 DEF Edit, TypeOK, KindsOf, Kinds
  <2>2. \A f \in Files : files'[f].kind = "patched" => files[f].kind = "patched"
    BY <2>1 DEF Kinds
  <2>3. UNCHANGED <<pc, opts, plan, approved, snap, wrote, outcome>> /\ (raced => raced')
    BY <1>1 DEF Edit
  <2> QED
    BY <2>2, <2>3 DEF SnapshotHolds, RollbackLeavesNothing, TypeOK
<1>2. ASSUME NEW fs \in {{}} \cup {{f} : f \in Files}, NEW t \in BOOLEAN, NEW r \in BOOLEAN,
             Start(fs, t, r)
      PROVE  SnapshotHolds' /\ RollbackLeavesNothing'
  <2>1. \A f \in plan' : files'[f].kind # "patched"
    BY <1>2, PlannedType DEF Start, TypeOK
  <2> QED
    BY <1>2, <2>1 DEF Start, SnapshotHolds, RollbackLeavesNothing, NoSnapshot
<1>3. CASE ApproveTests \/ Approve \/ Replan \/ SkipTests \/ CheckTests \/ TestsPass \/ CheckFails
  BY <1>3 DEF ApproveTests, Approve, Replan, SkipTests, CheckTests, TestsPass, CheckFails,
              SnapshotHolds, RollbackLeavesNothing
<1>4. CASE Capture
  BY <1>4 DEF Capture, SnapshotHolds, RollbackLeavesNothing
<1>5. CASE Apply
  <2>1. pc = "apply" /\ pc' = "replan"
        /\ UNCHANGED <<files, opts, approved, snap, wrote, raced, outcome>>
    BY <1>5 DEF Apply
  <2> QED
    BY <2>1 DEF SnapshotHolds, RollbackLeavesNothing
<1>6. CASE Refuse \/ SelectNothing \/ WriteFails \/ Succeed \/ RollbackFails \/ Crash
  BY <1>6 DEF Refuse, SelectNothing, WriteFails, Succeed, RollbackFails, Crash, End,
              SnapshotHolds, RollbackLeavesNothing
<1>7. CASE Select
  BY <1>7 DEF Select, SnapshotHolds, RollbackLeavesNothing
<1>8. CASE Write
  BY <1>8 DEF Write, SnapshotHolds, RollbackLeavesNothing
<1>9. CASE Spawn
  BY <1>9 DEF Spawn, SnapshotHolds, RollbackLeavesNothing
<1>10. CASE Rollback
  <2>1. DOMAIN snap = approved /\ pc' = "idle" /\ UNCHANGED <<plan, approved, snap, wrote, raced>>
    BY <1>10 DEF Rollback, SnapshotHolds, TypeOK
  <2>2. SnapshotHolds'
    BY <2>1 DEF SnapshotHolds
  <2>3. ~raced => \A f \in wrote : files'[f] = snap[f]
    BY <1>10, <2>1 DEF Rollback, ApprovedUnlessRaced, WritesAsApproved, TypeOK
  <2>4. ~raced => \A f \in wrote : snap[f].kind # "patched"
    BY <2>1 DEF SnapshotHolds, ApprovedUnlessRaced, WritesAsApproved
  <2> QED
    BY <2>1, <2>2, <2>3, <2>4 DEF RollbackLeavesNothing
<1>11. CASE UNCHANGED vars
  BY <1>11 DEF vars, SnapshotHolds, RollbackLeavesNothing
<1> QED
  BY <1>1, <1>2, <1>3, <1>4, <1>5, <1>6, <1>7, <1>8, <1>9, <1>10, <1>11 DEF Next

(* Unless an edit fell between the last look at the project and the write,  *)
(* a rollback that is reported leaves none of the files the command wrote,  *)
(* for any candidates and any number of edits before and after.             *)
THEOREM RolledBack == Spec => []RollbackLeavesNothing
<1>1. Init => SnapshotHolds /\ RollbackLeavesNothing
  BY DEF Init, SnapshotHolds, RollbackLeavesNothing, NoSnapshot
<1> QED
  BY <1>1, SnapshotStep, FixTypeCorrect, ApprovedOnly, PTL DEF Spec

\* Between the comparison of the test files and their start they are as approved.
SuiteHolds ==
  /\ pc = "spawn" /\ ~raced => suite = opts.suite
  /\ RunsApprovedTests

(* Unless they are edited while Node starts, the test files that run are    *)
(* those that were approved, however many edits there are.                  *)
THEOREM TestsAsApproved == Spec => []RunsApprovedTests
<1>1. Init => SuiteHolds
  BY DEF Init, SuiteHolds, RunsApprovedTests
<1>2. SuiteHolds /\ [Next]_vars => SuiteHolds'
  <2> SUFFICES ASSUME SuiteHolds, [Next]_vars PROVE SuiteHolds'
    OBVIOUS
  <2> USE DEF SuiteHolds, RunsApprovedTests, project, history
  <2>1. CASE Edit
    BY <2>1 DEF Edit
  <2>2. ASSUME NEW fs \in {{}} \cup {{f} : f \in Files}, NEW t \in BOOLEAN, NEW r \in BOOLEAN,
               Start(fs, t, r)
        PROVE  SuiteHolds'
    BY <2>2 DEF Start
  <2>3. CASE ApproveTests \/ Approve \/ Capture \/ Replan \/ Select \/ SkipTests \/ CheckTests
             \/ TestsPass \/ CheckFails
    BY <2>3 DEF ApproveTests, Approve, Capture, Replan, Select, SkipTests, CheckTests, TestsPass,
                CheckFails
  <2>4. CASE Apply
    <3>1. pc' = "replan" /\ UNCHANGED <<opts, ran, raced>>
      BY <2>4 DEF Apply
    <3> QED
      BY <3>1
  <2>5. CASE Refuse \/ SelectNothing \/ WriteFails \/ Succeed \/ RollbackFails \/ Crash
    BY <2>5 DEF Refuse, SelectNothing, WriteFails, Succeed, RollbackFails, Crash, End
  <2>6. CASE Write \/ Spawn \/ Rollback
    BY <2>6 DEF Write, Spawn, Rollback
  <2>7. CASE UNCHANGED vars
    BY <2>7 DEF vars
  <2> QED
    BY <2>1, <2>2, <2>3, <2>4, <2>5, <2>6, <2>7 DEF Next
<1>3. SuiteHolds => RunsApprovedTests
  BY DEF SuiteHolds
<1> QED
  BY <1>1, <1>2, <1>3, PTL DEF Spec

-----------------------------------------------------------------------------
(* Nobody edits the project while the command trusts what it last saw of   *)
(* it: from the second comparison of the plans to the write, and from the  *)
(* hash of the test files to their start.                                  *)
QuietMoments == [][Edit => pc \notin {"select", "write", "spawn"}]_vars

(* Those moments are all that stands between the code and what it says:    *)
(* if nobody edits the project in them, the command changes only files its *)
(* receipt names, each under a stored receipt, runs the tests that were    *)
(* approved, and leaves nothing behind after a rollback, whatever others   *)
(* edit at any other time.                                                 *)
THEOREM QuietMomentsSuffice ==
  Spec /\ QuietMoments =>
    /\ []WritesAsApproved
    /\ []WritesAreAudited
    /\ [](ran \subseteq {opts.suite})
    /\ [](outcome = "rolled-back" => \A f \in wrote : files[f].kind # "patched")
<1>1. Init => ~raced
  BY DEF Init
<1>2. ~raced /\ [Next]_vars /\ [Edit => pc \notin {"select", "write", "spawn"}]_vars => ~raced'
  <2> SUFFICES ASSUME ~raced, [Next]_vars, [Edit => pc \notin {"select", "write", "spawn"}]_vars
               PROVE  ~raced'
    OBVIOUS
  <2>1. CASE Edit
    <3>1. UNCHANGED vars \/ pc \notin {"select", "write", "spawn"}
      BY <2>1
    <3> QED
      BY <2>1, <3>1 DEF Edit, vars
  <2>2. CASE ~Edit
    BY <2>2 DEF Next, vars, Start, ApproveTests, Approve, Capture, Apply, Replan, Refuse, Select,
       SelectNothing, Write, WriteFails, SkipTests, CheckTests, Spawn, TestsPass, CheckFails,
       Succeed, Rollback, RollbackFails, Crash, End, project
  <2> QED
    BY <2>1, <2>2
<1>3. Spec /\ QuietMoments => []~raced
  BY <1>1, <1>2, PTL DEF Spec, QuietMoments
<1>4. ~raced /\ ApprovedUnlessRaced => WritesAsApproved /\ WritesAreAudited
  BY DEF ApprovedUnlessRaced
<1>6. ~raced /\ RunsApprovedTests => ran \subseteq {opts.suite}
  BY DEF RunsApprovedTests
<1>7. ~raced /\ RollbackLeavesNothing
        => (outcome = "rolled-back" => \A f \in wrote : files[f].kind # "patched")
  BY DEF RollbackLeavesNothing
<1> QED
  BY <1>3, <1>4, <1>6, <1>7, ApprovedOnly, TestsAsApproved, RolledBack, PTL
=============================================================================
