------------------------- MODULE PrivateRunnerProofs -------------------------
(***************************************************************************)
(* What holds of PrivateRunner for every set of jobs, every number of      *)
(* polls and every bound of the cache.                                     *)
(***************************************************************************)
EXTENDS PrivateRunner, SequenceTheorems, FiniteSetTheorems, TLAPS

(* slice(-MaxEntries) of a list is a list of the same kind.                *)
LEMMA LastEntriesType ==
  ASSUME NEW S, NEW s \in Seq(S)
  PROVE  LastEntries(s) \in Seq(S)
<1>1. CASE Len(s) <= MaxEntries
  BY <1>1 DEF LastEntries
<1>2. CASE ~(Len(s) <= MaxEntries)
  <2>1. SubSeq(s, Len(s) - MaxEntries + 1, Len(s)) \in Seq(S)
    BY <1>2, RunnerConstants, SubSeqProperties
  <2> QED
    BY <1>2, <2>1 DEF LastEntries
<1> QED
  BY <1>1, <1>2

(* slice(-MaxEntries) keeps the newest elements, at most MaxEntries.       *)
LEMMA LastEntriesElements ==
  ASSUME NEW S, NEW s \in Seq(S)
  PROVE  LET t == LastEntries(s) IN
         /\ Len(t) = IF Len(s) <= MaxEntries THEN Len(s) ELSE MaxEntries
         /\ \A i \in 1..Len(t) : t[i] = s[Len(s) - Len(t) + i]
<1>1. CASE Len(s) <= MaxEntries
  BY <1>1 DEF LastEntries
<1>2. CASE ~(Len(s) <= MaxEntries)
  <2> DEFINE t == SubSeq(s, Len(s) - MaxEntries + 1, Len(s))
  <2>1. /\ Len(t) = MaxEntries
        /\ \A i \in 1..MaxEntries : t[i] = s[Len(s) - MaxEntries + i]
    BY <1>2, RunnerConstants, SubSeqProperties
  <2>2. LastEntries(s) = t
    BY <1>2 DEF LastEntries
  <2> QED
    BY <1>2, <2>1, <2>2, RunnerConstants
<1> QED
  BY <1>1, <1>2

(* rememberReplay maps a replay state and a job to a replay state.         *)
LEMMA RememberType ==
  ASSUME NEW r \in ReplayStates, NEW j \in Jobs
  PROVE  Remember(r, j) \in ReplayStates
<1>1. j.jobId \in JobIds /\ j.nonce \in Nonces
  BY DEF JobIds, Nonces
<1>2. /\ Append(r.jobIds, j.jobId) \in Seq(JobIds)
      /\ Append(r.nonces, j.nonce) \in Seq(Nonces)
  BY <1>1, AppendProperties DEF ReplayStates
<1> QED
  BY <1>2, LastEntriesType DEF Remember, ReplayStates

LEMMA EmptyReplayType == EmptyReplay \in ReplayStates
BY EmptySeq DEF EmptyReplay, ReplayStates

(* A verdict is a result.                                                  *)
LEMMA VerdictType ==
  ASSUME NEW r, NEW j, NEW t
  PROVE  Verdict(r, j, t) \in Results
BY DEF Verdict, AdmissionFailure, Results, Failures, Denials

(* The end of a poll keeps the four per-poll variables in their types.     *)
LEMMA EndType ==
  ASSUME TypeOK, NEW p \in Pollers, NEW r \in Results, End(p, r)
  PROVE  /\ pc' \in [Pollers -> {"idle"} \cup Active]
         /\ snap' \in [Pollers -> ReplayStates]
         /\ job' \in [Pollers -> Admitted \cup {NoJob}]
         /\ \A q \in Pollers : pc'[q] \in {"writing", "persisted"} => job'[q] \in Admitted
         /\ result' \in [Pollers -> Results]
BY EmptyReplayType DEF TypeOK, End, Active

(* Every reachable state is well typed: the cache and every snapshot are   *)
(* replay states, and a poll past its admission holds an admitted job.     *)
THEOREM TypeCorrect == Spec => []TypeOK
<1>1. Init => TypeOK
  <2> SUFFICES ASSUME Init PROVE TypeOK
    OBVIOUS
  <2>1. forked \in BOOLEAN
    BY DEF Init
  <2>2. replay \in ReplayStates /\ snap \in [Pollers -> ReplayStates]
    BY EmptyReplayType DEF Init
  <2>3. recorded \in Seq(Jobs) /\ handed \in Seq(Admitted)
    BY EmptySeq DEF Init
  <2> QED
    BY <2>1, <2>2, <2>3 DEF Init, TypeOK, Results
<1>2. TypeOK /\ [Next]_vars => TypeOK'
  <2> SUFFICES ASSUME TypeOK, [Next]_vars PROVE TypeOK'
    OBVIOUS
  <2>1. CASE UNCHANGED vars
    BY <2>1 DEF TypeOK, vars
  <2>2. CASE Tick
    BY <2>2 DEF TypeOK, Tick
  <2>3. ASSUME NEW t \in 1..MaxTime, Enroll(t) PROVE TypeOK'
    BY <2>3, RunnerConstants DEF TypeOK, Enroll
  <2>4. ASSUME NEW p \in Pollers, StartPoll(p) PROVE TypeOK'
    <3>1. polls' \in [Pollers -> Nat]
      BY <2>4 DEF TypeOK, StartPoll
    <3>2. CASE End(p, "no_runner_credential") \/ End(p, "invalid_input")
      <4>1. {"no_runner_credential", "invalid_input"} \subseteq Results
        BY DEF Results
      <4> QED
        BY <2>4, <3>1, <3>2, <4>1, EndType DEF TypeOK, StartPoll
    <3>3. CASE /\ pc' = [pc EXCEPT ![p] = "fetching"]
               /\ snap' = [snap EXCEPT ![p] = replay]
               /\ result' = [result EXCEPT ![p] = "none"]
               /\ UNCHANGED job
      BY <2>4, <3>1, <3>3 DEF TypeOK, StartPoll, Active, Results
    <3> QED
      BY <2>4, <3>2, <3>3 DEF StartPoll
  <2>5. ASSUME NEW p \in Pollers, ReceiveNothing(p) PROVE TypeOK'
    <3>1. PICK r \in Failures \cup {"empty", "invalid_response"} : End(p, r)
      BY <2>5 DEF ReceiveNothing
    <3>2. r \in Results
      BY DEF Results, Failures, Denials
    <3> QED
      BY <2>5, <3>1, <3>2, EndType DEF TypeOK, ReceiveNothing
  <2>6. ASSUME NEW p \in Pollers, NEW j \in Jobs, ReceiveJob(p, j) PROVE TypeOK'
    <3> DEFINE v == Verdict(snap[p], j, now)
    <3>1. CASE End(p, v)
      BY <2>6, <3>1, VerdictType, EndType DEF TypeOK, ReceiveJob
    <3>2. CASE /\ pc' = [pc EXCEPT ![p] = "writing"]
               /\ job' = [job EXCEPT ![p] = [doc |-> j, at |-> now]]
               /\ UNCHANGED <<snap, result>>
      BY <2>6, <3>2 DEF TypeOK, ReceiveJob, Active, Admitted
    <3> QED
      BY <2>6, <3>1, <3>2 DEF ReceiveJob
  <2>7. ASSUME NEW p \in Pollers, TimeOut(p) \/ Crash(p) \/ PersistFails(p) PROVE TypeOK'
    <3>1. \E r \in Results : End(p, r)
      BY <2>7 DEF TimeOut, Crash, PersistFails, Results, Failures
    <3> QED
      BY <2>7, <3>1, EndType DEF TypeOK, TimeOut, Crash, PersistFails
  <2>8. ASSUME NEW p \in Pollers, Persist(p) PROVE TypeOK'
    <3>1. job[p] \in Admitted /\ job[p].doc \in Jobs
      BY <2>8 DEF TypeOK, Persist, Admitted
    <3>2. replay' \in ReplayStates
      BY <2>8, <3>1, RememberType DEF TypeOK, Persist
    <3>3. recorded' \in Seq(Jobs)
      BY <2>8, <3>1, AppendProperties DEF TypeOK, Persist
    <3>4. forked' \in BOOLEAN
      BY <2>8 DEF Persist
    <3> QED
      BY <2>8, <3>1, <3>2, <3>3, <3>4 DEF TypeOK, Persist, Active
  <2>9. ASSUME NEW p \in Pollers, ReturnReady(p) PROVE TypeOK'
    <3>1. handed' \in Seq(Admitted)
      BY <2>9, AppendProperties DEF TypeOK, ReturnReady
    <3>2. "ready" \in Results
      BY DEF Results
    <3> QED
      BY <2>9, <3>1, <3>2, EndType DEF TypeOK, ReturnReady
  <2> QED
    BY <2>1, <2>2, <2>3, <2>4, <2>5, <2>6, <2>7, <2>8, <2>9 DEF Next
<1> QED
  BY <1>1, <1>2, PTL DEF Spec

-----------------------------------------------------------------------------
(* A verdict of "none" is given only to a signed job for this tenant and   *)
(* runner, at a time of its window.                                        *)
LEMMA VerdictScope ==
  ASSUME NEW r, NEW j \in Jobs, NEW t \in Nat, Verdict(r, j, t) = "none"
  PROVE  InScope([doc |-> j, at |-> t]) /\ ~Replayed(r, j)
<1>1. /\ SignatureVerifies(j)
      /\ ~Replayed(r, j)
      /\ AdmissionFailure(j, t) = "none"
  BY DEF Verdict
<1>2. /\ j.tenant = Tenant /\ j.runner = Runner
      /\ ~(j.issued > t) /\ ~(j.expires <= t)
      /\ j.target \in AllowedTargets
  BY <1>1 DEF AdmissionFailure
<1> QED
  BY <1>1, <1>2, JobShape, RunnerConstants DEF SignatureVerifies, ValidShape, InScope

(* For every number of pollers: no job outside its window, tenant, runner  *)
(* or targets is ever persisted or reported ready.                         *)
THEOREM ScopeHolds == Spec => []AdmittedWithinScope
<1>1. Init => AdmittedWithinScope
  BY DEF Init, AdmittedWithinScope
<1>2. TypeOK /\ AdmittedWithinScope /\ [Next]_vars => AdmittedWithinScope'
  <2> SUFFICES ASSUME TypeOK, AdmittedWithinScope, [Next]_vars
               PROVE  AdmittedWithinScope'
    OBVIOUS
  <2>1. CASE UNCHANGED <<pc, job, handed>>
    BY <2>1 DEF AdmittedWithinScope
  <2>2. ASSUME NEW p \in Pollers, NEW r, End(p, r), UNCHANGED handed
        PROVE  AdmittedWithinScope'
    BY <2>2 DEF AdmittedWithinScope, End, TypeOK
  <2>3. ASSUME NEW p \in Pollers, NEW j \in Jobs, Verdict(snap[p], j, now) = "none",
               pc' = [pc EXCEPT ![p] = "writing"],
               job' = [job EXCEPT ![p] = [doc |-> j, at |-> now]],
               UNCHANGED handed
        PROVE  AdmittedWithinScope'
    BY <2>3, VerdictScope DEF AdmittedWithinScope, TypeOK
  <2>4. ASSUME NEW p \in Pollers, Persist(p) PROVE AdmittedWithinScope'
    BY <2>4 DEF AdmittedWithinScope, Persist, TypeOK
  <2>5. ASSUME NEW p \in Pollers, ReturnReady(p) PROVE AdmittedWithinScope'
    <3>1. InScope(job[p]) /\ job[p] \in Admitted
      BY <2>5 DEF AdmittedWithinScope, ReturnReady, TypeOK
    <3>2. \A i \in 1..Len(handed') : InScope(handed'[i])
      BY <2>5, <3>1, AppendProperties DEF AdmittedWithinScope, ReturnReady, TypeOK
    <3>3. \A q \in Pollers : pc'[q] \in {"writing", "persisted"} => InScope(job'[q])
      BY <2>5 DEF AdmittedWithinScope, ReturnReady, End, TypeOK
    <3> QED
      BY <3>2, <3>3 DEF AdmittedWithinScope
  <2>6. ASSUME NEW p \in Pollers, StartPoll(p) PROVE AdmittedWithinScope'
    BY <2>6, <2>2 DEF AdmittedWithinScope, StartPoll, TypeOK
  <2>7. ASSUME NEW p \in Pollers, NEW j \in Jobs, ReceiveJob(p, j)
        PROVE  AdmittedWithinScope'
    BY <2>7, <2>2, <2>3 DEF ReceiveJob
  <2>8. ASSUME NEW p \in Pollers,
               ReceiveNothing(p) \/ TimeOut(p) \/ PersistFails(p) \/ Crash(p)
        PROVE  AdmittedWithinScope'
    BY <2>8, <2>2 DEF ReceiveNothing, TimeOut, PersistFails, Crash
  <2>9. CASE Tick \/ \E t \in 1..MaxTime : Enroll(t)
    BY <2>9, <2>1 DEF Tick, Enroll
  <2>10. CASE UNCHANGED vars
    BY <2>10, <2>1 DEF vars
  <2> QED
    BY <2>4, <2>5, <2>6, <2>7, <2>8, <2>9, <2>10 DEF Next
<1> QED
  BY <1>1, <1>2, TypeCorrect, PTL DEF Spec

-----------------------------------------------------------------------------
(* rememberReplay keeps the two lists in step and within the bound.        *)
LEMMA RememberInStep ==
  ASSUME NEW r \in ReplayStates, InStep(r), NEW j \in Jobs
  PROVE  /\ InStep(Remember(r, j))
         /\ Len(Remember(r, j).jobIds) <= MaxEntries
         /\ Len(Remember(r, j).nonces) <= MaxEntries
<1> DEFINE a == Append(r.jobIds, j.jobId)
           b == Append(r.nonces, j.nonce)
           n == Len(r.jobIds)
<1>1. /\ r.jobIds \in Seq(JobIds) /\ r.nonces \in Seq(Nonces)
      /\ j.jobId \in JobIds /\ j.nonce \in Nonces
      /\ n \in Nat /\ Len(r.nonces) = n
  BY DEF JobIds, Nonces, ReplayStates, InStep
<1>2. /\ a \in Seq(JobIds) /\ b \in Seq(Nonces)
      /\ Len(a) = n + 1 /\ Len(b) = n + 1
  BY <1>1, AppendProperties
<1>3. \A i \in 1..(n + 1) : \E k \in Jobs : a[i] = k.jobId /\ b[i] = k.nonce
  <2> SUFFICES ASSUME NEW i \in 1..(n + 1)
               PROVE  \E k \in Jobs : a[i] = k.jobId /\ b[i] = k.nonce
    OBVIOUS
  <2>1. CASE i = n + 1
    BY <1>1, <2>1, AppendProperties
  <2>2. CASE i \in 1..n
    <3>1. a[i] = r.jobIds[i] /\ b[i] = r.nonces[i]
      BY <1>1, <2>2, AppendProperties
    <3> QED
      BY <1>1, <2>2, <3>1 DEF InStep
  <2> QED
    BY <1>1, <2>1, <2>2
<1> HIDE DEF a, b, n
<1> DEFINE la == LastEntries(a)
           lb == LastEntries(b)
<1>4. /\ Len(la) = (IF Len(a) <= MaxEntries THEN Len(a) ELSE MaxEntries)
      /\ \A i \in 1..Len(la) : la[i] = a[Len(a) - Len(la) + i]
  BY <1>2, LastEntriesElements
<1>5. /\ Len(lb) = (IF Len(b) <= MaxEntries THEN Len(b) ELSE MaxEntries)
      /\ \A i \in 1..Len(lb) : lb[i] = b[Len(b) - Len(lb) + i]
  BY <1>2, LastEntriesElements
<1> HIDE DEF la, lb
<1>6. /\ Len(la) \in Nat /\ Len(la) <= MaxEntries /\ Len(la) <= Len(a)
      /\ Len(lb) = Len(la)
  BY <1>1, <1>2, <1>4, <1>5, RunnerConstants
<1>7. \A i \in 1..Len(la) : \E k \in Jobs : la[i] = k.jobId /\ lb[i] = k.nonce
  <2> SUFFICES ASSUME NEW i \in 1..Len(la)
               PROVE  \E k \in Jobs : la[i] = k.jobId /\ lb[i] = k.nonce
    OBVIOUS
  <2> DEFINE m == Len(a) - Len(la) + i
  <2>1. m \in 1..(n + 1)
    BY <1>1, <1>2, <1>6
  <2>2. la[i] = a[m] /\ lb[i] = b[m]
    BY <1>2, <1>4, <1>5, <1>6
  <2> QED
    BY <1>3, <2>1, <2>2
<1>8. Remember(r, j) = [jobIds |-> la, nonces |-> lb]
  BY DEF Remember, a, b, la, lb
<1> QED
  BY <1>6, <1>7, <1>8 DEF InStep

(* For every number of pollers: the lists of the file and of every         *)
(* snapshot stay in step.                                                  *)
THEOREM InStepHolds == Spec => []ListsInStep
<1>1. InStep(EmptyReplay)
  BY EmptySeq DEF InStep, EmptyReplay
<1>2. Init => ListsInStep
  BY <1>1 DEF Init, ListsInStep
<1>3. TypeOK /\ ListsInStep /\ [Next]_vars => ListsInStep'
  <2> SUFFICES ASSUME TypeOK, ListsInStep, [Next]_vars
               PROVE  ListsInStep'
    OBVIOUS
  <2>1. CASE UNCHANGED <<replay, snap>>
    BY <2>1 DEF ListsInStep
  <2>2. ASSUME NEW p \in Pollers, NEW r, End(p, r), UNCHANGED replay
        PROVE  ListsInStep'
    BY <1>1, <2>2 DEF ListsInStep, End, TypeOK
  <2>3. ASSUME NEW p \in Pollers, StartPoll(p) PROVE ListsInStep'
    BY <2>3, <2>2 DEF ListsInStep, StartPoll, TypeOK
  <2>4. ASSUME NEW p \in Pollers, Persist(p) PROVE ListsInStep'
    <3>1. job[p].doc \in Jobs /\ snap[p] \in ReplayStates /\ InStep(snap[p])
      BY <2>4 DEF TypeOK, Persist, Admitted, ListsInStep
    <3>2. InStep(replay')
      BY <2>4, <3>1, RememberInStep DEF Persist
    <3> QED
      BY <2>4, <3>2 DEF ListsInStep, Persist
  <2>5. ASSUME NEW p \in Pollers, NEW j \in Jobs, ReceiveJob(p, j) PROVE ListsInStep'
    BY <2>5, <2>1, <2>2 DEF ReceiveJob
  <2>6. ASSUME NEW p \in Pollers,
               ReceiveNothing(p) \/ TimeOut(p) \/ PersistFails(p) \/ ReturnReady(p) \/ Crash(p)
        PROVE  ListsInStep'
    BY <2>6, <2>2 DEF ReceiveNothing, TimeOut, PersistFails, ReturnReady, Crash
  <2>7. CASE Tick \/ \E t \in 1..MaxTime : Enroll(t)
    BY <2>7, <2>1 DEF Tick, Enroll
  <2>8. CASE UNCHANGED vars
    BY <2>8, <2>1 DEF vars
  <2> QED
    BY <2>3, <2>4, <2>5, <2>6, <2>7, <2>8 DEF Next
<1> QED
  BY <1>2, <1>3, TypeCorrect, PTL DEF Spec

(* Under the two conditions the code needs, the cache never becomes        *)
(* unreadable, for every number of pollers: no nonce of a job is refused   *)
(* by the parser of the cache, and a full cache fits in MAX_REPLAY_BYTES.  *)
THEOREM ReadableHolds ==
  ASSUME Nonces \cap UnstorableNonces = {},
         \A n \in 0..MaxEntries : EntryBytes * n <= MaxBytes
  PROVE  Spec => []CacheStaysReadable
<1> DEFINE Bounded == Len(replay.jobIds) <= MaxEntries /\ Len(replay.nonces) <= MaxEntries
<1>1. Init => Bounded
  BY RunnerConstants, EmptySeq DEF Init, EmptyReplay
<1>2. TypeOK /\ ListsInStep /\ Bounded /\ [Next]_vars => Bounded'
  <2> SUFFICES ASSUME TypeOK, ListsInStep, Bounded, [Next]_vars
               PROVE  Bounded'
    OBVIOUS
  <2>1. CASE UNCHANGED replay
    BY <2>1
  <2>2. ASSUME NEW p \in Pollers, Persist(p) PROVE Bounded'
    <3>1. job[p].doc \in Jobs /\ snap[p] \in ReplayStates /\ InStep(snap[p])
      BY <2>2 DEF TypeOK, Persist, Admitted, ListsInStep
    <3> QED
      BY <2>2, <3>1, RememberInStep DEF Persist
  <2> QED
    BY <2>1, <2>2 DEF Next, vars, Tick, Enroll, StartPoll, ReceiveNothing, ReceiveJob,
                      TimeOut, PersistFails, ReturnReady, Crash
<1>3. TypeOK /\ Bounded => CacheStaysReadable
  <2> SUFFICES ASSUME TypeOK, Bounded PROVE Readable(replay)
    BY DEF CacheStaysReadable
  <2>1. Len(replay.jobIds) \in 0..MaxEntries
    BY RunnerConstants DEF TypeOK, ReplayStates
  <2>2. Elems(replay.nonces) \subseteq Nonces
    BY DEF TypeOK, ReplayStates, Elems
  <2> QED
    BY <2>1, <2>2 DEF Readable
<1> QED
  BY <1>1, <1>2, <1>3, TypeCorrect, InStepHolds, PTL DEF Spec

-----------------------------------------------------------------------------
(* Appending to the tail of a log and keeping the newest elements again    *)
(* gives the tail of the longer log.                                       *)
LEMMA TailOfAppend ==
  ASSUME NEW S, NEW s \in Seq(S), NEW R, NEW log \in Seq(R), NEW f \in [R -> S],
         NEW x \in R, IsTail(s, f, log)
  PROVE  IsTail(LastEntries(Append(s, f[x])), f, Append(log, x))
<1> DEFINE a == Append(s, f[x])
           l == Append(log, x)
           t == LastEntries(a)
<1>1. /\ a \in Seq(S) /\ Len(a) = Len(s) + 1 /\ a[Len(s) + 1] = f[x]
      /\ \A i \in 1..Len(s) : a[i] = s[i]
  BY AppendProperties
<1>2. /\ Len(l) = Len(log) + 1 /\ l[Len(log) + 1] = x
      /\ \A i \in 1..Len(log) : l[i] = log[i]
  BY AppendProperties
<1>3. /\ Len(t) = (IF Len(a) <= MaxEntries THEN Len(a) ELSE MaxEntries)
      /\ \A i \in 1..Len(t) : t[i] = a[Len(a) - Len(t) + i]
  BY <1>1, LastEntriesElements
<1>4. /\ Len(s) \in Nat /\ Len(log) \in Nat
      /\ Len(s) = IF Len(log) <= MaxEntries THEN Len(log) ELSE MaxEntries
      /\ \A i \in 1..Len(s) : s[i] = f[log[Len(log) - Len(s) + i]]
  BY DEF IsTail
<1> HIDE DEF a, l, t
<1>5. Len(t) = IF Len(l) <= MaxEntries THEN Len(l) ELSE MaxEntries
  BY <1>1, <1>2, <1>3, <1>4, RunnerConstants
<1>6. ASSUME NEW i \in 1..Len(t) PROVE t[i] = f[l[Len(l) - Len(t) + i]]
  <2> DEFINE m == Len(a) - Len(t) + i
  <2>0. Len(t) \in Nat /\ Len(t) <= Len(a)
    BY <1>1, <1>3, <1>4, RunnerConstants
  <2>1. t[i] = a[m] /\ m \in 1..(Len(s) + 1)
    BY <1>1, <1>3, <1>4, <2>0
  <2>2. Len(l) - Len(t) + i = Len(log) - Len(s) + m
    BY <1>1, <1>2, <1>4, <2>0
  <2>3. CASE m = Len(s) + 1
    <3>1. t[i] = f[x]
      BY <1>1, <2>1, <2>3
    <3>2. Len(l) - Len(t) + i = Len(log) + 1
      BY <1>4, <2>2, <2>3
    <3> QED
      BY <1>2, <3>1, <3>2
  <2>4. CASE m \in 1..Len(s)
    <3> DEFINE k == Len(log) - Len(s) + m
    <3>1. Len(s) <= Len(log)
      BY <1>4, RunnerConstants
    <3>2. k \in 1..Len(log)
      BY <1>4, <2>4, <3>1
    <3>3. t[i] = s[m]
      BY <1>1, <2>1, <2>4
    <3>4. s[m] = f[log[k]]
      BY <1>4, <2>4
    <3>5. l[k] = log[k]
      BY <1>2, <3>2
    <3> QED
      BY <2>2, <3>3, <3>4, <3>5
  <2>5. m = Len(s) + 1 \/ m \in 1..Len(s)
    BY <1>4, <2>1
  <2> QED
    BY <2>3, <2>4, <2>5
<1> QED
  BY <1>5, <1>6 DEF a, l, t, IsTail

(* What a poll decided of its snapshot stays true of it until it returns.  *)
Decided ==
  \A p \in Pollers : pc[p] = "writing" => ~Replayed(snap[p], job[p].doc)

LEMMA DecidedHolds == Spec => []Decided
<1>1. Init => Decided
  BY DEF Init, Decided
<1>2. TypeOK /\ Decided /\ [Next]_vars => Decided'
  <2> SUFFICES ASSUME TypeOK, Decided, [Next]_vars PROVE Decided'
    OBVIOUS
  <2>1. CASE UNCHANGED <<pc, snap, job>>
    BY <2>1 DEF Decided
  <2>2. ASSUME NEW p \in Pollers, NEW r, End(p, r) PROVE Decided'
    BY <2>2 DEF Decided, End, TypeOK
  <2>3. ASSUME NEW p \in Pollers, StartPoll(p) PROVE Decided'
    <3>1. CASE pc' = [pc EXCEPT ![p] = "fetching"]
               /\ snap' = [snap EXCEPT ![p] = replay] /\ Readable(replay)
               /\ UNCHANGED job
      BY <3>1 DEF Decided, TypeOK
    <3> QED
      BY <2>2, <2>3, <3>1 DEF StartPoll
  <2>4. ASSUME NEW p \in Pollers, NEW j \in Jobs, ReceiveJob(p, j) PROVE Decided'
    <3> DEFINE v == Verdict(snap[p], j, now)
    <3>1. CASE v = "none" /\ pc' = [pc EXCEPT ![p] = "writing"]
               /\ job' = [job EXCEPT ![p] = [doc |-> j, at |-> now]] /\ UNCHANGED snap
      <4>1. ~Replayed(snap[p], j)
        BY <2>4, <3>1, VerdictScope DEF ReceiveJob, TypeOK
      <4> QED
        BY <3>1, <4>1 DEF Decided, TypeOK
    <3>2. CASE End(p, v)
      BY <2>2, <3>2
    <3> QED
      BY <2>4, <3>1, <3>2 DEF ReceiveJob
  <2>5. ASSUME NEW p \in Pollers, Persist(p) PROVE Decided'
    BY <2>5 DEF Decided, Persist, TypeOK
  <2>6. ASSUME NEW p \in Pollers,
               ReceiveNothing(p) \/ TimeOut(p) \/ PersistFails(p) \/ ReturnReady(p) \/ Crash(p)
        PROVE  Decided'
    BY <2>6, <2>2 DEF ReceiveNothing, TimeOut, PersistFails, ReturnReady, Crash
  <2>7. CASE Tick \/ \E t \in 1..MaxTime : Enroll(t)
    BY <2>7, <2>1 DEF Tick, Enroll
  <2>8. CASE UNCHANGED vars
    BY <2>8, <2>1 DEF vars
  <2> QED
    BY <2>3, <2>4, <2>5, <2>6, <2>7, <2>8 DEF Next
<1> QED
  BY <1>1, <1>2, TypeCorrect, PTL DEF Spec

(* A write of a poll that had read the current file extends the log and    *)
(* leaves the cache its tail.                                              *)
LEMMA PersistKeepsTail ==
  ASSUME TypeOK, CacheIsLogTail, NEW p \in Pollers, Persist(p), ~forked'
  PROVE  /\ IsTail(replay'.jobIds, IdOf, recorded')
         /\ IsTail(replay'.nonces, NonceOf, recorded')
<1> DEFINE j == job[p].doc
<1>0. ~forked /\ snap[p] = replay
  BY DEF Persist
<1>1. /\ j \in Jobs
      /\ replay' = Remember(replay, j)
      /\ recorded' = Append(recorded, j)
  BY <1>0 DEF TypeOK, Persist, Admitted
<1>2. /\ IdOf \in [Jobs -> JobIds] /\ NonceOf \in [Jobs -> Nonces]
      /\ IdOf[j] = j.jobId /\ NonceOf[j] = j.nonce
  BY <1>1 DEF JobIds, Nonces, IdOf, NonceOf
<1>3. /\ replay.jobIds \in Seq(JobIds) /\ replay.nonces \in Seq(Nonces)
      /\ recorded \in Seq(Jobs)
  BY DEF TypeOK, ReplayStates
<1>4. /\ replay'.jobIds = LastEntries(Append(replay.jobIds, IdOf[j]))
      /\ replay'.nonces = LastEntries(Append(replay.nonces, NonceOf[j]))
  BY <1>1, <1>2 DEF Remember
<1>5. IsTail(replay.jobIds, IdOf, recorded) /\ IsTail(replay.nonces, NonceOf, recorded)
  BY <1>0 DEF CacheIsLogTail
<1> HIDE DEF j
<1>6. IsTail(replay'.jobIds, IdOf, recorded')
  BY <1>1, <1>2, <1>3, <1>4, <1>5, TailOfAppend
<1>7. IsTail(replay'.nonces, NonceOf, recorded')
  BY <1>1, <1>2, <1>3, <1>4, <1>5, TailOfAppend
<1> QED
  BY <1>6, <1>7

(* Every step but the write of a poll leaves file, log and fork alone.     *)
LEMMA OnlyPersistWrites ==
  ASSUME [Next]_vars, ~\E p \in Pollers : Persist(p)
  PROVE  UNCHANGED <<replay, recorded, forked>>
BY DEF Next, vars, Tick, Enroll, StartPoll, ReceiveNothing, ReceiveJob, TimeOut,
       PersistFails, ReturnReady, Crash

(* Until a poll replaces a file it had not read, the cache is the tail of  *)
(* everything ever persisted.                                              *)
THEOREM TailHolds == Spec => []CacheIsLogTail
<1>1. Init => CacheIsLogTail
  BY RunnerConstants, EmptySeq DEF Init, CacheIsLogTail, EmptyReplay, IsTail
<1>2. TypeOK /\ CacheIsLogTail /\ [Next]_vars => CacheIsLogTail'
  <2> SUFFICES ASSUME TypeOK, CacheIsLogTail, [Next]_vars, ~forked'
               PROVE  /\ IsTail(replay'.jobIds, IdOf, recorded')
                      /\ IsTail(replay'.nonces, NonceOf, recorded')
    BY DEF CacheIsLogTail
  <2>1. CASE \E p \in Pollers : Persist(p)
    BY <2>1, PersistKeepsTail
  <2>2. CASE ~\E p \in Pollers : Persist(p)
    BY <2>2, OnlyPersistWrites DEF CacheIsLogTail
  <2> QED
    BY <2>1, <2>2
<1> QED
  BY <1>1, <1>2, TypeCorrect, PTL DEF Spec

(* What the tail of the log does not hold is fresh for the ledger.         *)
LEMMA TailIsFresh ==
  ASSUME TypeOK, CacheIsLogTail, ~forked, NEW j \in Jobs, ~Replayed(replay, j)
  PROVE  Ledger!Fresh(j)
<1> DEFINE k == Len(replay.jobIds)
<1> SUFFICES ASSUME NEW i \in 1..Len(recorded), i > Len(recorded) - MaxEntries
             PROVE  recorded[i].jobId # j.jobId /\ recorded[i].nonce # j.nonce
  BY DEF Ledger!Fresh
<1> DEFINE m == i - (Len(recorded) - k)
<1>1. /\ Len(recorded) \in Nat /\ recorded[i] \in Jobs
      /\ k = (IF Len(recorded) <= MaxEntries THEN Len(recorded) ELSE MaxEntries)
      /\ Len(replay.nonces) = k
      /\ \A n \in 1..k : /\ replay.jobIds[n] = IdOf[recorded[Len(recorded) - k + n]]
                         /\ replay.nonces[n] = NonceOf[recorded[Len(recorded) - k + n]]
  <2>1. IsTail(replay.jobIds, IdOf, recorded) /\ IsTail(replay.nonces, NonceOf, recorded)
    BY DEF CacheIsLogTail
  <2>2. recorded \in Seq(Jobs)
    BY DEF TypeOK
  <2> QED
    BY <2>1, <2>2 DEF IsTail
<1>2. m \in 1..k /\ Len(recorded) - k + m = i
  <2> DEFINE n == Len(recorded)
  <2>1. /\ n \in Nat /\ i \in Nat /\ 1 <= i /\ i <= n /\ i > n - MaxEntries
        /\ k = (IF n <= MaxEntries THEN n ELSE MaxEntries)
    BY <1>1
  <2> HIDE DEF k, n
  <2>2. CASE n <= MaxEntries
    BY <2>1, <2>2 DEF n
  <2>3. CASE ~(n <= MaxEntries)
    BY <2>1, <2>3, RunnerConstants DEF n
  <2> QED
    BY <2>2, <2>3
<1> HIDE DEF m
<1>3. replay.jobIds[m] = IdOf[recorded[i]] /\ replay.nonces[m] = NonceOf[recorded[i]]
  BY <1>1, <1>2
<1>4. replay.jobIds[m] = recorded[i].jobId /\ replay.nonces[m] = recorded[i].nonce
  BY <1>1, <1>3 DEF IdOf, NonceOf
<1> QED
  BY <1>1, <1>2, <1>4 DEF Replayed, Elems

(* The cache implements the ledger for any number of pollers: until the    *)
(* file is forked no identity and no nonce is accepted again while it is   *)
(* one of the last MaxEntries.                                             *)
THEOREM ImplementsLedger == Spec => LedgerSpec
<1>1. Init => Ledger!Init
  BY DEF Init, Ledger!Init
<1>2. TypeOK /\ CacheIsLogTail /\ Decided /\ [Next]_vars
        => [Ledger!Next]_<<recorded, forked>>
  <2> SUFFICES ASSUME TypeOK, CacheIsLogTail, Decided, [Next]_vars
               PROVE  [Ledger!Next]_<<recorded, forked>>
    OBVIOUS
  <2>1. CASE ~\E p \in Pollers : Persist(p)
    BY <2>1, OnlyPersistWrites
  <2>2. ASSUME NEW p \in Pollers, Persist(p) PROVE Ledger!Next
    <3> DEFINE j == job[p].doc
    <3>1. j \in Jobs /\ recorded' = Append(recorded, j) /\ ~Replayed(snap[p], j)
      BY <2>2 DEF TypeOK, Decided, Persist, Admitted
    <3>2. ASSUME ~forked' PROVE Ledger!Fresh(j)
      <4>1. ~forked /\ snap[p] = replay
        BY <2>2, <3>2 DEF Persist
      <4> HIDE DEF j
      <4> QED
        BY <3>1, <4>1, TailIsFresh
    <3>3. forked' \in {forked, TRUE}
      BY <2>2 DEF Persist, TypeOK
    <3> HIDE DEF j
    <3> QED
      BY <3>1, <3>2, <3>3 DEF Ledger!Next, Ledger!Record
  <2> QED
    BY <2>1, <2>2
<1> QED
  BY <1>1, <1>2, TypeCorrect, TailHolds, DecidedHolds, PTL DEF Spec, LedgerSpec, Ledger!Spec

(* For any number of pollers: an unreadable cache that no poll under way   *)
(* had read before it became unreadable ends all polling.                  *)
THEOREM WedgeHolds == Spec => WedgeIsFailClosed
<1>1. TypeOK /\ [Next]_vars => [Wedged => Wedged']_vars
  <2> SUFFICES ASSUME TypeOK, [Next]_vars, Wedged PROVE Wedged'
    OBVIOUS
  <2>1. CASE UNCHANGED <<replay, pc>>
    BY <2>1 DEF Wedged, Readable, Elems
  <2>2. ASSUME NEW p \in Pollers, StartPoll(p) PROVE Wedged'
    <3>1. UNCHANGED replay
      BY <2>2 DEF StartPoll
    <3>2. End(p, "no_runner_credential") \/ End(p, "invalid_input")
      BY <2>2 DEF StartPoll, Wedged
    <3>3. \A q \in Pollers : pc'[q] = "idle"
      BY <3>2 DEF Wedged, End, TypeOK
    <3>4. ~Readable(replay')
      BY <3>1 DEF Wedged
    <3> QED
      BY <3>3, <3>4 DEF Wedged, Readable, Elems
  <2>3. CASE Tick \/ (\E t \in 1..MaxTime : Enroll(t)) \/ UNCHANGED vars
    BY <2>1, <2>3 DEF Tick, Enroll, vars
  <2> QED
    BY <2>2, <2>3 DEF Next, Wedged, ReceiveNothing, ReceiveJob, TimeOut, Persist,
                      PersistFails, ReturnReady, Crash, Active
<1> QED
  BY <1>1, TypeCorrect, PTL DEF Spec, WedgeIsFailClosed

-----------------------------------------------------------------------------
\* The polls that have persisted job j and have still to report it.
Owing(j) == {p \in Pollers : pc[p] = "persisted" /\ job[p].doc = j}

\* Where a log holds elements of a set: in finitely many places.
Places(log, sub) == {i \in 1..Len(log) : log[i] \in sub}

LEMMA PlacesFinite ==
  ASSUME NEW R, NEW log \in Seq(R), NEW sub
  PROVE  IsFiniteSet(Places(log, sub)) /\ Cardinality(Places(log, sub)) \in Nat
<1>1. Len(log) \in Nat /\ Places(log, sub) \in SUBSET (1..Len(log))
  BY DEF Places
<1>2. IsFiniteSet(1..Len(log))
  BY <1>1, FS_Interval
<1>3. IsFiniteSet(Places(log, sub))
  BY <1>1, <1>2, FS_Subset
<1> QED
  BY <1>3, FS_CardinalityType

LEMMA PlacesOfAppend ==
  ASSUME NEW R, NEW log \in Seq(R), NEW x \in R, NEW sub
  PROVE  Cardinality(Places(Append(log, x), sub)) =
           Cardinality(Places(log, sub)) + (IF x \in sub THEN 1 ELSE 0)
<1> DEFINE n == Len(log)
           l == Append(log, x)
<1>1. n \in Nat /\ n + 1 \notin Places(log, sub)
  BY DEF Places
<1>2. Len(l) = n + 1 /\ l[n + 1] = x /\ \A i \in 1..n : l[i] = log[i]
  BY AppendProperties
<1>3. IsFiniteSet(Places(log, sub)) /\ Cardinality(Places(log, sub)) \in Nat
  BY PlacesFinite
<1> HIDE DEF l
<1>4. CASE x \in sub
  <2>1. Places(l, sub) = Places(log, sub) \cup {n + 1}
    BY <1>1, <1>2, <1>4 DEF Places
  <2>2. Cardinality(Places(l, sub)) = Cardinality(Places(log, sub)) + 1
    BY <1>1, <1>3, <2>1, FS_AddElement
  <2> QED
    BY <1>4, <2>2 DEF l
<1>5. CASE x \notin sub
  <2>1. Places(l, sub) = Places(log, sub)
    BY <1>1, <1>2, <1>5 DEF Places
  <2> QED
    BY <1>3, <1>5, <2>1 DEF l
<1> QED
  BY <1>4, <1>5

\* The reports and the writes of a job, as places in the two histories.
Reports(j) == Places(handed, {a \in Admitted : a.doc = j})
Writes(j) == Places(recorded, {j})

LEMMA HistoriesArePlaces ==
  ASSUME TypeOK, NEW j \in Jobs
  PROVE  /\ Hands(j) = Reports(j) /\ Positions(j) = Writes(j)
         /\ Cardinality(Reports(j)) \in Nat /\ Cardinality(Writes(j)) \in Nat
<1>1. \A i \in 1..Len(handed) : handed[i] \in Admitted
  BY DEF TypeOK
<1>2. Hands(j) = Reports(j) /\ Positions(j) = Writes(j)
  BY <1>1 DEF Hands, Positions, Places, Reports, Writes
<1> QED
  BY <1>2, PlacesFinite DEF TypeOK, Reports, Writes

(* Every report of a job, made or still to be made, has a write of its own.*)
Owed ==
  \A j \in Jobs :
    /\ IsFiniteSet(Owing(j))
    /\ Cardinality(Reports(j)) + Cardinality(Owing(j)) <= Cardinality(Writes(j))

\* A step that persists and reports nothing lets no poll owe more.
LEMMA NoMoreOwed ==
  ASSUME TypeOK, Owed, UNCHANGED <<recorded, handed>>, \A j \in Jobs : Owing(j)' \subseteq Owing(j)
  PROVE  Owed'
<1> SUFFICES ASSUME NEW j \in Jobs
             PROVE  /\ IsFiniteSet(Owing(j)')
                    /\ Cardinality(Reports(j)) + Cardinality(Owing(j)') <= Cardinality(Writes(j))
  BY DEF Owed, Reports, Writes
<1>1. IsFiniteSet(Owing(j)) /\ Cardinality(Owing(j)) \in Nat
      /\ Cardinality(Reports(j)) + Cardinality(Owing(j)) <= Cardinality(Writes(j))
  BY FS_CardinalityType DEF Owed
<1>2. IsFiniteSet(Owing(j)') /\ Cardinality(Owing(j)') <= Cardinality(Owing(j))
  BY <1>1, FS_Subset
<1>3. Cardinality(Owing(j)') \in Nat
  BY <1>2, FS_CardinalityType
<1> QED
  BY <1>1, <1>2, <1>3, HistoriesArePlaces

LEMMA PersistOwes ==
  ASSUME TypeOK, Owed, NEW p \in Pollers, Persist(p)
  PROVE  Owed'
<1> SUFFICES ASSUME NEW j \in Jobs
             PROVE  /\ IsFiniteSet(Owing(j)')
                    /\ Cardinality(Reports(j)) + Cardinality(Owing(j)') <= Cardinality(Writes(j)')
  BY DEF Owed, Reports, Persist
<1> DEFINE d == job[p].doc
<1>1. d \in Jobs /\ recorded \in Seq(Jobs) /\ recorded' = Append(recorded, d)
  BY DEF TypeOK, Persist, Admitted
<1>2. Cardinality(Writes(j)') = Cardinality(Writes(j)) + (IF d = j THEN 1 ELSE 0)
  <2> HIDE DEF d
  <2> QED
    BY <1>1, PlacesOfAppend DEF Writes
<1>3. Owing(j)' = IF d = j THEN Owing(j) \cup {p} ELSE Owing(j)
  BY DEF Owing, Persist, TypeOK
<1>4. p \notin Owing(j)
  BY DEF Owing, Persist
<1>5. IsFiniteSet(Owing(j)) /\ Cardinality(Owing(j)) \in Nat
      /\ Cardinality(Reports(j)) + Cardinality(Owing(j)) <= Cardinality(Writes(j))
      /\ Cardinality(Reports(j)) \in Nat /\ Cardinality(Writes(j)) \in Nat
  BY FS_CardinalityType, HistoriesArePlaces DEF Owed
<1>6. IsFiniteSet(Owing(j)')
      /\ Cardinality(Owing(j)') = Cardinality(Owing(j)) + (IF d = j THEN 1 ELSE 0)
  BY <1>3, <1>4, <1>5, FS_AddElement
<1> QED
  BY <1>2, <1>5, <1>6

LEMMA ReturnReadyPays ==
  ASSUME TypeOK, Owed, NEW p \in Pollers, ReturnReady(p)
  PROVE  Owed'
<1> SUFFICES ASSUME NEW j \in Jobs
             PROVE  /\ IsFiniteSet(Owing(j)')
                    /\ Cardinality(Reports(j)') + Cardinality(Owing(j)') <= Cardinality(Writes(j))
  BY DEF Owed, Writes, ReturnReady
<1> DEFINE d == job[p].doc
<1>1. job[p] \in Admitted /\ handed \in Seq(Admitted) /\ handed' = Append(handed, job[p])
  BY DEF TypeOK, ReturnReady
<1>2. Cardinality(Reports(j)') = Cardinality(Reports(j)) + (IF d = j THEN 1 ELSE 0)
  <2>1. job[p] \in {a \in Admitted : a.doc = j} <=> d = j
    BY <1>1
  <2> QED
    BY <1>1, <2>1, PlacesOfAppend DEF Reports
<1>3. Owing(j)' = Owing(j) \ {p}
  BY DEF Owing, ReturnReady, End, TypeOK
<1>4. p \in Owing(j) <=> d = j
  BY DEF Owing, ReturnReady
<1>5. IsFiniteSet(Owing(j)) /\ Cardinality(Owing(j)) \in Nat
      /\ Cardinality(Reports(j)) + Cardinality(Owing(j)) <= Cardinality(Writes(j))
      /\ Cardinality(Reports(j)) \in Nat /\ Cardinality(Writes(j)) \in Nat
  BY FS_CardinalityType, HistoriesArePlaces DEF Owed
<1>6. IsFiniteSet(Owing(j)')
      /\ Cardinality(Owing(j)') = Cardinality(Owing(j)) - (IF d = j THEN 1 ELSE 0)
  BY <1>3, <1>4, <1>5, FS_RemoveElement
<1> QED
  BY <1>2, <1>5, <1>6

(* For every number of pollers, however they crash and whatever file they  *)
(* replace: a job is reported ready at most as often as it was persisted.  *)
THEOREM PersistedFirst == Spec => []PersistedBeforeReady
<1>1. Init => Owed
  <2> SUFFICES ASSUME Init, NEW j \in Jobs
               PROVE  /\ IsFiniteSet(Owing(j))
                      /\ Cardinality(Reports(j)) + Cardinality(Owing(j)) <= Cardinality(Writes(j))
    BY DEF Owed
  <2>1. Owing(j) = {} /\ Reports(j) = {} /\ Writes(j) = {}
    BY DEF Init, Owing, Reports, Writes, Places
  <2> QED
    BY <2>1, FS_EmptySet
<1>2. TypeOK /\ Owed /\ [Next]_vars => Owed'
  <2> SUFFICES ASSUME TypeOK, Owed, [Next]_vars PROVE Owed'
    OBVIOUS
  <2>1. CASE UNCHANGED <<pc, job, recorded, handed>>
    <3>1. \A j \in Jobs : Owing(j)' \subseteq Owing(j)
      BY <2>1 DEF Owing
    <3> QED
      BY <2>1, <3>1, NoMoreOwed
  <2>2. ASSUME NEW p \in Pollers, NEW r, End(p, r), UNCHANGED <<recorded, handed>>
        PROVE  Owed'
    <3>1. \A j \in Jobs : Owing(j)' \subseteq Owing(j)
      BY <2>2 DEF Owing, End, TypeOK
    <3> QED
      BY <2>2, <3>1, NoMoreOwed
  <2>3. ASSUME NEW p \in Pollers, StartPoll(p) \/ \E j \in Jobs : ReceiveJob(p, j)
        PROVE  Owed'
    <3>1. CASE \E r : End(p, r)
      BY <2>2, <2>3, <3>1 DEF StartPoll, ReceiveJob
    <3>2. CASE ~\E r : End(p, r)
      <4>1. \A k \in Jobs : Owing(k)' \subseteq Owing(k)
        BY <2>3, <3>2 DEF Owing, StartPoll, ReceiveJob, TypeOK
      <4> QED
        BY <2>3, <4>1, NoMoreOwed DEF StartPoll, ReceiveJob
    <3> QED
      BY <3>1, <3>2
  <2>4. ASSUME NEW p \in Pollers, ReceiveNothing(p) \/ TimeOut(p) \/ PersistFails(p) \/ Crash(p)
        PROVE  Owed'
    BY <2>4, <2>2 DEF ReceiveNothing, TimeOut, PersistFails, Crash
  <2>5. ASSUME NEW p \in Pollers, Persist(p) \/ ReturnReady(p)
        PROVE  Owed'
    BY <2>5, PersistOwes, ReturnReadyPays
  <2>6. CASE Tick \/ (\E t \in 1..MaxTime : Enroll(t)) \/ UNCHANGED vars
    BY <2>6, <2>1 DEF Tick, Enroll, vars
  <2> QED
    BY <2>3, <2>4, <2>5, <2>6 DEF Next
<1>3. TypeOK /\ Owed => PersistedBeforeReady
  <2> SUFFICES ASSUME TypeOK, Owed, NEW j \in Jobs
               PROVE  Cardinality(Hands(j)) <= Cardinality(Positions(j))
    BY DEF PersistedBeforeReady
  <2>1. Cardinality(Owing(j)) \in Nat
        /\ Cardinality(Reports(j)) + Cardinality(Owing(j)) <= Cardinality(Writes(j))
    BY FS_CardinalityType DEF Owed
  <2> QED
    BY <2>1, HistoriesArePlaces
<1> QED
  BY <1>1, <1>2, <1>3, TypeCorrect, PTL DEF Spec

-----------------------------------------------------------------------------
(* The polls of the machine run one at a time, as they would under a lock. *)
OnePoll == \A p, q \in Pollers : pc[p] # "idle" /\ pc[q] # "idle" => p = q

\* A poll that has not written yet has read the file that is on disk.
AsRead ==
  /\ ~forked
  /\ \A p \in Pollers : pc[p] \in {"fetching", "writing"} => snap[p] = replay

\* A step keeps what a lone poll has read.
LEMMA LonePollReads ==
  ASSUME TypeOK, AsRead, OnePoll, OnePoll', [Next]_vars
  PROVE  AsRead'
<1>1. CASE UNCHANGED <<pc, snap, replay, forked>>
  BY <1>1 DEF AsRead
<1>2. ASSUME NEW p \in Pollers, NEW r, End(p, r), UNCHANGED <<replay, forked>>
      PROVE  AsRead'
  BY <1>2 DEF AsRead, End, TypeOK
<1>3. ASSUME NEW p \in Pollers, StartPoll(p)
      PROVE  AsRead'
  <2>1. CASE pc' = [pc EXCEPT ![p] = "fetching"] /\ snap' = [snap EXCEPT ![p] = replay]
    BY <1>3, <2>1 DEF AsRead, StartPoll, TypeOK
  <2> QED
    BY <1>2, <1>3, <2>1 DEF StartPoll
<1>4. ASSUME NEW p \in Pollers, NEW j \in Jobs, ReceiveJob(p, j)
      PROVE  AsRead'
  <2>1. CASE pc' = [pc EXCEPT ![p] = "writing"] /\ UNCHANGED snap
    BY <1>4, <2>1 DEF AsRead, ReceiveJob, TypeOK
  <2> QED
    BY <1>2, <1>4, <2>1 DEF ReceiveJob
<1>5. ASSUME NEW p \in Pollers, Persist(p)
      PROVE  AsRead'
  <2>1. snap[p] = replay /\ ~forked'
    BY <1>5 DEF Persist, AsRead
  <2>2. \A q \in Pollers \ {p} : pc[q] = "idle"
    BY <1>5 DEF Persist, OnePoll
  <2>3. pc' = [pc EXCEPT ![p] = "persisted"]
    BY <1>5 DEF Persist
  <2> QED
    BY <2>1, <2>2, <2>3 DEF AsRead, TypeOK
<1>6. ASSUME NEW p \in Pollers,
             ReceiveNothing(p) \/ TimeOut(p) \/ PersistFails(p) \/ ReturnReady(p) \/ Crash(p)
      PROVE  AsRead'
  BY <1>2, <1>6 DEF ReceiveNothing, TimeOut, PersistFails, ReturnReady, Crash
<1>7. CASE Tick \/ (\E t \in 1..MaxTime : Enroll(t)) \/ UNCHANGED vars
  BY <1>1, <1>7 DEF Tick, Enroll, vars
<1> QED
  BY <1>3, <1>4, <1>5, <1>6, <1>7 DEF Next

(* Nothing but the missing lock lets a replayed job through: if the polls  *)
(* of the machine run one at a time, no job that is in the cache is made   *)
(* ready again, whatever the server repeats and wherever a poll dies.      *)
THEOREM LockRefusesReplays == Spec /\ []OnePoll => ReplayedJobRefused
<1>1. Init => AsRead
  BY DEF Init, AsRead
<1>2. TypeOK /\ AsRead /\ OnePoll /\ OnePoll' /\ [Next]_vars => AsRead'
  BY LonePollReads
<1>3. Spec /\ []OnePoll => []AsRead
  BY <1>1, <1>2, TypeCorrect, PTL DEF Spec
<1>4. AsRead /\ Decided =>
        [\A p \in Pollers : (pc[p] = "writing" /\ pc'[p] = "persisted")
                               => ~Replayed(replay, job[p].doc)]_vars
  BY DEF AsRead, Decided
<1> QED
  BY <1>3, <1>4, DecidedHolds, PTL DEF ReplayedJobRefused
=============================================================================
