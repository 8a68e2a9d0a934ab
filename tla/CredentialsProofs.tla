-------------------------- MODULE CredentialsProofs --------------------------
(***************************************************************************)
(* What holds of the credential file for every number of processes, keys   *)
(* and commands.                                                           *)
(***************************************************************************)
EXTENDS Credentials, TLAPS

LEMMA EmptyRecord == Empty \in Records /\ Consistent(Empty)
BY CredentialConstants DEF Empty, Records, RunnerCredentials, Consistent

LEMMA LoadsAreRecords ==
  ASSUME TypeOK PROVE Loads \subseteq Records
BY EmptyRecord DEF TypeOK, Loads

LEMMA NoneIsNoKey == None \notin Keys
BY CredentialConstants DEF None

(* The end of a command keeps every per-process variable in its type.      *)
LEMMA EndType ==
  ASSUME TypeOK, NEW p \in Processes, NEW o \in Outcomes, End(p, o)
  PROVE  /\ pc' \in [Processes -> {"idle", "polling", "requesting", "saving", "verifying"}]
         /\ cmd' \in [Processes -> Commands \cup {Idle}]
         /\ \A q \in Processes : pc'[q] = "idle" <=> cmd'[q] = Idle
         /\ snap' \in [Processes -> Records]
         /\ want' \in [Processes -> Records]
         /\ left' \in [Processes -> Nat]
         /\ outcome' \in [Processes -> Outcomes]
BY EmptyRecord DEF TypeOK, End

(* A record that is about to be saved is a record.                         *)
LEMMA SavingType ==
  ASSUME TypeOK, NEW p \in Processes, NEW r \in Records, Saving(p, r), pc[p] # "idle",
         minted' \in RunnerCredentials
  PROVE  TypeOK'
BY DEF TypeOK, Saving

(* Every reachable state is well typed.                                    *)
THEOREM TypeCorrect == Spec => []TypeOK
<1>1. Init => TypeOK
  <2> SUFFICES ASSUME Init PROVE TypeOK
    OBVIOUS
  <2>1. clobbered \in BOOLEAN
    BY DEF Init
  <2> QED
    BY <2>1, EmptyRecord, CredentialConstants DEF Init, TypeOK, RunnerCredentials, Outcomes
<1>2. TypeOK /\ [Next]_vars => TypeOK'
  <2> SUFFICES ASSUME TypeOK, [Next]_vars PROVE TypeOK'
    OBVIOUS
  <2>1. CASE UNCHANGED vars
    BY <2>1 DEF TypeOK, vars
  <2>2. ASSUME NEW p \in Processes, NEW c \in Commands, Begin(p, c) PROVE TypeOK'
    <3>1. started' \in [Processes -> Nat]
      BY <2>2 DEF TypeOK, Begin
    <3>2. CASE End(p, "not_signed_in")
      BY <2>2, <3>1, <3>2, EndType DEF TypeOK, Begin, Outcomes
    <3>3. ASSUME NEW r \in Loads,
                 /\ pc' = [pc EXCEPT ![p] = IF c.op = "login" THEN "polling" ELSE "requesting"]
                 /\ cmd' = [cmd EXCEPT ![p] = c]
                 /\ snap' = [snap EXCEPT ![p] = r]
                 /\ left' = [left EXCEPT ![p] = IF c.op = "login" THEN MaxPolls ELSE 0]
                 /\ UNCHANGED <<want, outcome>>
          PROVE  TypeOK'
      <4>1. c # Idle
        BY DEF Commands, Idle
      <4>2. r \in Records
        BY <3>3, LoadsAreRecords
      <4> QED
        BY <2>2, <3>1, <3>3, <4>1, <4>2, CredentialConstants DEF TypeOK, Begin
    <3> QED
      BY <2>2, <3>2, <3>3 DEF Begin
  <2>3. ASSUME NEW p \in Processes, LoginPending(p) PROVE TypeOK'
    BY <2>3 DEF TypeOK, LoginPending
  <2>4. ASSUME NEW p \in Processes, LoginFails(p) \/ RequestFails(p) \/ Crash(p)
        PROVE  TypeOK'
    <3>1. PICK o \in Outcomes : End(p, o)
      BY <2>4 DEF LoginFails, RequestFails, Crash, Outcomes
    <3> QED
      BY <2>4, <3>1, EndType DEF TypeOK, LoginFails, RequestFails, Crash
  <2>5. ASSUME NEW p \in Processes, NEW k \in Keys, LoginAuthorized(p, k) PROVE TypeOK'
    <3>1. [snap[p] EXCEPT !.key = k, !.plan = k] \in Records
      BY DEF TypeOK, Records
    <3> QED
      BY <2>5, <3>1, SavingType DEF LoginAuthorized, TypeOK
  <2>6. ASSUME NEW p \in Processes, NEW issued \in BOOLEAN, ActivateAnswered(p, issued)
        PROVE  TypeOK'
    <3> DEFINE k == cmd[p].key
               r == [snap[p] EXCEPT !.key = k, !.plan = k,
                                    !.token = IF issued THEN k ELSE @]
    <3>1. k \in Keys
      <4>1. cmd[p] \in Commands
        BY <2>6 DEF TypeOK, ActivateAnswered
      <4> QED
        BY <2>6, <4>1 DEF ActivateAnswered, Commands
    <3>2. r \in Records
      BY <3>1 DEF TypeOK, Records
    <3> QED
      BY <2>6, <3>2, SavingType DEF ActivateAnswered, TypeOK
  <2>7. ASSUME NEW p \in Processes, WhoamiAnswered(p) PROVE TypeOK'
    <3>1. [snap[p] EXCEPT !.plan = snap[p].key] \in Records
      BY DEF TypeOK, Records
    <3> QED
      BY <2>7, <3>1, SavingType DEF WhoamiAnswered, TypeOK
  <2>8. ASSUME NEW p \in Processes, UnlockAnswered(p) PROVE TypeOK'
    <3>1. [snap[p] EXCEPT !.unlock = snap[p].key] \in Records
      BY DEF TypeOK, Records
    <3> QED
      BY <2>8, <3>1, SavingType DEF UnlockAnswered, TypeOK
  <2>9. ASSUME NEW p \in Processes, EnrollAnswered(p) PROVE TypeOK'
    <3>1. minted + 1 \in RunnerCredentials
      BY <2>9, CredentialConstants DEF TypeOK, EnrollAnswered, RunnerCredentials
    <3>2. [snap[p] EXCEPT !.runner = minted + 1] \in Records
      BY <3>1 DEF TypeOK, Records
    <3> QED
      BY <2>9, <3>1, <3>2, SavingType DEF EnrollAnswered
  <2>10. ASSUME NEW p \in Processes, Save(p) \/ SaveSwallowed(p) PROVE TypeOK'
    <3>1. file' \in Records
      BY <2>10 DEF TypeOK, Save, SaveSwallowed
    <3>2. CASE End(p, "ok")
      BY <2>10, <3>1, <3>2, EndType DEF TypeOK, Save, SaveSwallowed, Outcomes
    <3>3. CASE /\ pc' = [pc EXCEPT ![p] = "verifying"]
               /\ UNCHANGED <<cmd, snap, want, left, outcome>>
      BY <2>10, <3>1, <3>3 DEF TypeOK, Save, SaveSwallowed
    <3> QED
      BY <2>10, <3>2, <3>3 DEF Save, SaveSwallowed, Saved
  <2>11. ASSUME NEW p \in Processes, VerifyEnrollment(p) PROVE TypeOK'
    <3>1. PICK o \in Outcomes : End(p, o)
      BY <2>11 DEF VerifyEnrollment, Outcomes
    <3> QED
      BY <2>11, <3>1, EndType DEF TypeOK, VerifyEnrollment
  <2> QED
    BY <2>1, <2>2, <2>3, <2>4, <2>5, <2>6, <2>7, <2>8, <2>9, <2>10, <2>11 DEF Next
<1> QED
  BY <1>1, <1>2, PTL DEF Spec

(* For every number of concurrent commands, with lost writes and failed    *)
(* reads: the cached plan belongs to the stored license key.               *)
THEOREM PlanHolds == Spec => []PlanMatchesKey
<1>1. Init => PlanMatchesKey
  BY EmptyRecord DEF Init, PlanMatchesKey
<1>2. TypeOK /\ PlanMatchesKey /\ [Next]_vars => PlanMatchesKey'
  <2> SUFFICES ASSUME TypeOK, PlanMatchesKey, [Next]_vars PROVE PlanMatchesKey'
    OBVIOUS
  <2>1. CASE UNCHANGED <<file, snap, want>>
    BY <2>1 DEF PlanMatchesKey
  <2>2. ASSUME NEW p \in Processes, NEW o, End(p, o), Consistent(file')
        PROVE  PlanMatchesKey'
    BY <2>2, EmptyRecord DEF PlanMatchesKey, End, TypeOK
  <2>3. ASSUME NEW p \in Processes, NEW r, Saving(p, r), Consistent(r)
        PROVE  PlanMatchesKey'
    BY <2>3 DEF PlanMatchesKey, Saving, TypeOK
  <2>4. ASSUME NEW p \in Processes, NEW c \in Commands, Begin(p, c) PROVE PlanMatchesKey'
    <3>1. CASE End(p, "not_signed_in")
      BY <2>2, <2>4, <3>1 DEF Begin, PlanMatchesKey
    <3>2. ASSUME NEW r \in Loads, snap' = [snap EXCEPT ![p] = r], UNCHANGED want
          PROVE  PlanMatchesKey'
      <4>1. Consistent(r)
        BY <3>2, EmptyRecord DEF Loads, PlanMatchesKey
      <4> QED
        BY <2>4, <3>2, <4>1 DEF Begin, PlanMatchesKey, TypeOK
    <3> QED
      BY <2>4, <3>1, <3>2 DEF Begin
  <2>5. ASSUME NEW p \in Processes,
               \/ \E k \in Keys : LoginAuthorized(p, k)
               \/ \E issued \in BOOLEAN : ActivateAnswered(p, issued)
               \/ WhoamiAnswered(p) \/ UnlockAnswered(p) \/ EnrollAnswered(p)
        PROVE  PlanMatchesKey'
    <3>1. snap[p] \in Records /\ Consistent(snap[p])
      BY DEF TypeOK, PlanMatchesKey
    <3>2. ASSUME NEW k \in Keys, LoginAuthorized(p, k) PROVE PlanMatchesKey'
      <4>1. Consistent([snap[p] EXCEPT !.key = k, !.plan = k])
        BY <3>1 DEF Consistent, Records
      <4> QED
        BY <2>3, <3>2, <4>1 DEF LoginAuthorized
    <3>3. ASSUME NEW issued \in BOOLEAN, ActivateAnswered(p, issued) PROVE PlanMatchesKey'
      <4> DEFINE k == cmd[p].key
                 r == [snap[p] EXCEPT !.key = k, !.plan = k,
                                      !.token = IF issued THEN k ELSE @]
      <4>1. Consistent(r)
        BY <3>1 DEF Consistent, Records
      <4> QED
        BY <2>3, <3>3, <4>1 DEF ActivateAnswered
    <3>4. CASE WhoamiAnswered(p)
      <4>1. Consistent([snap[p] EXCEPT !.plan = snap[p].key])
        BY <3>1 DEF Consistent, Records
      <4> QED
        BY <2>3, <3>4, <4>1 DEF WhoamiAnswered
    <3>5. CASE UnlockAnswered(p)
      <4>1. Consistent([snap[p] EXCEPT !.unlock = snap[p].key])
        BY <3>1 DEF Consistent, Records
      <4> QED
        BY <2>3, <3>5, <4>1 DEF UnlockAnswered
    <3>6. CASE EnrollAnswered(p)
      <4>1. Consistent([snap[p] EXCEPT !.runner = minted + 1])
        BY <3>1 DEF Consistent, Records
      <4> QED
        BY <2>3, <3>6, <4>1 DEF EnrollAnswered
    <3> QED
      BY <2>5, <3>2, <3>3, <3>4, <3>5, <3>6
  <2>6. ASSUME NEW p \in Processes, Save(p) \/ SaveSwallowed(p) PROVE PlanMatchesKey'
    <3>1. Consistent(file')
      BY <2>6 DEF Save, SaveSwallowed, PlanMatchesKey
    <3>2. End(p, "ok") \/ UNCHANGED <<snap, want>>
      BY <2>6 DEF Save, SaveSwallowed, Saved
    <3> QED
      BY <2>2, <3>1, <3>2 DEF PlanMatchesKey
  <2>7. ASSUME NEW p \in Processes,
               LoginFails(p) \/ RequestFails(p) \/ VerifyEnrollment(p) \/ Crash(p)
        PROVE  PlanMatchesKey'
    BY <2>2, <2>7 DEF LoginFails, RequestFails, VerifyEnrollment, Crash, PlanMatchesKey
  <2>8. ASSUME NEW p \in Processes, LoginPending(p) PROVE PlanMatchesKey'
    BY <2>1, <2>8 DEF LoginPending
  <2>9. CASE UNCHANGED vars
    BY <2>1, <2>9 DEF vars
  <2> QED
    BY <2>4, <2>5, <2>6, <2>7, <2>8, <2>9 DEF Next
<1> QED
  BY <1>1, <1>2, TypeCorrect, PTL DEF Spec

-----------------------------------------------------------------------------
(* What a command is about to save holds no older runner credential than   *)
(* what it loaded: every command saves the loaded one or one just minted.  *)
RunnerNeverOlder ==
  /\ file.runner <= minted
  /\ \A p \in Processes : snap[p].runner <= minted /\ want[p].runner <= minted
  /\ \A p \in Processes : pc[p] = "saving" => want[p].runner >= snap[p].runner

(* A record prepared from the loaded one keeps RunnerNeverOlder.           *)
LEMMA SavingKeeps ==
  ASSUME TypeOK, RunnerNeverOlder, NEW p \in Processes, NEW r \in Records, Saving(p, r),
         \/ r.runner = snap[p].runner /\ minted' = minted
         \/ r.runner = minted + 1 /\ minted' = minted + 1
  PROVE  RunnerNeverOlder'
<1>1. /\ file.runner \in Nat /\ minted \in Nat /\ r.runner \in Nat
      /\ \A q \in Processes : snap[q].runner \in Nat /\ want[q].runner \in Nat
  BY CredentialConstants DEF TypeOK, Records, RunnerCredentials
<1> QED
  BY <1>1 DEF RunnerNeverOlder, Saving, TypeOK

(* The end of a command keeps RunnerNeverOlder.                            *)
LEMMA EndKeeps ==
  ASSUME TypeOK, RunnerNeverOlder, NEW p \in Processes, NEW o, End(p, o),
         minted' = minted, file'.runner \in Nat, file'.runner <= minted
  PROVE  RunnerNeverOlder'
<1>1. /\ minted \in Nat /\ Empty.runner = 0
  BY CredentialConstants DEF TypeOK, RunnerCredentials, Empty
<1> QED
  BY <1>1 DEF RunnerNeverOlder, End, TypeOK

LEMMA NeverOlderHolds == Spec => []RunnerNeverOlder
<1>1. Init => RunnerNeverOlder
  BY DEF Init, RunnerNeverOlder, Empty
<1>2. TypeOK /\ RunnerNeverOlder /\ [Next]_vars => RunnerNeverOlder'
  <2> SUFFICES ASSUME TypeOK, RunnerNeverOlder, [Next]_vars PROVE RunnerNeverOlder'
    OBVIOUS
  <2>0. /\ file.runner \in Nat /\ minted \in Nat
        /\ \A p \in Processes : snap[p].runner \in Nat /\ want[p].runner \in Nat
    BY CredentialConstants DEF TypeOK, Records, RunnerCredentials
  <2>1. CASE UNCHANGED <<file, minted, pc, snap, want>>
    BY <2>1 DEF RunnerNeverOlder
  <2>2. ASSUME NEW p \in Processes, NEW o, End(p, o), UNCHANGED <<file, minted>>
        PROVE  RunnerNeverOlder'
    BY <2>0, <2>2, EndKeeps DEF RunnerNeverOlder
  <2>3. ASSUME NEW p \in Processes, NEW c \in Commands, Begin(p, c) PROVE RunnerNeverOlder'
    <3>1. CASE End(p, "not_signed_in")
      BY <2>2, <2>3, <3>1 DEF Begin
    <3>2. ASSUME NEW r \in Loads,
                 pc' = [pc EXCEPT ![p] = IF c.op = "login" THEN "polling" ELSE "requesting"],
                 snap' = [snap EXCEPT ![p] = r], UNCHANGED <<want, file, minted>>
          PROVE  RunnerNeverOlder'
      <4>1. r.runner \in Nat /\ r.runner <= minted
        BY <2>0, <3>2 DEF Loads, Empty, RunnerNeverOlder
      <4> QED
        BY <2>0, <3>2, <4>1 DEF RunnerNeverOlder, TypeOK
    <3> QED
      BY <2>3, <3>1, <3>2 DEF Begin
  <2>4. ASSUME NEW p \in Processes, NEW k \in Keys, LoginAuthorized(p, k)
        PROVE  RunnerNeverOlder'
    <3> DEFINE r == [snap[p] EXCEPT !.key = k, !.plan = k]
    <3>1. r \in Records /\ r.runner = snap[p].runner
      BY DEF TypeOK, Records
    <3>2. Saving(p, r) /\ minted' = minted
      BY <2>4 DEF LoginAuthorized
    <3> HIDE DEF r
    <3> QED
      BY <3>1, <3>2, SavingKeeps
  <2>5. ASSUME NEW p \in Processes, NEW issued \in BOOLEAN, ActivateAnswered(p, issued)
        PROVE  RunnerNeverOlder'
    <3> DEFINE k == cmd[p].key
               r == [snap[p] EXCEPT !.key = k, !.plan = k,
                                    !.token = IF issued THEN k ELSE @]
    <3>0. cmd[p] \in Commands
      BY <2>5 DEF TypeOK, ActivateAnswered
    <3>1. k \in Keys
      BY <2>5, <3>0 DEF ActivateAnswered, Commands
    <3>2. r \in Records /\ r.runner = snap[p].runner
      BY <3>1 DEF TypeOK, Records
    <3>3. Saving(p, r) /\ minted' = minted
      BY <2>5 DEF ActivateAnswered
    <3> HIDE DEF r
    <3> QED
      BY <3>2, <3>3, SavingKeeps
  <2>6. ASSUME NEW p \in Processes, WhoamiAnswered(p) PROVE RunnerNeverOlder'
    <3> DEFINE r == [snap[p] EXCEPT !.plan = snap[p].key]
    <3>1. r \in Records /\ r.runner = snap[p].runner
      BY DEF TypeOK, Records
    <3>2. Saving(p, r) /\ minted' = minted
      BY <2>6 DEF WhoamiAnswered
    <3> HIDE DEF r
    <3> QED
      BY <3>1, <3>2, SavingKeeps
  <2>7. ASSUME NEW p \in Processes, UnlockAnswered(p) PROVE RunnerNeverOlder'
    <3> DEFINE r == [snap[p] EXCEPT !.unlock = snap[p].key]
    <3>1. r \in Records /\ r.runner = snap[p].runner
      BY DEF TypeOK, Records
    <3>2. Saving(p, r) /\ minted' = minted
      BY <2>7 DEF UnlockAnswered
    <3> HIDE DEF r
    <3> QED
      BY <3>1, <3>2, SavingKeeps
  <2>8. ASSUME NEW p \in Processes, EnrollAnswered(p) PROVE RunnerNeverOlder'
    <3> DEFINE r == [snap[p] EXCEPT !.runner = minted + 1]
    <3>1. minted + 1 \in RunnerCredentials
      BY <2>8, CredentialConstants DEF TypeOK, EnrollAnswered, RunnerCredentials
    <3>2. r \in Records /\ r.runner = minted + 1
      BY <3>1 DEF TypeOK, Records
    <3>3. Saving(p, r) /\ minted' = minted + 1
      BY <2>8 DEF EnrollAnswered
    <3> HIDE DEF r
    <3> QED
      BY <3>2, <3>3, SavingKeeps
  <2>9. ASSUME NEW p \in Processes, Save(p) \/ SaveSwallowed(p) PROVE RunnerNeverOlder'
    <3>1. file'.runner \in Nat /\ file'.runner <= minted /\ minted' = minted
      BY <2>0, <2>9 DEF Save, SaveSwallowed, RunnerNeverOlder
    <3>2. CASE End(p, "ok")
      BY <3>1, <3>2, EndKeeps
    <3>3. CASE pc' = [pc EXCEPT ![p] = "verifying"] /\ UNCHANGED <<snap, want>>
      BY <3>1, <3>3 DEF RunnerNeverOlder, TypeOK
    <3> QED
      BY <2>9, <3>2, <3>3 DEF Save, SaveSwallowed, Saved
  <2>10. ASSUME NEW p \in Processes,
                LoginFails(p) \/ RequestFails(p) \/ VerifyEnrollment(p) \/ Crash(p)
         PROVE  RunnerNeverOlder'
    BY <2>2, <2>10 DEF LoginFails, RequestFails, VerifyEnrollment, Crash
  <2>11. ASSUME NEW p \in Processes, LoginPending(p) PROVE RunnerNeverOlder'
    BY <2>1, <2>11 DEF LoginPending
  <2>12. CASE UNCHANGED vars
    BY <2>1, <2>12 DEF vars
  <2> QED
    BY <2>3, <2>4, <2>5, <2>6, <2>7, <2>8, <2>9, <2>10, <2>11, <2>12 DEF Next
<1> QED
  BY <1>1, <1>2, TypeCorrect, PTL DEF Spec

\* Only a save changes the file, and it brings no older credential to a file it had loaded.
LEMMA RunnerStep ==
  ASSUME TypeOK, RunnerNeverOlder, [Next]_vars, ~clobbered'
  PROVE  file'.runner >= file.runner
<1>1. file.runner \in Nat
  BY CredentialConstants DEF TypeOK, Records, RunnerCredentials
<1>2. ASSUME NEW p \in Processes, Save(p) PROVE file'.runner >= file.runner
  <2>1. snap[p] = file /\ file' = want[p]
    BY <1>2 DEF Save
  <2> QED
    BY <1>2, <2>1 DEF Save, RunnerNeverOlder
<1>3. CASE ~\E p \in Processes : Save(p)
  <2>1. UNCHANGED file
    BY <1>3 DEF Next, vars, Begin, LoginPending, LoginFails, LoginAuthorized,
                ActivateAnswered, WhoamiAnswered, UnlockAnswered, EnrollAnswered, Saving,
                RequestFails, SaveSwallowed, VerifyEnrollment, Crash
  <2> QED
    BY <1>1, <2>1
<1> QED
  BY <1>2, <1>3

(* Any number of processes: a runner credential is only lost to a save     *)
(* over a record that its command had not loaded.                          *)
THEOREM RunnerKept == Spec => KeptUnlessClobbered
<1>1. TypeOK /\ RunnerNeverOlder /\ [Next]_vars
        => [clobbered' \/ file'.runner >= file.runner]_vars
  BY RunnerStep
<1> QED
  BY <1>1, TypeCorrect, NeverOlderHolds, PTL DEF Spec, KeptUnlessClobbered

-----------------------------------------------------------------------------
(* An enrollment past its answer holds the credential it was given, and    *)
(* what was reported enrolled is in the file until a save clobbers it.     *)
Redeemed(p) ==
  /\ pc[p] = "polling" => cmd[p].op = "login"
  /\ pc[p] = "verifying" => cmd[p].op = "enroll"
  /\ pc[p] \in {"saving", "verifying"} /\ cmd[p].op = "enroll" => want[p].runner > 0

Enrolled ==
  /\ \A p \in Processes : Redeemed(p)
  /\ ~clobbered => \A p \in Processes : outcome[p] = "enrolled" => file.runner > 0

LEMMA RedeemedKept ==
  ASSUME TypeOK, Enrolled, [Next]_vars, NEW p \in Processes
  PROVE  Redeemed(p)'
<1>1. CASE UNCHANGED <<pc, cmd, want>>
  BY <1>1 DEF Enrolled, Redeemed
<1>2. ASSUME NEW q \in Processes, NEW o, End(q, o)
      PROVE  Redeemed(p)'
  BY <1>2 DEF Enrolled, Redeemed, End, TypeOK
<1>3. ASSUME NEW q \in Processes, NEW r, Saving(q, r), cmd[q].op = "enroll" => r.runner > 0
      PROVE  Redeemed(p)'
  BY <1>3 DEF Enrolled, Redeemed, Saving, TypeOK
<1>4. ASSUME NEW q \in Processes, NEW c \in Commands, Begin(q, c)
      PROVE  Redeemed(p)'
  <2>1. CASE End(q, "not_signed_in")
    BY <1>2, <2>1
  <2>2. CASE /\ pc' = [pc EXCEPT ![q] = IF c.op = "login" THEN "polling" ELSE "requesting"]
             /\ cmd' = [cmd EXCEPT ![q] = c] /\ UNCHANGED want
    BY <2>2 DEF Enrolled, Redeemed, TypeOK
  <2> QED
    BY <1>4, <2>1, <2>2 DEF Begin
<1>5. ASSUME NEW q \in Processes, NEW k \in Keys, LoginAuthorized(q, k)
      PROVE  Redeemed(p)'
  BY <1>3, <1>5 DEF LoginAuthorized, Enrolled, Redeemed
<1>6. ASSUME NEW q \in Processes,
             (\E i \in BOOLEAN : ActivateAnswered(q, i)) \/ WhoamiAnswered(q) \/ UnlockAnswered(q)
      PROVE  Redeemed(p)'
  BY <1>3, <1>6 DEF ActivateAnswered, WhoamiAnswered, UnlockAnswered
<1>7. ASSUME NEW q \in Processes, EnrollAnswered(q)
      PROVE  Redeemed(p)'
  <2>1. [snap[q] EXCEPT !.runner = minted + 1].runner > 0
    BY CredentialConstants DEF TypeOK, Records, RunnerCredentials
  <2> QED
    BY <1>3, <1>7, <2>1 DEF EnrollAnswered
<1>8. ASSUME NEW q \in Processes, Save(q) \/ SaveSwallowed(q)
      PROVE  Redeemed(p)'
  <2>1. CASE cmd[q].op = "enroll"
    BY <1>8, <2>1 DEF Save, SaveSwallowed, Saved, Enrolled, Redeemed, TypeOK
  <2>2. CASE cmd[q].op # "enroll"
    BY <1>2, <1>8, <2>2 DEF Save, SaveSwallowed, Saved
  <2> QED
    BY <2>1, <2>2
<1>9. ASSUME NEW q \in Processes,
             LoginFails(q) \/ RequestFails(q) \/ VerifyEnrollment(q) \/ Crash(q)
      PROVE  Redeemed(p)'
  BY <1>2, <1>9 DEF LoginFails, RequestFails, VerifyEnrollment, Crash
<1>10. ASSUME NEW q \in Processes, LoginPending(q)
       PROVE  Redeemed(p)'
  BY <1>1, <1>10 DEF LoginPending
<1> QED
  BY <1>1, <1>4, <1>5, <1>6, <1>7, <1>8, <1>9, <1>10 DEF Next, vars

\* Nothing but the second look at the file reports an enrollment.
LEMMA ReportedByVerify ==
  ASSUME TypeOK, [Next]_vars, NEW p \in Processes, outcome'[p] = "enrolled",
         outcome[p] # "enrolled"
  PROVE  VerifyEnrollment(p) /\ \E r \in Loads : r.runner = want[p].runner
<1>1. ASSUME NEW q \in Processes, NEW o, End(q, o)
      PROVE  q = p /\ o = "enrolled"
  BY <1>1 DEF End, TypeOK
<1>2. PICK q \in Processes : VerifyEnrollment(q)
  <2>1. ~UNCHANGED outcome
    OBVIOUS
  <2>2. \A q \in Processes : ~End(q, "ok") /\ ~End(q, "failed") /\ ~End(q, "crashed")
                             /\ ~End(q, "not_signed_in")
    BY <1>1
  <2> QED
    BY <2>1, <2>2 DEF Next, vars, Begin, LoginPending, LoginFails, LoginAuthorized, ActivateAnswered,
       WhoamiAnswered, UnlockAnswered, EnrollAnswered, Saving, RequestFails, Save, SaveSwallowed,
       Saved, Crash
<1>3. PICK r \in Loads : End(q, IF r.runner = want[q].runner THEN "enrolled" ELSE "storage")
  BY <1>2 DEF VerifyEnrollment
<1>4. q = p /\ r.runner = want[q].runner
  BY <1>1, <1>3
<1> QED
  BY <1>2, <1>3, <1>4

(* Any number of processes, with failed reads and lost writes: who reported*)
(* "enrolled" left a runner credential in the file.                        *)
THEOREM EnrolledHolds == Spec => []EnrolledMeansStored
<1>1. Init => Enrolled
  BY DEF Init, Enrolled, Redeemed
<1>2. TypeOK /\ RunnerNeverOlder /\ Enrolled /\ [Next]_vars => Enrolled'
  <2> SUFFICES ASSUME TypeOK, RunnerNeverOlder, Enrolled, [Next]_vars
               PROVE  Enrolled'
    OBVIOUS
  <2>1. ASSUME ~clobbered', NEW p \in Processes, outcome'[p] = "enrolled"
        PROVE  file'.runner > 0
    <3>1. ~clobbered
      BY <2>1 DEF TypeOK, Next, vars, Begin, LoginPending, LoginFails, LoginAuthorized,
         ActivateAnswered, WhoamiAnswered, UnlockAnswered, EnrollAnswered, Saving, RequestFails,
         Save, SaveSwallowed, VerifyEnrollment, Crash
    <3>2. file.runner > 0
      <4>1. CASE outcome[p] = "enrolled"
        BY <3>1, <4>1 DEF Enrolled
      <4>2. CASE outcome[p] # "enrolled"
        <5>1. VerifyEnrollment(p) /\ \E r \in Loads : r.runner = want[p].runner
          BY <2>1, <4>2, ReportedByVerify
        <5>2. want[p].runner > 0
          BY <5>1 DEF VerifyEnrollment, Enrolled, Redeemed
        <5> QED
          BY <5>1, <5>2 DEF Loads, Empty
      <4> QED
        BY <4>1, <4>2
    <3>3. file'.runner >= file.runner
      BY <2>1, RunnerStep
    <3>4. file.runner \in Nat /\ file'.runner \in Nat
      <4>1. file.runner \in Nat /\ \A q \in Processes : want[q].runner \in Nat
        BY CredentialConstants DEF TypeOK, Records, RunnerCredentials
      <4>2. file' = file \/ \E q \in Processes : file' = want[q]
        BY DEF Next, vars, Begin, LoginPending, LoginFails, LoginAuthorized, ActivateAnswered,
           WhoamiAnswered, UnlockAnswered, EnrollAnswered, Saving, RequestFails, Save,
           SaveSwallowed, VerifyEnrollment, Crash
      <4> QED
        BY <4>1, <4>2
    <3> QED
      BY <3>2, <3>3, <3>4
  <2> QED
    BY <2>1, RedeemedKept DEF Enrolled
<1>3. Enrolled => EnrolledMeansStored
  BY DEF Enrolled, EnrolledMeansStored
<1> QED
  BY <1>1, <1>2, <1>3, TypeCorrect, NeverOlderHolds, PTL DEF Spec

-----------------------------------------------------------------------------
(* A command that is about to save holds what one serial command makes of  *)
(* the record it loaded.                                                   *)
Prepared ==
  \A p \in Processes :
    /\ pc[p] = "requesting" /\ cmd[p].op \in {"whoami", "unlock"} => snap[p].key # None
    /\ pc[p] = "saving" => want[p] \in Serial!Served(snap[p])

\* What a login, an activation, whoami and the unlock refresh prepare.
LEMMA ServedAnswers ==
  ASSUME NEW r \in Records, NEW k \in Keys
  PROVE  /\ [r EXCEPT !.key = k, !.plan = k] \in Serial!Served(r)
         /\ \A issued \in BOOLEAN :
              [r EXCEPT !.key = k, !.plan = k, !.token = IF issued THEN k ELSE @]
                \in Serial!Served(r)
         /\ r.key # None => /\ [r EXCEPT !.plan = r.key] \in Serial!Served(r)
                            /\ [r EXCEPT !.unlock = r.key] \in Serial!Served(r)
<1>1. [r EXCEPT !.key = k, !.plan = k] \in Serial!Served(r)
  BY DEF Serial!Served, Serial!SignIn
<1>2. ASSUME NEW issued \in BOOLEAN
      PROVE  [r EXCEPT !.key = k, !.plan = k, !.token = IF issued THEN k ELSE @]
               \in Serial!Served(r)
  <2> DEFINE s == [r EXCEPT !.key = k, !.plan = k, !.token = IF issued THEN k ELSE @]
  <2>1. s \in {Serial!SignIn(r, k), [Serial!SignIn(r, k) EXCEPT !.token = k]}
    BY DEF Serial!SignIn, Records
  <2> HIDE DEF s
  <2>2. s \in Serial!Served(r)
    BY <2>1 DEF Serial!Served
  <2> QED
    BY <2>2 DEF s
<1>3. r.key # None => /\ [r EXCEPT !.plan = r.key] \in Serial!Served(r)
                      /\ [r EXCEPT !.unlock = r.key] \in Serial!Served(r)
  BY DEF Serial!Served
<1> QED
  BY <1>1, <1>2, <1>3

\* What an enrollment prepares.
LEMMA NewerServed ==
  ASSUME NEW r \in Records, NEW n \in RunnerCredentials, n > r.runner
  PROVE  [r EXCEPT !.runner = n] \in Serial!Served(r)
<1> DEFINE s == [r EXCEPT !.runner = n]
<1>1. s \in Records /\ s.runner = n
  BY DEF Records
<1>2. s.runner > r.runner /\ s = [r EXCEPT !.runner = s.runner]
  BY <1>1
<1> HIDE DEF s
<1>3. s \in Serial!Served(r)
  BY <1>1, <1>2 DEF Serial!Served
<1> QED
  BY <1>3 DEF s

LEMMA PreparedHolds == Spec => []Prepared
<1>1. Init => Prepared
  BY DEF Init, Prepared
<1>2. TypeOK /\ RunnerNeverOlder /\ Prepared /\ [Next]_vars => Prepared'
  <2> SUFFICES ASSUME TypeOK, RunnerNeverOlder, Prepared, [Next]_vars PROVE Prepared'
    OBVIOUS
  <2>1. CASE UNCHANGED <<pc, cmd, snap, want>>
    BY <2>1 DEF Prepared
  <2>2. ASSUME NEW p \in Processes, NEW o, End(p, o)
        PROVE  Prepared'
    BY <2>2 DEF Prepared, End, TypeOK
  <2>3. ASSUME NEW p \in Processes, NEW r \in Serial!Served(snap[p]), Saving(p, r)
        PROVE  Prepared'
    BY <2>3 DEF Prepared, Saving, TypeOK
  <2>4. ASSUME NEW p \in Processes, NEW c \in Commands, Begin(p, c)
        PROVE  Prepared'
    <3>1. CASE End(p, "not_signed_in")
      BY <2>2, <3>1
    <3>2. ASSUME NEW r \in Loads, ~(c.op \in {"whoami", "unlock"} /\ r.key = None),
                 pc' = [pc EXCEPT ![p] = IF c.op = "login" THEN "polling" ELSE "requesting"],
                 cmd' = [cmd EXCEPT ![p] = c], snap' = [snap EXCEPT ![p] = r],
                 UNCHANGED want
          PROVE  Prepared'
      BY <3>2 DEF Prepared, TypeOK
    <3> QED
      BY <2>4, <3>1, <3>2 DEF Begin
  <2>5. ASSUME NEW p \in Processes, NEW k \in Keys, LoginAuthorized(p, k)
        PROVE  Prepared'
    <3>1. snap[p] \in Records
      BY DEF TypeOK
    <3> QED
      BY <2>3, <2>5, <3>1, ServedAnswers DEF LoginAuthorized
  <2>6. ASSUME NEW p \in Processes, NEW issued \in BOOLEAN, ActivateAnswered(p, issued)
        PROVE  Prepared'
    <3> DEFINE k == cmd[p].key
               r == [snap[p] EXCEPT !.key = k, !.plan = k,
                                    !.token = IF issued THEN k ELSE @]
    <3>1. cmd[p] \in Commands
      BY <2>6 DEF TypeOK, ActivateAnswered
    <3>2. k \in Keys
      BY <2>6, <3>1 DEF ActivateAnswered, Commands
    <3>3. snap[p] \in Records
      BY DEF TypeOK
    <3>4. r \in Serial!Served(snap[p])
      BY <3>2, <3>3, ServedAnswers
    <3>5. Saving(p, r)
      BY <2>6 DEF ActivateAnswered
    <3> QED
      BY <2>3, <3>4, <3>5
  <2>7. ASSUME NEW p \in Processes, WhoamiAnswered(p) \/ UnlockAnswered(p)
        PROVE  Prepared'
    <3>1. snap[p].key # None
      BY <2>7 DEF WhoamiAnswered, UnlockAnswered, Prepared
    <3>2. snap[p].key \in Keys /\ snap[p] \in Records
      BY <3>1 DEF TypeOK, Records
    <3>3. /\ [snap[p] EXCEPT !.plan = snap[p].key] \in Serial!Served(snap[p])
          /\ [snap[p] EXCEPT !.unlock = snap[p].key] \in Serial!Served(snap[p])
      BY <3>1, <3>2, ServedAnswers
    <3> QED
      BY <2>3, <2>7, <3>3 DEF WhoamiAnswered, UnlockAnswered
  <2>8. ASSUME NEW p \in Processes, EnrollAnswered(p)
        PROVE  Prepared'
    <3> DEFINE r == [snap[p] EXCEPT !.runner = minted + 1]
    <3>1. snap[p] \in Records /\ minted + 1 \in RunnerCredentials /\ minted + 1 > snap[p].runner
      BY <2>8, CredentialConstants DEF TypeOK, Records, RunnerCredentials, EnrollAnswered,
         RunnerNeverOlder
    <3>2. r \in Serial!Served(snap[p])
      BY <3>1, NewerServed
    <3>3. Saving(p, r)
      BY <2>8 DEF EnrollAnswered
    <3> QED
      BY <2>3, <3>2, <3>3
  <2>9. ASSUME NEW p \in Processes, Save(p) \/ SaveSwallowed(p)
        PROVE  Prepared'
    <3>1. CASE cmd[p].op = "enroll"
      BY <2>9, <3>1 DEF Save, SaveSwallowed, Saved, Prepared, TypeOK
    <3>2. CASE cmd[p].op # "enroll"
      BY <2>2, <2>9, <3>2 DEF Save, SaveSwallowed, Saved
    <3> QED
      BY <3>1, <3>2
  <2>10. ASSUME NEW p \in Processes,
                LoginFails(p) \/ RequestFails(p) \/ VerifyEnrollment(p) \/ Crash(p)
         PROVE  Prepared'
    BY <2>2, <2>10 DEF LoginFails, RequestFails, VerifyEnrollment, Crash
  <2>11. ASSUME NEW p \in Processes, LoginPending(p)
         PROVE  Prepared'
    BY <2>1, <2>11 DEF LoginPending
  <2>12. CASE UNCHANGED vars
    BY <2>1, <2>12 DEF vars
  <2> QED
    BY <2>4, <2>5, <2>6, <2>7, <2>8, <2>9, <2>10, <2>11, <2>12 DEF Next
<1> QED
  BY <1>1, <1>2, TypeCorrect, NeverOlderHolds, PTL DEF Spec

\* Only a save changes the file or raises the flag.
LEMMA OnlySaveWrites ==
  ASSUME [Next]_vars, ~\E p \in Processes : Save(p)
  PROVE  UNCHANGED <<file, clobbered>>
BY DEF Next, vars, Begin, LoginPending, LoginFails, LoginAuthorized, ActivateAnswered,
       WhoamiAnswered, UnlockAnswered, EnrollAnswered, Saving, RequestFails, SaveSwallowed,
       VerifyEnrollment, Crash

(* Any number of processes implement the serial credential file: a save is *)
(* one whole command on the record in the file, or replaces one that its   *)
(* command had not loaded, where the promise ends; no other step touches   *)
(* the file.                                                               *)
THEOREM ImplementsSerial == Spec => SerialSpec
<1>1. Init => Serial!Init
  BY DEF Init, Serial!Init
<1>2. TypeOK /\ Prepared /\ [Next]_vars => [Serial!Command]_<<file, clobbered>>
  <2> SUFFICES ASSUME TypeOK, Prepared, [Next]_vars
               PROVE  Serial!Command \/ UNCHANGED <<file, clobbered>>
    OBVIOUS
  <2>1. ASSUME NEW p \in Processes, Save(p)
        PROVE  Serial!Command
    <3>1. /\ file' = want[p] /\ want[p] \in Records /\ want[p] \in Serial!Served(snap[p])
          /\ clobbered' = (clobbered \/ snap[p] # file)
      BY <2>1 DEF Save, TypeOK, Prepared
    <3>2. clobbered' \in {clobbered, TRUE}
      BY <3>1 DEF TypeOK
    <3>3. ~clobbered' => snap[p] = file
      BY <3>1
    <3> QED
      BY <3>1, <3>2, <3>3 DEF Serial!Command
  <2> QED
    BY <2>1, OnlySaveWrites
<1> QED
  BY <1>1, <1>2, TypeCorrect, PreparedHolds, PTL DEF Spec, SerialSpec, Serial!Spec

-----------------------------------------------------------------------------
(* The commands run one at a time, as they would under a lock.             *)
OneAtATime == \A p, q \in Processes : pc[p] # "idle" /\ pc[q] # "idle" => p = q

\* A command that has not saved yet has loaded the record in the file.
AsLoaded ==
  /\ ~clobbered
  /\ \A p \in Processes : pc[p] \in {"polling", "requesting", "saving"} => snap[p] = file

(* Nothing but the missing lock, and a read that fails, loses a runner     *)
(* credential: if the commands run one at a time and reads succeed, none   *)
(* is ever replaced by an older one, whatever writes are lost and whatever *)
(* commands die.                                                           *)
THEOREM LockKeepsRunner ==
  ASSUME ~ReadFaults
  PROVE  Spec /\ []OneAtATime => RunnerCredentialKept
<1>1. Init => AsLoaded
  BY DEF Init, AsLoaded
<1>2. TypeOK /\ AsLoaded /\ OneAtATime /\ OneAtATime' /\ [Next]_vars => AsLoaded'
  <2> SUFFICES ASSUME TypeOK, AsLoaded, OneAtATime, OneAtATime', [Next]_vars PROVE AsLoaded'
    OBVIOUS
  <2>1. CASE UNCHANGED <<pc, snap, file, clobbered>>
    BY <2>1 DEF AsLoaded
  <2>2. ASSUME NEW p \in Processes, NEW o, End(p, o), UNCHANGED <<file, clobbered>>
        PROVE  AsLoaded'
    BY <2>2 DEF AsLoaded, End, TypeOK
  <2>3. ASSUME NEW p \in Processes, NEW r, Saving(p, r), pc[p] \in {"polling", "requesting"}
        PROVE  AsLoaded'
    BY <2>3 DEF AsLoaded, Saving, TypeOK
  <2>4. ASSUME NEW p \in Processes, NEW c \in Commands, Begin(p, c)
        PROVE  AsLoaded'
    <3>1. CASE End(p, "not_signed_in")
      BY <2>2, <2>4, <3>1 DEF Begin
    <3>2. ASSUME NEW r \in Loads, snap' = [snap EXCEPT ![p] = r],
                 pc' = [pc EXCEPT ![p] = IF c.op = "login" THEN "polling" ELSE "requesting"]
          PROVE  AsLoaded'
      <4>1. r = file
        BY <3>2 DEF Loads
      <4> QED
        BY <2>4, <3>2, <4>1 DEF AsLoaded, Begin, TypeOK
    <3> QED
      BY <2>4, <3>1, <3>2 DEF Begin
  <2>5. ASSUME NEW p \in Processes,
               \/ \E k \in Keys : LoginAuthorized(p, k)
               \/ \E issued \in BOOLEAN : ActivateAnswered(p, issued)
               \/ WhoamiAnswered(p) \/ UnlockAnswered(p) \/ EnrollAnswered(p)
        PROVE  AsLoaded'
    BY <2>3, <2>5 DEF LoginAuthorized, ActivateAnswered, WhoamiAnswered, UnlockAnswered,
       EnrollAnswered
  <2>6. ASSUME NEW p \in Processes, Save(p)
        PROVE  AsLoaded'
    <3>1. snap[p] = file /\ ~clobbered'
      BY <2>6 DEF Save, AsLoaded
    <3>2. \A q \in Processes \ {p} : pc[q] = "idle"
      BY <2>6 DEF Save, OneAtATime
    <3>3. /\ pc'[p] \in {"verifying", "idle"}
          /\ \A q \in Processes \ {p} : pc'[q] = "idle"
      BY <2>6, <3>2 DEF Save, Saved, End, TypeOK
    <3> QED
      BY <3>1, <3>3 DEF AsLoaded
  <2>7. ASSUME NEW p \in Processes, SaveSwallowed(p)
        PROVE  AsLoaded'
    <3>1. CASE cmd[p].op = "enroll"
      BY <2>7, <3>1 DEF SaveSwallowed, Saved, AsLoaded, TypeOK
    <3>2. CASE cmd[p].op # "enroll"
      BY <2>2, <2>7, <3>2 DEF SaveSwallowed, Saved
    <3> QED
      BY <3>1, <3>2
  <2>8. ASSUME NEW p \in Processes,
               LoginFails(p) \/ RequestFails(p) \/ VerifyEnrollment(p) \/ Crash(p)
        PROVE  AsLoaded'
    BY <2>2, <2>8 DEF LoginFails, RequestFails, VerifyEnrollment, Crash
  <2>9. ASSUME NEW p \in Processes, LoginPending(p)
        PROVE  AsLoaded'
    BY <2>1, <2>9 DEF LoginPending
  <2>10. CASE UNCHANGED vars
    BY <2>1, <2>10 DEF vars
  <2> QED
    BY <2>4, <2>5, <2>6, <2>7, <2>8, <2>9, <2>10 DEF Next
<1>3. Spec /\ []OneAtATime => []AsLoaded
  BY <1>1, <1>2, TypeCorrect, PTL DEF Spec
<1>4. AsLoaded' /\ [clobbered' \/ file'.runner >= file.runner]_vars
        => [file'.runner >= file.runner]_vars
  BY DEF AsLoaded
<1> QED
  BY <1>3, <1>4, RunnerKept, PTL DEF KeptUnlessClobbered, RunnerCredentialKept
=============================================================================
