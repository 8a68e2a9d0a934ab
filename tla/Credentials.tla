----------------------------- MODULE Credentials -----------------------------
(***************************************************************************)
(* ~/.verglos/credentials.json and the CLI commands that rewrite it:       *)
(* login, activate, whoami, the unlock refresh and `runner enroll`.  Each  *)
(* command loads the whole record, awaits the server, and saves            *)
(* { ...what it loaded, its own fields } by an atomic rename.  Nothing     *)
(* locks the file: two commands may run at the same time.                  *)
(*                                                                         *)
(* A plan, a token and an unlock token are represented by the license key  *)
(* they were issued for, which is all the properties distinguish.          *)
(***************************************************************************)
EXTENDS Naturals, FiniteSets

CONSTANTS
  Processes,     \* CLI processes
  Keys,          \* license keys
  MaxEnrolled,   \* bound of the model: runner credentials the server mints
  MaxPolls,      \* login: polls before the 15-minute deadline
  MaxCommands,   \* bound of the model: commands per process
  ReadFaults     \* TRUE: a load may fail and is then taken for an empty file

ASSUME CredentialConstants ==
  /\ MaxEnrolled \in Nat
  /\ MaxPolls \in Nat
  /\ MaxCommands \in Nat
  /\ ReadFaults \in BOOLEAN
  /\ "none" \notin Keys

VARIABLES
  file,      \* the credential record on disk; an absent file reads as Empty
  pc,        \* where each command is
  cmd,       \* the command each process runs
  snap,      \* what the command loaded before its request
  want,      \* what the command is about to save
  left,      \* polls a login has left before its deadline
  minted,    \* runner credentials minted so far
  started,   \* commands started by each process
  outcome,   \* how the last command of each process ended
  clobbered  \* history: a save replaced a record its command had not loaded

vars == <<file, pc, cmd, snap, want, left, minted, started, outcome, clobbered>>

None == "none"
RunnerCredentials == 0..MaxEnrolled  \* 0 when no runner is enrolled

Records == [key : Keys \cup {None}, token : Keys \cup {None}, plan : Keys \cup {None},
            unlock : Keys \cup {None}, runner : RunnerCredentials]
Empty == [key |-> None, token |-> None, plan |-> None, unlock |-> None, runner |-> 0]

Commands == [op : {"login", "whoami", "unlock", "enroll"}] \cup [op : {"activate"}, key : Keys]
Idle == [op |-> "idle"]
Outcomes == {"none", "ok", "failed", "not_signed_in", "enrolled", "storage", "crashed"}

\* loadCredentials: any failure to read reads as the empty record.
Loads == {file} \cup (IF ReadFaults THEN {Empty} ELSE {})

Init ==
  /\ file = Empty
  /\ pc = [p \in Processes |-> "idle"]
  /\ cmd = [p \in Processes |-> Idle]
  /\ snap = [p \in Processes |-> Empty]
  /\ want = [p \in Processes |-> Empty]
  /\ left = [p \in Processes |-> 0]
  /\ minted = 0
  /\ started = [p \in Processes |-> 0]
  /\ outcome = [p \in Processes |-> "none"]
  /\ clobbered = FALSE

End(p, o) ==
  /\ pc' = [pc EXCEPT ![p] = "idle"]
  /\ cmd' = [cmd EXCEPT ![p] = Idle]
  /\ snap' = [snap EXCEPT ![p] = Empty]
  /\ want' = [want EXCEPT ![p] = Empty]
  /\ left' = [left EXCEPT ![p] = 0]
  /\ outcome' = [outcome EXCEPT ![p] = o]

\* The command loads the file; whoami and the unlock refresh need a license key.
Begin(p, c) ==
  /\ pc[p] = "idle"
  /\ started[p] < MaxCommands
  /\ started' = [started EXCEPT ![p] = @ + 1]
  /\ \E r \in Loads :
       \/ /\ c.op \in {"whoami", "unlock"} /\ r.key = None
          /\ End(p, "not_signed_in")
       \/ /\ ~(c.op \in {"whoami", "unlock"} /\ r.key = None)
          /\ pc' = [pc EXCEPT ![p] = IF c.op = "login" THEN "polling" ELSE "requesting"]
          /\ cmd' = [cmd EXCEPT ![p] = c]
          /\ snap' = [snap EXCEPT ![p] = r]
          /\ left' = [left EXCEPT ![p] = IF c.op = "login" THEN MaxPolls ELSE 0]
          /\ UNCHANGED <<want, outcome>>
  /\ UNCHANGED <<file, minted, clobbered>>

\* Mutant: the login keeps polling without looking at its deadline.
PendingForever(p) ==
  /\ pc[p] = "polling" /\ left[p] > 0
  /\ UNCHANGED vars

\* executeLogin: the answer is "pending", or the poll failed and is retried.
LoginPending(p) ==
  /\ pc[p] = "polling"
  /\ left[p] > 0
  /\ left' = [left EXCEPT ![p] = @ - 1]
  /\ UNCHANGED <<file, pc, cmd, snap, want, minted, started, outcome, clobbered>>

\* The code expired, the flow could not be started, or the deadline passed.
LoginFails(p) ==
  /\ pc[p] = "polling"
  /\ End(p, "failed")
  /\ UNCHANGED <<file, minted, started, clobbered>>

Saving(p, r) ==
  /\ pc' = [pc EXCEPT ![p] = "saving"]
  /\ want' = [want EXCEPT ![p] = r]
  /\ UNCHANGED <<file, cmd, snap, left, started, outcome, clobbered>>

\* Mutant: the authorized login saves its own fields alone.
AuthorizedAlone(p, k) ==
  /\ pc[p] = "polling"
  /\ left[p] > 0
  /\ Saving(p, [Empty EXCEPT !.key = k, !.plan = k])
  /\ UNCHANGED minted

\* The user confirmed in the browser; the old entitlement token is kept.
LoginAuthorized(p, k) ==
  /\ pc[p] = "polling"
  /\ left[p] > 0
  /\ Saving(p, [snap[p] EXCEPT !.key = k, !.plan = k])
  /\ UNCHANGED minted

\* Mutant: activate keeps the plan of the previous key.
ActivateKeepsPlan(p, issued) ==
  /\ pc[p] = "requesting" /\ cmd[p].op = "activate"
  /\ LET k == cmd[p].key IN
     Saving(p, [snap[p] EXCEPT !.key = k, !.token = IF issued THEN k ELSE @])
  /\ UNCHANGED minted

\* activate: the key is valid; an older server may issue no token with it.
ActivateAnswered(p, issued) ==
  /\ pc[p] = "requesting" /\ cmd[p].op = "activate"
  /\ LET k == cmd[p].key IN
     Saving(p, [snap[p] EXCEPT !.key = k, !.plan = k,
                               !.token = IF issued THEN k ELSE @])
  /\ UNCHANGED minted

\* Mutant: whoami saves the answer of the server without the entitlement token.
WhoamiDropsToken(p) ==
  /\ pc[p] = "requesting" /\ cmd[p].op = "whoami"
  /\ Saving(p, [snap[p] EXCEPT !.plan = snap[p].key, !.token = None])
  /\ UNCHANGED minted

\* whoami: the status of the loaded key refreshes the cached plan.
WhoamiAnswered(p) ==
  /\ pc[p] = "requesting" /\ cmd[p].op = "whoami"
  /\ Saving(p, [snap[p] EXCEPT !.plan = snap[p].key])
  /\ UNCHANGED minted

\* refreshUnlockToken: an unlock token for the loaded key.
UnlockAnswered(p) ==
  /\ pc[p] = "requesting" /\ cmd[p].op = "unlock"
  /\ Saving(p, [snap[p] EXCEPT !.unlock = snap[p].key])
  /\ UNCHANGED minted

\* enrollPrivateRunner: the one-time secret is redeemed for a new credential.
EnrollAnswered(p) ==
  /\ pc[p] = "requesting" /\ cmd[p].op = "enroll"
  /\ minted < MaxEnrolled
  /\ minted' = minted + 1
  /\ Saving(p, [snap[p] EXCEPT !.runner = minted + 1])

\* The request timed out, failed, or its answer was refused.
RequestFails(p) ==
  /\ pc[p] = "requesting"
  /\ End(p, "failed")
  /\ UNCHANGED <<file, minted, started, clobbered>>

\* After saveCredentials, enroll reads the file again; the others report success.
Saved(p) ==
  IF cmd[p].op = "enroll"
  THEN /\ pc' = [pc EXCEPT ![p] = "verifying"]
       /\ UNCHANGED <<cmd, snap, want, left, outcome>>
  ELSE End(p, "ok")

\* The rename replaces the whole record.
Save(p) ==
  /\ pc[p] = "saving"
  /\ file' = want[p]
  /\ clobbered' = (clobbered \/ snap[p] # file)
  /\ Saved(p)
  /\ UNCHANGED <<minted, started>>

\* saveCredentials swallows a failed write: the command goes on as if saved.
SaveSwallowed(p) ==
  /\ pc[p] = "saving"
  /\ Saved(p)
  /\ UNCHANGED <<file, minted, started, clobbered>>

\* Mutant: the enrollment trusts its save and does not read the file again.
VerifyNothing(p) ==
  /\ pc[p] = "verifying"
  /\ End(p, "enrolled")
  /\ UNCHANGED <<file, minted, started, clobbered>>

\* enrollPrivateRunner loads the file once more and compares.
VerifyEnrollment(p) ==
  /\ pc[p] = "verifying"
  /\ \E r \in Loads : End(p, IF r.runner = want[p].runner THEN "enrolled" ELSE "storage")
  /\ UNCHANGED <<file, minted, started, clobbered>>

\* The process dies at an await; the file holds what the last rename left.
Crash(p) ==
  /\ pc[p] # "idle"
  /\ End(p, "crashed")
  /\ UNCHANGED <<file, minted, started, clobbered>>

Next ==
  \E p \in Processes :
    \/ \E c \in Commands : Begin(p, c)
    \/ LoginPending(p)
    \/ LoginFails(p)
    \/ \E k \in Keys : LoginAuthorized(p, k)
    \/ \E issued \in BOOLEAN : ActivateAnswered(p, issued)
    \/ WhoamiAnswered(p)
    \/ UnlockAnswered(p)
    \/ EnrollAnswered(p)
    \/ RequestFails(p)
    \/ Save(p)
    \/ SaveSwallowed(p)
    \/ VerifyEnrollment(p)
    \/ Crash(p)

Spec == Init /\ [][Next]_vars

(* Every request has its own abort timer and the login loop tests its      *)
(* deadline before every poll; the server owes no answer.                  *)
FairSpec ==
  /\ Spec
  /\ \A p \in Processes :
       /\ WF_vars(LoginPending(p) \/ (left[p] = 0 /\ LoginFails(p)))
       /\ WF_vars(RequestFails(p))
       /\ WF_vars(Save(p) \/ SaveSwallowed(p))
       /\ WF_vars(VerifyEnrollment(p))

-----------------------------------------------------------------------------
(* What every variable holds; a process has a command exactly while it is  *)
(* busy with it, and the record it is about to save is a whole record.     *)
TypeOK ==
  /\ file \in Records
  /\ pc \in [Processes -> {"idle", "polling", "requesting", "saving", "verifying"}]
  /\ cmd \in [Processes -> Commands \cup {Idle}]
  /\ \A p \in Processes : pc[p] = "idle" <=> cmd[p] = Idle
  /\ snap \in [Processes -> Records]
  /\ want \in [Processes -> Records]
  /\ left \in [Processes -> Nat]
  /\ minted \in RunnerCredentials
  /\ started \in [Processes -> Nat]
  /\ outcome \in [Processes -> Outcomes]
  /\ clobbered \in BOOLEAN

(* However the commands interleave, and whatever write is lost, the plan   *)
(* cached in the file is the plan of the license key in the file, and the  *)
(* same holds of what any command has loaded or is about to save.          *)
Consistent(r) == r.plan = r.key

PlanMatchesKey ==
  /\ Consistent(file)
  /\ \A p \in Processes : Consistent(snap[p]) /\ Consistent(want[p])

(* No command replaces the runner credential in the file by an older one   *)
(* or drops it: the enrollment secret is spent, so a credential that       *)
(* disappears cannot be obtained again.                                    *)
RunnerCredentialKept == [][file'.runner >= file.runner]_vars

(* The part of it the code keeps: a runner credential is only ever lost to *)
(* a save over a record its command had not loaded, whatever commands run, *)
(* fail, lose their writes or die in between.                              *)
KeptUnlessClobbered == [][clobbered' \/ file'.runner >= file.runner]_vars

(* However the commands interleave, fail, lose their writes or die: until  *)
(* a save replaces a record its command had not loaded, the file changes   *)
(* as if whole commands ran one after the other, each on what the one      *)
(* before it had saved.  No field of another command is lost or mixed.     *)
Serial == INSTANCE SerialCredentials WITH record <- file, unsound <- clobbered

SerialSpec == Serial!Spec

(* A process that reported "enrolled" left a runner credential in the      *)
(* file, although a failed save is swallowed without a word.               *)
EnrolledMeansStored ==
  ~clobbered => \A p \in Processes :
                  pc[p] = "idle" /\ outcome[p] = "enrolled" => file.runner > 0

(* Every command ends: the login by its deadline, the others by the abort  *)
(* timer of their request.                                                 *)
EveryCommandEnds == \A p \in Processes : pc[p] # "idle" ~> pc[p] = "idle"
=============================================================================
