---------------------------- MODULE ApprovalStore ----------------------------
(***************************************************************************)
(* The audit store of approval receipts: putApprovalReceipt of             *)
(* packages/shared/src/approval-store.ts, and the commands that authorize  *)
(* an action (authorizeAgentAction), store its receipt and only then       *)
(* perform it (fix, engines install, record sign, MCP tools).              *)
(*                                                                         *)
(* A receipt is the digest of its request, which names its file, and its   *)
(* decision: who approved it and when.  The store has no lock: a put lists *)
(* the directory, reads the files one by one, and then renames its own     *)
(* file into place.                                                        *)
(***************************************************************************)
EXTENDS Integers, FiniteSets

CONSTANTS
  Processes,  \* processes sharing one store
  Requests,   \* request digests
  Ids,        \* request ids
  IdOf,       \* the request id inside each request
  Decisions,  \* approving decisions a receipt can carry
  Expiry,     \* when each request expires
  Faults,     \* TRUE: reading or writing the store may fail
  MaxTime     \* bound of the model: the clock stops here

ASSUME ApprovalConstants ==
  /\ IdOf \in [Requests -> Ids]
  /\ Expiry \in [Requests -> Nat]
  /\ "none" \notin Decisions
  /\ Faults \in BOOLEAN
  /\ MaxTime \in Nat

VARIABLES
  now,        \* the wall clock
  store,      \* the receipt file of each digest: its decision, or NoDecision
  step,         \* where each process is
  receipt,    \* the receipt each process presents
  names,      \* directory entries of its listing a process has still to read
  done,       \* history: the receipts under which an action was performed
  overlapped  \* history: a receipt was published while another put was reading the store


approvalVars == <<now, store, step, receipt, names, done, overlapped>>

NoDecision == "none"
Receipts == [request : Requests, decision : Decisions]
Idle == [request |-> NoDecision, decision |-> NoDecision]

ApprovalInit ==
  /\ now = 0
  /\ store = [q \in Requests |-> NoDecision]
  /\ step = [p \in Processes |-> "idle"]
  /\ receipt = [p \in Processes |-> Idle]
  /\ names = [p \in Processes |-> {}]
  /\ done = {}
  /\ overlapped = FALSE

Stored == {q \in Requests : store[q] # NoDecision}

Tick ==
  /\ now < MaxTime
  /\ now' = now + 1
  /\ UNCHANGED <<store, step, receipt, names, done, overlapped>>

\* The command ends, whatever the reason, and forgets what it read.
EndPut(p) ==
  /\ step' = [step EXCEPT ![p] = "idle"]
  /\ receipt' = [receipt EXCEPT ![p] = Idle]
  /\ names' = [names EXCEPT ![p] = {}]

\* The receipt is approved, unexpired and digests its own request.
Authorize(p, r) ==
  /\ step[p] = "idle"
  /\ now < Expiry[r.request]
  /\ step' = [step EXCEPT ![p] = "listing"]
  /\ receipt' = [receipt EXCEPT ![p] = r]
  /\ UNCHANGED <<now, store, names, done, overlapped>>

ListStore(p) ==
  /\ step[p] = "listing"
  /\ names' = [names EXCEPT ![p] = Stored]
  /\ step' = [step EXCEPT ![p] = "scanning"]
  /\ UNCHANGED <<now, store, receipt, done, overlapped>>

\* Mutant: only a second receipt of the same digest counts as a reuse.
ReusesDigest(r, q) == FALSE

\* Another request, already stored, has the id of receipt r.
Reuses(r, q) == IdOf[q] = IdOf[r.request] /\ q # r.request

CheckCandidate(p, q) ==
  /\ step[p] = "scanning"
  /\ q \in names[p]
  /\ ~Reuses(receipt[p], q)
  /\ names' = [names EXCEPT ![p] = @ \ {q}]
  /\ UNCHANGED <<now, store, step, receipt, done, overlapped>>

\* "approval request ID has already been used with different content"
RefuseReuse(p, q) ==
  /\ step[p] = "scanning"
  /\ q \in names[p]
  /\ Reuses(receipt[p], q)
  /\ EndPut(p)
  /\ UNCHANGED <<now, store, done, overlapped>>

(* A temporary file is written and renamed into place; rename replaces a   *)
(* file of the same name.                                                  *)
Publish(p) ==
  /\ step[p] = "scanning"
  /\ names[p] = {}
  /\ store' = [store EXCEPT ![receipt[p].request] = receipt[p].decision]
  /\ step' = [step EXCEPT ![p] = "stored"]
  /\ overlapped' = (overlapped \/ \E q \in Processes \ {p} : step[q] = "scanning")
  /\ UNCHANGED <<now, receipt, names, done>>

\* Mutant: a failed put does not stop the command.
FailOpen(p) ==
  /\ Faults
  /\ step[p] \in {"listing", "scanning"}
  /\ step' = [step EXCEPT ![p] = "stored"]
  /\ names' = [names EXCEPT ![p] = {}]
  /\ UNCHANGED <<now, store, receipt, done, overlapped>>

\* Listing, reading or writing fails, or finds an unsafe entry: no action.
PutFails(p) ==
  /\ Faults
  /\ step[p] \in {"listing", "scanning"}
  /\ EndPut(p)
  /\ UNCHANGED <<now, store, done, overlapped>>

\* The receipt is stored: the action it approves is performed.
Perform(p) ==
  /\ step[p] = "stored"
  /\ done' = done \cup {receipt[p]}
  /\ EndPut(p)
  /\ UNCHANGED <<now, store, overlapped>>

CrashPut(p) ==
  /\ step[p] # "idle"
  /\ EndPut(p)
  /\ UNCHANGED <<now, store, done, overlapped>>

ApprovalNext ==
  \/ Tick
  \/ \E p \in Processes :
       \/ \E r \in Receipts : Authorize(p, r)
       \/ ListStore(p)
       \/ \E q \in Requests : CheckCandidate(p, q) \/ RefuseReuse(p, q)
       \/ Publish(p)
       \/ PutFails(p)
       \/ Perform(p)
       \/ CrashPut(p)

ApprovalSpec == ApprovalInit /\ [][ApprovalNext]_approvalVars

-----------------------------------------------------------------------------
\* A process holds a receipt, and names to read, exactly while it runs.
StoreTypeOK ==
  /\ now \in 0..MaxTime
  /\ store \in [Requests -> Decisions \cup {NoDecision}]
  /\ step \in [Processes -> {"idle", "listing", "scanning", "stored"}]
  /\ receipt \in [Processes -> Receipts \cup {Idle}]
  /\ names \in [Processes -> SUBSET Requests]
  /\ done \subseteq Receipts
  /\ overlapped \in BOOLEAN
  /\ \A p \in Processes :
       /\ (step[p] = "idle") = (receipt[p] = Idle)
       /\ step[p] # "scanning" => names[p] = {}

(* "A request ID is a one-time authority handle.  Reject a second digest   *)
(* for the same ID so an agent cannot replay it with widened               *)
(* target/file/network scope": no two stored receipts share an id.         *)
OneContentPerId ==
  \A q1, q2 \in Stored : IdOf[q1] = IdOf[q2] => q1 = q2

(* The part of it the code keeps: an id is only stored with two contents   *)
(* when a receipt was published while another put was reading the store.   *)
OneContentUnlessOverlapped == ~overlapped => OneContentPerId

(* The request under which an action was performed is in the store: the    *)
(* audit trail covers every action, over failed puts, crashes and puts of  *)
(* other processes.                                                        *)
EveryActionRecorded ==
  \A r \in done : r.request \in Stored

(* A stored receipt is never replaced by one with another decision: the    *)
(* put that finds it refuses with "approval receipt already exists with    *)
(* different content".                                                     *)
ReceiptNeverReplaced ==
  [][\A q \in Stored : store'[q] = store[q]]_store
=============================================================================
