---------------------------- MODULE ReplayLedger ----------------------------
(***************************************************************************)
(* What the replay cache of `verglos runner poll` promises: a ledger of    *)
(* the jobs this machine has accepted, in which a job identity or a nonce  *)
(* does not come back while its entry is one of the last Window ones.      *)
(* The ledger is unbounded; the cache file that implements it is not.  The *)
(* promise ends when the file loses an entry, which is unsound.            *)
(***************************************************************************)
EXTENDS Naturals, Sequences

CONSTANTS Entries,   \* what is recorded: records with a jobId and a nonce
          Window     \* how many of the latest entries are remembered

VARIABLES log,
          unsound

\* e repeats no identity and no nonce among the last Window entries of log.
Fresh(e) ==
  \A i \in 1..Len(log) :
    i > Len(log) - Window => /\ log[i].jobId # e.jobId
                             /\ log[i].nonce # e.nonce

Init == log = << >> /\ unsound = FALSE

Record(e) ==
  /\ unsound' \in {unsound, TRUE}
  /\ ~unsound' => Fresh(e)
  /\ log' = Append(log, e)

Next == \E e \in Entries : Record(e)

Spec == Init /\ [][Next]_<<log, unsound>>
=============================================================================
