--------------------------- MODULE FindingVerdicts ---------------------------
(***************************************************************************)
(* What a reader of a Hunt result is promised, whatever probes, timers and *)
(* adapters do: a call that is closed has given every finding it selected  *)
(* one verdict, in their order, and no other finding any; a verdict is     *)
(* never revised, but for a failed cleanup, which voids them all at once.  *)
(***************************************************************************)
EXTENDS Integers

CONSTANTS
  N,         \* findings of the report
  None,      \* no verdict
  Verdicts,  \* the verdicts a finding can get
  Void       \* the verdict of every finding when the cleanup failed

VARIABLES
  verdict,   \* the verdict of each finding
  selected,  \* the findings of the call are 1..selected
  open       \* whether a call is under way

Unsettled == [i \in 1..N |-> None]

Init == verdict = Unsettled /\ selected \in 1..N /\ open = FALSE

Begin ==
  /\ ~open /\ open' = TRUE
  /\ selected' \in 1..N
  /\ verdict' = Unsettled

\* The first finding that has no verdict gets one.
Settle ==
  /\ open
  /\ \E i \in 1..selected, v \in Verdicts :
       /\ \A j \in 1..N : j < i <=> verdict[j] # None
       /\ verdict' = [verdict EXCEPT ![i] = v]
  /\ UNCHANGED <<selected, open>>

Close ==
  /\ open /\ open' = FALSE
  /\ \A i \in 1..N : i <= selected <=> verdict[i] # None
  /\ verdict' \in {verdict, [i \in 1..N |-> IF i <= selected THEN Void ELSE None]}
  /\ UNCHANGED selected

\* The call fails before its first finding.
Abandon ==
  /\ open /\ open' = FALSE
  /\ verdict = Unsettled
  /\ UNCHANGED <<verdict, selected>>

Next == Begin \/ Settle \/ Close \/ Abandon

Spec == Init /\ [][Next]_<<verdict, selected, open>>
=============================================================================
