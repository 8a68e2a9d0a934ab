-------------------------- MODULE SerialCredentials --------------------------
(***************************************************************************)
(* What a user expects of the credential file who runs login, activate,    *)
(* whoami, the unlock refresh and `runner enroll`: that each command       *)
(* changes its own fields of the one record, as if the commands ran one    *)
(* after the other.  The promise ends when a record is lost, which is      *)
(* unsound.                                                                *)
(***************************************************************************)
EXTENDS Naturals

CONSTANTS
  Keys,    \* license keys
  None,    \* the value of a field that is not set
  Records, \* the records a credential file can hold
  Empty    \* the record of an absent file

VARIABLES
  record,
  unsound

SignIn(r, k) == [r EXCEPT !.key = k, !.plan = k]

(* What one command makes of record r: a login keeps the entitlement       *)
(* token, an activation may replace it, and an enrollment stores a newer   *)
(* runner credential than the one it finds.                                *)
Served(r) ==
  {SignIn(r, k) : k \in Keys}
    \cup {[SignIn(r, k) EXCEPT !.token = k] : k \in Keys}
    \cup (IF r.key = None THEN {}
          ELSE {[r EXCEPT !.plan = r.key], [r EXCEPT !.unlock = r.key]})
    \cup {s \in Records : s.runner > r.runner /\ s = [r EXCEPT !.runner = s.runner]}

Init == record = Empty /\ unsound = FALSE

Command ==
  /\ unsound' \in {unsound, TRUE}
  /\ record' \in IF unsound' THEN Records ELSE Served(record)

Spec == Init /\ [][Command]_<<record, unsound>>
=============================================================================
