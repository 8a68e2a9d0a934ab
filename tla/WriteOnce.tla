------------------------------ MODULE WriteOnce ------------------------------
(***************************************************************************)
(* What a reader of a published artefact is promised: it is absent, and    *)
(* then it is there, whole and for good.                                   *)
(***************************************************************************)
CONSTANTS
  Absent,  \* nothing has been published
  Values   \* the whole artefacts

VARIABLE
  value    \* what a reader sees

Init == value = Absent

Publish == value = Absent /\ value' \in Values

Spec == Init /\ [][Publish]_value
=============================================================================
