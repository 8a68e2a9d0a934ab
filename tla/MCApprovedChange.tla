--------------------------- MODULE MCApprovedChange ---------------------------
(***************************************************************************)
(* The audit store and the command that changes files under a receipt, for *)
(* TLC.  A behaviour is about one of them; the other stands still.         *)
(***************************************************************************)
EXTENDS MCApprovalStore, MCHeaderFix

VARIABLE cast

MCInit ==
  /\ ApprovalInit /\ Init
  /\ cast \in {"store", "fix"}
  /\ cast = "store" => shape = "unsupported" /\ \A f \in Files : files[f] = NoFile

MCNext ==
  /\ \/ cast = "store" /\ ApprovalNext /\ UNCHANGED vars
     \/ cast = "fix" /\ Next /\ UNCHANGED approvalVars
  /\ UNCHANGED cast

MCSpec == MCInit /\ [][MCNext]_<<vars, approvalVars, cast>>
=============================================================================
