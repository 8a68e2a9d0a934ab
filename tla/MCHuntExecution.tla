--------------------------- MODULE MCHuntExecution ---------------------------
(***************************************************************************)
(* HuntExecution for TLC: two findings in four units of time, of which the *)
(* recipe grants one probe three and its CPU limit two.                    *)
(***************************************************************************)
EXTENDS HuntExecution
=============================================================================
