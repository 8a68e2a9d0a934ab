------------------------------ MODULE MCHeaderFix ------------------------------
(* HeaderFix with two candidate configs and two places for the helper. *)
EXTENDS HeaderFix

SmallConfigs == <<"js", "mjs">>
=============================================================================
