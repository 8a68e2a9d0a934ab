---------------------------- MODULE MCInspection ----------------------------
(* Two and three producers over a directory that is edited up to twice.    *)
EXTENDS Inspection

SomePlans == {<<"native", "trivy">>, <<"trivy", "sarif">>, <<"native", "trivy", "sarif">>}
=============================================================================
