--------------------------- MODULE MCCachedAnswers ---------------------------
(***************************************************************************)
(* The two users of cached answers of a service, for TLC: the plan of the  *)
(* license and the packages of a scan.  A behaviour is about one of them;  *)
(* the other stands still.  The advisory detectors share nothing between   *)
(* scans, so that only one scan runs them.                                 *)
(***************************************************************************)
EXTENDS MCEntitlement, DependencyScan

CONSTANTS a, b, n1, n2

VARIABLE cast

SomeSelections == {<<"files", "slopsquat">>, <<"dependencies", "vendored-cves">>}
SomeMentioned == ("files" :> {}) @@ ("dependencies" :> {n1, n2}) @@ [d \in Detectors |-> {n1}]
SomeLimit == ("dependencies" :> 1) @@ [d \in Detectors |-> 2]

MCInit ==
  /\ Init /\ ScanInit
  /\ cast \in {"plan", "scan"}
  /\ cast = "plan" => registry = {}

MCNext ==
  /\ \/ cast = "plan" /\ Next /\ UNCHANGED scanVars
     \/ /\ cast = "scan" /\ ScanNext /\ UNCHANGED vars
        /\ scan'[b].asked \in {<<>>, <<"files", "slopsquat">>}
  /\ UNCHANGED cast

MCSpec == MCInit /\ [][MCNext]_<<vars, scanVars, cast>>
=============================================================================
