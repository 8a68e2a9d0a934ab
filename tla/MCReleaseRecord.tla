--------------------------- MODULE MCReleaseRecord ---------------------------
(***************************************************************************)
(* An instance of ReleaseRecord for TLC.  Two complete manifests share a   *)
(* payload, so that both can be readable from one store; a third is        *)
(* accepted by the creation although it can never be read: a required      *)
(* member is omitted.                                                      *)
(*                                                                         *)
(* All commands at once are too many states, so each behaviour is played   *)
(* by one of the casts below; the runs outside it are never started.       *)
(***************************************************************************)
EXTENDS ReleaseRecord, TLC

CONSTANTS m1, m2, m3, x, y, c1, c2, a1, a2, s1, k1, k2

VARIABLE cast  \* the runs that take part

mcPaths == {1, 2}
mcManifests == {m1, m2, m3}
mcDigest == (m1 :> <<x, y>>) @@ (m2 :> <<x, y>>) @@ (m3 :> <<x, y>>)
mcOmitted == (m1 :> {}) @@ (m2 :> {2}) @@ (m3 :> {1})
mcRequired == (m1 :> {1}) @@ (m2 :> {1}) @@ (m3 :> {1})

Casts == {{c1, c2, k1}, {c1, a1, a2}, {c1, k1, k2}, {c1, k1, s1}, {c1, a1, k1}}

MCInit == ReleaseInit /\ cast \in Casts

MCNext ==
  /\ ReleaseNext
  /\ cast' = cast
  /\ \A c \in Creators \ cast : cpc'[c] = "idle"
  /\ \A a \in Attesters \ cast : apc'[a] = "idle"
  /\ \A s \in Signers \ cast : spc'[s] = "idle"
  /\ \A k \in Packagers \ cast : ppc'[k] = "idle"

MCSpec == MCInit /\ [][MCNext]_<<vars, cast>>
=============================================================================
