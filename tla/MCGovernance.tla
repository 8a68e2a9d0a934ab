---------------------------- MODULE MCGovernance ----------------------------
(***************************************************************************)
(* OrganizationPolicy and ReleaseGate for TLC.  They share no state, so    *)
(* that each behaviour belongs to one of the casts below, and what is      *)
(* outside the cast stands still:                                          *)
(*   repos   two calls, two repositories, one key                          *)
(*   keys    two calls, one repository, two keys                           *)
(*   claims  one evaluation that claims anything of the first check, and   *)
(*           the commands that read it                                     *)
(*   record  evaluations with their decision, rewritten at any time        *)
(*   grant   one use of an exception                                       *)
(***************************************************************************)
EXTENDS OrganizationPolicy, ReleaseGate, TLC

CONSTANTS p, q, r1, r2, k1, k2, c1, c2

VARIABLE cast

mcPolicy == (c1 :> "block") @@ (c2 :> "advisory")

Good(level) == [level |-> level, status |-> "satisfied", evidence |-> TRUE,
                freshness |-> "current", until |-> 2]
Bad(level) == [Good(level) EXCEPT !.status = "failed"]
Old(level) == [Good(level) EXCEPT !.status = "stale", !.freshness = "stale", !.until = 1]

Others == {<<>>} \cup {c2 :> x : x \in {Good("block"), Bad("block"), Old("advisory")}}

mcDocuments ==
  {[match |-> m[1], observed |-> m[2], at |-> 1, decision |-> d, checks |-> (c1 :> x) @@ o] :
     m \in {<<"matched", "same">>, <<"matched", "other">>, <<"mismatched", "other">>,
            <<"unresolved", "none">>},
     d \in Decisions, x \in Claim, o \in Others}

\* The documents of a record: the checks in order, missing, or at another level.
Recorded ==
  {[match |-> "matched", observed |-> "same", at |-> 1, decision |-> d, checks |-> x @@ o] :
     d \in {"PASS", "BLOCK", "REVIEW"},
     x \in {c1 :> y : y \in {Good("block"), Bad("block"), Bad("advisory"), Good("review")}},
     o \in {<<>>, c2 :> Good("advisory"), c2 :> Bad("advisory")}}

mcReferred == {{}} \cup {{a} : a \in Reference}

PolicyCasts == {"repos", "keys"}

MCInit ==
  /\ PolicyInit /\ GateInit
  /\ cast \in PolicyCasts \cup {"claims", "record", "grant"}
  /\ cast = "repos" => \A r \in Repos : published[r][1].key = k1
  /\ cast # "repos" => \A r \in Repos \ {r1} : published[r][1].key = k1
  /\ cast \notin PolicyCasts => \A r \in Repos : published[r][1].key = k1

PolicyCast ==
  /\ cast \in PolicyCasts
  /\ PolicyNext
  /\ cast = "repos" => \A r \in Repos : \A v \in DOMAIN published'[r] : published'[r][v].key = k1
  /\ cast = "repos" => k2 \in active'
  /\ cast = "keys" => /\ \A c \in Calls : call'[c].repo # r2
                      /\ published'[r2] = published[r2]
  /\ UNCHANGED gateVars

GateCast ==
  /\ \/ /\ cast = "claims" /\ evaluation = Nobody
        /\ \E d \in Documents : WriteEvaluation(d)
     \/ cast = "record" /\ \E d \in Recorded : WriteEvaluation(d)
     \/ cast \in {"claims", "record"} /\ CheckPolicy
     \/ cast = "claims" /\ \E k \in Checks : CheckSnapshot(k)
     \/ /\ cast = "record"
        /\ ExplainPolicy \/ \E r \in Referred, t \in Instants : CreateRelease(r, t)
     \/ /\ cast = "grant" /\ grant = NoGrant
        /\ \E e \in Exception, a \in Approval, t \in Instants, s \in BOOLEAN :
             UseException(e, a, t, s)
  /\ UNCHANGED policyVars

MCNext == (PolicyCast \/ GateCast) /\ UNCHANGED cast

MCSpec == MCInit /\ [][MCNext]_<<policyVars, gateVars, cast>>

Calling == Permutations({p, q})
=============================================================================
