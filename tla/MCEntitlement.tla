--------------------------- MODULE MCEntitlement ---------------------------
(* Entitlement on small instances. *)
EXTENDS Entitlement, TLC

CONSTANTS p1, p2

\* The processes run the same program: their names do not matter.
ProcessSymmetry == Permutations({p1, p2})
=============================================================================
