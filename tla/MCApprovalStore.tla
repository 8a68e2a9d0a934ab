--------------------------- MODULE MCApprovalStore ---------------------------
(* ApprovalStore with three requests, two of which carry the same id. *)
EXTENDS ApprovalStore

CONSTANTS narrow, wide, other

SmallRequests == {narrow, wide, other}
SmallIdOf == [q \in SmallRequests |-> IF q = other THEN "id2" ELSE "id1"]
SmallExpiry == [q \in SmallRequests |-> IF q = wide THEN 3 ELSE 1]
=============================================================================
