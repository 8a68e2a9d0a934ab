--------------------------- MODULE MCPrivateRunner ---------------------------
(* Small instances of PrivateRunner for TLC. *)
EXTENDS PrivateRunner, TLC

Job(id, n) ==
  [jobId |-> id, nonce |-> n, tenant |-> Tenant, runner |-> Runner, target |-> "app",
   issued |-> 1, expires |-> 2, mode |-> "denied", destinations |-> 0,
   wellFormed |-> TRUE, signed |-> TRUE]

\* Three jobs, one of them not yet valid at first, and one that reuses the identity of the
\* first with a nonce that cannot be stored.
Sound == {Job("j1", "n1"), Job("j2", "n2"), [Job("j3", "n3") EXCEPT !.issued = 2, !.expires = 3],
          Job("j1", "_n4")}

\* One document for each way of being refused.
Refused ==
  {[Job("j5", "n5") EXCEPT !.signed = FALSE],
   [Job("j5", "n5") EXCEPT !.wellFormed = FALSE],
   [Job("j5", "n5") EXCEPT !.expires = 9],
   [Job("j5", "n5") EXCEPT !.tenant = "other"],
   [Job("j5", "n5") EXCEPT !.runner = "other"],
   [Job("j5", "n5") EXCEPT !.expires = 1],
   [Job("j5", "n5") EXCEPT !.target = "other"],
   [Job("j5", "n5") EXCEPT !.destinations = 1],
   [Job("j5", "n5") EXCEPT !.mode = "allowlisted"]}

AllJobs == Sound \cup Refused
=============================================================================
