------------------------ MODULE MCCollectorDelivery ------------------------
(* One install; every other install's traffic is in MCUsageIngest. *)
EXTENDS CollectorDelivery, TLC

(* Until it posts, an invocation only reads: two that do so at once are as  *)
(* good as one after another, while a third party writes.                  *)
Reading(r) == pc[r] \in {"scan", "load", "attribute"}
OneReads == \A r, q \in Run : Reading(r) /\ Reading(q) => r = q

(* One path for all the rows of a batch; the next batch may have the other. *)
OnePathEach ==
  \A r \in Run : request[r] # NoRequest =>
    Cardinality({request[r].events[id].path : id \in Named(request[r].events)}) <= 1

Symmetry == Permutations(Run) \cup Permutations(Handler) \cup Permutations(Id)
              \cup Permutations(Path)
=============================================================================
