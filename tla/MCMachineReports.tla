-------------------------- MODULE MCMachineReports --------------------------
EXTENDS MachineReports, TLC

CONSTANTS s1, s2

MCFile == <<[path |-> "f1", root |-> s1], [path |-> "f2", root |-> s2]>>
MCHostnames == <<"old", "new">>
(* Two first runs that overlap mint an id each and are two machines from
   then on: the states after that are left out. *)
FirstRunsApart == ~overlapped
(* Until it posts, an invocation that has its install id only reads: two do *)
(* so at once, but not beside a request.                                    *)
Reading(c) == run[c].at \in {"loaded", "scan"}
ReadersBesideRequests ==
  (\E h \in Handler : Busy(h)) => \A c, d \in Run : Reading(c) /\ Reading(d) => c = d
Symmetry == Permutations(Handler) \cup Permutations(Run) \cup Permutations(Install)
=============================================================================
