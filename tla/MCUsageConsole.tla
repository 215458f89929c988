--------------------------- MODULE MCUsageConsole ---------------------------
EXTENDS UsageConsole, TLC

CONSTANTS a, b

(* Hour 723 is 03:00 of a Wednesday, the second of a month; hour 842 is    *)
(* 02:00 of the Monday after.  `a` is stamped at that Wednesday's midnight *)
(* and `b` an hour in the future, by a machine whose clock is fast.  Path  *)
(* "p" can be reported by both machines, and path "q" is the actor's name. *)
MCMonthStarts == {0, 29}
MCUsage == [input |-> 1, output |-> 1, write |-> 0, read |-> 1]
MCTurn ==
  [id \in Id |->
     IF id = a THEN [created |-> 720, actor |-> "q", model |-> {"haiku", "3-5"}, usage |-> MCUsage]
               ELSE [created |-> 724, actor |-> "q", model |-> {}, usage |-> MCUsage]]
MCHostnameOf == [m \in Install |-> "laptop"]
MCQuery ==
  {[window |-> "lifetime", group |-> g, filter |-> Unfiltered] : g \in GroupBys}
    \cup {[window |-> "24h", group |-> "actor",
           filter |-> [machine |-> NoFilter, scanRoot |-> r]] : r \in Install \X ScanRoot}
OneWriter == \E h \in Handler : \A k \in Handler \ {h} : hpc[k] = "idle"

(* A console request sees only what is committed, and one ingestion request *)
(* at a time can commit whatever two can: two overlap while none is made.   *)
OneWriterBesideConsole == view.at = "idle" \/ OneWriter

(* Only a summary looks at paths, and one turn at the other path is enough. *)
AtOtherPath ==
  {id \in Id : \E events \in {usageEvents} \cup {hreq[h].events : h \in {k \in Handler : hreq[k] # NoRequest}} :
                 events[id] # NoRow /\ events[id].path = "q"}
OtherPathInSummaries ==
  /\ AtOtherPath \subseteq {a}
  /\ AtOtherPath # {} => OneWriter /\ view.op \in {"none", "summary"}

Symmetry == Permutations(Handler) \cup Permutations(Install)
=============================================================================
