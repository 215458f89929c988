------------------------- MODULE UsageIngestProofs -------------------------
(***************************************************************************)
(* Proofs about UsageIngest, for every set of handlers, installs, scan     *)
(* roots, paths and ids: type correctness, the labels of stored events,    *)
(* what a 201 means, and that stored events never change.                  *)
(***************************************************************************)
EXTENDS UsageIngest, FiniteSetTheorems, TLAPS

USE DEF tables, serverVars

(* What a request consists of. *)
LEMMA RequestParts ==
  ASSUME NEW q \in Request
  PROVE  /\ q.install \in Install
         /\ q.events \in Batch
         /\ RootsOf(q) \subseteq ScanRoot
         /\ Named(q.events) \subseteq Id
<1>1. q.install \in Install /\ q.events \in Batch
  BY DEF Request
<1>2. \A id \in Named(q.events) : q.events[id] \in Row
  BY <1>1 DEF Named, Batch
<1>3. RootsOf(q) \subseteq ScanRoot
  BY <1>2 DEF RootsOf, Row
<1> QED
  BY <1>1, <1>3 DEF Named

(* A batch is inserted as a batch. *)
LEMMA InsertIsBatch ==
  ASSUME usageEvents \in Batch, NEW events \in Batch
  PROVE  /\ InsertOrIgnore(events) \in Batch
         /\ \A id \in Id : InsertOrIgnore(events)[id] =
              IF usageEvents[id] # NoRow THEN usageEvents[id] ELSE events[id]
BY DEF InsertOrIgnore, Batch

(* One step of the server keeps the types. *)
LEMMA TypeStep ==
  ASSUME TypeOK, [Next]_serverVars
  PROVE  TypeOK'
<1> USE DEF TypeOK
<1>1. ASSUME NEW h \in Handler, NEW q \in Request, WellFormed(q), Accept(h, q) PROVE TypeOK'
  BY <1>1, RequestParts DEF Accept, Goto
<1>2. ASSUME NEW h \in Handler, UpsertMachine(h) PROVE TypeOK'
  <2>1. hreq[h] \in Request
    BY <1>2 DEF UpsertMachine, Goto
  <2> QED
    BY <1>2, <2>1, RequestParts DEF UpsertMachine, Goto
<1>3. ASSUME NEW h \in Handler, NEW s \in ScanRoot, UpsertScanRoot(h, s) PROVE TypeOK'
  <2>1. hreq[h] \in Request
    BY <1>3 DEF UpsertScanRoot
  <2> QED
    BY <1>3, <2>1, RequestParts DEF UpsertScanRoot
<1>4. ASSUME NEW h \in Handler, IngestNothing(h) PROVE TypeOK'
  BY <1>4 DEF IngestNothing, Goto
<1>5. ASSUME NEW h \in Handler, InsertBatch(h) PROVE TypeOK'
  BY <1>5 DEF InsertBatch, Goto, Named
<1>6. ASSUME NEW h \in Handler, Commit(h) PROVE TypeOK'
  <2>1. hreq[h] \in Request /\ fresh[h] \subseteq Id
    BY <1>6 DEF Commit, Goto
  <2>2. Cardinality(fresh[h]) \in Nat
    BY <2>1, IdAssumption, FS_Subset, FS_CardinalityType
  <2>3. usageEvents' \in Batch
    BY <1>6, <2>1, RequestParts, InsertIsBatch DEF Commit
  <2> QED
    BY <1>6, <2>2, <2>3 DEF Commit, Goto
<1>7. ASSUME NEW h \in Handler, Fail(h) PROVE TypeOK'
  BY <1>7 DEF Fail
<1>8. ASSUME NEW h \in Handler, Finish(h) PROVE TypeOK'
  BY <1>8 DEF Finish
<1>9. CASE Restart
  BY <1>9 DEF Restart
<1>10. CASE UNCHANGED serverVars
  BY <1>10
<1> QED
  BY <1>1, <1>2, <1>3, <1>4, <1>5, <1>6, <1>7, <1>8, <1>9, <1>10 DEF Next, Serve

(* Every variable keeps its type, and a handler that is not idle serves a
   request whose events carry the reporting install's id (the server's state
   through every step of IngestUsageEventsBatch). *)
THEOREM TypeCorrect == Spec => []TypeOK
<1>1. Init => TypeOK
  BY DEF Init, TypeOK, Batch
<1>2. TypeOK /\ [Next]_serverVars => TypeOK'
  BY TypeStep
<1> QED
  BY <1>1, <1>2, PTL DEF Spec

-----------------------------------------------------------------------------
(* What EventsHaveLabels rests on: a handler past the upserts has written the
   machine and every scan root it no longer has to do. *)
Labelled(h) ==
  hpc[h] \in {"roots", "commit", "created"} =>
    /\ hreq[h].install \in machines
    /\ \A s \in RootsOf(hreq[h]) \ todo[h] : <<hreq[h].install, s>> \in scanRoots

UpsertsDone(h) ==
  /\ hpc[h] = "machine" => RootsOf(hreq[h]) \subseteq todo[h]
  /\ hpc[h] \in {"commit", "created"} => todo[h] = {}

(* The write lock: only the handler at "commit" has it, and what its
   transaction counts as new is new. *)
Locked(h) ==
  /\ hpc[h] = "commit" <=> writer = h
  /\ hpc[h] = "commit" => fresh[h] = Named(hreq[h].events) \ Stored

IngestInv ==
  /\ TypeOK
  /\ EventsHaveLabels
  /\ CreatedMeansStored
  /\ InsertedOnce
  /\ \A h \in Handler : Labelled(h) /\ UpsertsDone(h) /\ Locked(h)

(* Committing adds the batch's ids to the stored ones and changes no row that
   was there. *)
LEMMA CommitEffect ==
  ASSUME TypeOK, NEW h \in Handler, Commit(h)
  PROVE  /\ Stored' = Stored \cup Named(hreq[h].events)
         /\ \A id \in Stored : usageEvents'[id] = usageEvents[id]
         /\ \A id \in Stored' \ Stored : usageEvents'[id] = hreq[h].events[id]
<1>1. hreq[h] \in Request /\ usageEvents \in Batch
  BY DEF TypeOK, Commit, Goto
<1>2. \A id \in Id : usageEvents'[id] =
        IF usageEvents[id] # NoRow THEN usageEvents[id] ELSE hreq[h].events[id]
  BY <1>1, RequestParts, InsertIsBatch DEF Commit
<1> QED
  BY <1>2 DEF Stored, Named

(* What an event of a request says of its machine and its scan root. *)
LEMMA EventLabels ==
  ASSUME NEW q \in Request, WellFormed(q), NEW id \in Named(q.events)
  PROVE  q.events[id].machine = q.install /\ q.events[id].root \in RootsOf(q)
BY DEF WellFormed, MachinesOf, RootsOf

(* The inductive invariant holds in every reachable state. *)
THEOREM IngestInvariant == Spec => []IngestInv
<1>1. Init => IngestInv
  <2> SUFFICES ASSUME Init PROVE IngestInv
    OBVIOUS
  <2>1. TypeOK
    BY DEF Init, TypeOK, Batch
  <2>2. Stored = {}
    BY DEF Init, Stored, Named
  <2>3. InsertedOnce
    BY <2>2, FS_EmptySet DEF InsertedOnce, Init
  <2> QED
    BY <2>1, <2>2, <2>3, NoHandlerAssumption
    DEF IngestInv, Init, EventsHaveLabels, CreatedMeansStored, Labelled, UpsertsDone, Locked
<1>2. IngestInv /\ TypeOK' /\ [Next]_serverVars => IngestInv'
  <2> SUFFICES ASSUME IngestInv, TypeOK', [Next]_serverVars PROVE IngestInv'
    OBVIOUS
  <2> USE DEF IngestInv
  <2>0. ASSUME UNCHANGED usageEvents PROVE Stored' = Stored
    BY <2>0 DEF Stored, Named
  <2>1. ASSUME NEW h \in Handler, NEW q \in Request, WellFormed(q), Accept(h, q) PROVE IngestInv'
    <3>1. UNCHANGED <<usageEvents, machines, scanRoots, writer, fresh, reported>> /\ Stored' = Stored
      BY <2>1, <2>0 DEF Accept
    <3>2. \A g \in Handler :
            /\ hpc'[g] = IF g = h THEN "machine" ELSE hpc[g]
            /\ hreq'[g] = IF g = h THEN q ELSE hreq[g]
            /\ todo'[g] = IF g = h THEN RootsOf(q) ELSE todo[g]
      BY <2>1 DEF Accept, Goto, TypeOK
    <3>3. hpc[h] = "idle"
      BY <2>1 DEF Accept, Goto
    <3>4. EventsHaveLabels' /\ InsertedOnce' /\ CreatedMeansStored'
      BY <3>1, <3>2 DEF EventsHaveLabels, InsertedOnce, CreatedMeansStored
    <3>5. \A g \in Handler : Labelled(g)' /\ UpsertsDone(g)' /\ Locked(g)'
      BY <3>1, <3>2, <3>3 DEF Labelled, UpsertsDone, Locked
    <3> QED
      BY <3>4, <3>5
  <2>2. ASSUME NEW h \in Handler, UpsertMachine(h) PROVE IngestInv'
    <3>1. UNCHANGED <<usageEvents, scanRoots, writer, hreq, todo, fresh, reported>>
          /\ Stored' = Stored /\ machines' = machines \cup {hreq[h].install}
      BY <2>2, <2>0 DEF UpsertMachine
    <3>2. \A g \in Handler : hpc'[g] = IF g = h THEN "roots" ELSE hpc[g]
      BY <2>2 DEF UpsertMachine, Goto, TypeOK
    <3>3. hpc[h] = "machine"
      BY <2>2 DEF UpsertMachine, Goto
    <3>4. EventsHaveLabels' /\ InsertedOnce' /\ CreatedMeansStored'
      BY <3>1, <3>2 DEF EventsHaveLabels, InsertedOnce, CreatedMeansStored
    <3>5. \A g \in Handler : Labelled(g)'
      BY <3>1, <3>2, <3>3 DEF Labelled, UpsertsDone
    <3>6. \A g \in Handler : UpsertsDone(g)' /\ Locked(g)'
      BY <3>1, <3>2, <3>3 DEF UpsertsDone, Locked
    <3> QED
      BY <3>4, <3>5, <3>6
  <2>3. ASSUME NEW h \in Handler, NEW s \in ScanRoot, UpsertScanRoot(h, s) PROVE IngestInv'
    <3>1. UNCHANGED <<usageEvents, machines, writer, hpc, hreq, fresh, reported>>
          /\ Stored' = Stored /\ scanRoots' = scanRoots \cup {<<hreq[h].install, s>>}
          /\ hpc[h] = "roots"
      BY <2>3, <2>0 DEF UpsertScanRoot
    <3>2. \A g \in Handler : todo'[g] = IF g = h THEN todo[g] \ {s} ELSE todo[g]
      BY <2>3 DEF UpsertScanRoot, TypeOK
    <3>3. EventsHaveLabels' /\ InsertedOnce' /\ CreatedMeansStored'
      BY <3>1 DEF EventsHaveLabels, InsertedOnce, CreatedMeansStored
    <3>4. \A g \in Handler : Labelled(g)'
      BY <3>1, <3>2 DEF Labelled
    <3>5. \A g \in Handler : UpsertsDone(g)' /\ Locked(g)'
      BY <3>1, <3>2 DEF UpsertsDone, Locked
    <3> QED
      BY <3>3, <3>4, <3>5
  <2>4. ASSUME NEW h \in Handler, IngestNothing(h) PROVE IngestInv'
    <3>1. UNCHANGED <<tables, writer, hreq, todo, fresh, reported>> /\ Stored' = Stored
          /\ hpc[h] = "roots" /\ todo[h] = {} /\ Named(hreq[h].events) = {}
      BY <2>4, <2>0 DEF IngestNothing, Goto
    <3>2. \A g \in Handler : hpc'[g] = IF g = h THEN "created" ELSE hpc[g]
      BY <2>4 DEF IngestNothing, Goto, TypeOK
    <3>3. EventsHaveLabels' /\ InsertedOnce' /\ CreatedMeansStored'
      BY <3>1, <3>2 DEF EventsHaveLabels, InsertedOnce, CreatedMeansStored
    <3>4. \A g \in Handler : Labelled(g)' /\ UpsertsDone(g)' /\ Locked(g)'
      BY <3>1, <3>2 DEF Labelled, UpsertsDone, Locked
    <3> QED
      BY <3>3, <3>4
  <2>5. ASSUME NEW h \in Handler, InsertBatch(h) PROVE IngestInv'
    <3>1. UNCHANGED <<tables, hreq, todo, reported>> /\ Stored' = Stored
          /\ hpc[h] = "roots" /\ todo[h] = {} /\ writer = NoHandler /\ writer' = h
      BY <2>5, <2>0 DEF InsertBatch, Goto, Unlocked
    <3>2. \A g \in Handler :
            /\ hpc'[g] = IF g = h THEN "commit" ELSE hpc[g]
            /\ fresh'[g] = IF g = h THEN Named(hreq[h].events) \ Stored ELSE fresh[g]
      BY <2>5 DEF InsertBatch, Goto, TypeOK
    <3>3. EventsHaveLabels' /\ InsertedOnce' /\ CreatedMeansStored'
      BY <3>1, <3>2 DEF EventsHaveLabels, InsertedOnce, CreatedMeansStored
    <3>4. \A g \in Handler : Labelled(g)' /\ UpsertsDone(g)' /\ Locked(g)'
      BY <3>1, <3>2, NoHandlerAssumption DEF Labelled, UpsertsDone, Locked
    <3> QED
      BY <3>3, <3>4
  <2>6. ASSUME NEW h \in Handler, Commit(h) PROVE IngestInv'
    <3> DEFINE q == hreq[h]
    <3>1. UNCHANGED <<machines, scanRoots, hreq, todo, fresh>> /\ hpc[h] = "commit"
          /\ writer' = NoHandler /\ reported' = reported + Cardinality(fresh[h])
      BY <2>6 DEF Commit, Goto
    <3>2. \A g \in Handler : hpc'[g] = IF g = h THEN "created" ELSE hpc[g]
      BY <2>6 DEF Commit, Goto, TypeOK
    <3>3. q \in Request /\ WellFormed(q) /\ Named(q.events) \subseteq Id
      BY <3>1, RequestParts DEF TypeOK
    <3>4. /\ Stored' = Stored \cup Named(q.events)
          /\ \A id \in Stored : usageEvents'[id] = usageEvents[id]
          /\ \A id \in Stored' \ Stored : usageEvents'[id] = q.events[id]
      BY <2>6, CommitEffect
    <3>5. EventsHaveLabels'
      <4> SUFFICES ASSUME NEW id \in Stored'
                   PROVE  /\ usageEvents'[id].machine \in machines
                          /\ <<usageEvents'[id].machine, usageEvents'[id].root>> \in scanRoots
        BY <3>1 DEF EventsHaveLabels
      <4>1. CASE id \in Stored
        BY <4>1, <3>4 DEF EventsHaveLabels
      <4>2. CASE id \notin Stored
        <5>1. id \in Named(q.events) /\ usageEvents'[id] = q.events[id]
          BY <4>2, <3>4
        <5>2. q.events[id].machine = q.install /\ q.events[id].root \in RootsOf(q)
          BY <5>1, <3>3, EventLabels
        <5>3. q.install \in machines /\ \A s \in RootsOf(q) : <<q.install, s>> \in scanRoots
          BY <3>1 DEF Labelled, UpsertsDone
        <5> QED
          BY <5>1, <5>2, <5>3
      <4> QED
        BY <4>1, <4>2
    <3>6. CreatedMeansStored'
      BY <3>1, <3>2, <3>4 DEF CreatedMeansStored
    <3>7. InsertedOnce'
      <4>1. fresh[h] = Named(q.events) \ Stored
        BY <3>1 DEF Locked
      <4>2. IsFiniteSet(Stored) /\ IsFiniteSet(fresh[h])
        BY <4>1, <3>3, IdAssumption, FS_Subset DEF Stored, Named
      <4>3. Stored' = Stored \cup fresh[h] /\ Stored \cap fresh[h] = {}
        BY <4>1, <3>4
      <4>4. Cardinality(Stored \cup fresh[h])
              = Cardinality(Stored) + Cardinality(fresh[h]) - Cardinality(Stored \cap fresh[h])
        BY <4>2, FS_Union
      <4>5. Cardinality(Stored \cap fresh[h]) = 0
        BY <4>3, FS_EmptySet
      <4>6. Cardinality(Stored) \in Nat /\ Cardinality(fresh[h]) \in Nat
        BY <4>2, FS_CardinalityType
      <4> QED
        BY <4>3, <4>4, <4>5, <4>6, <3>1 DEF InsertedOnce
    <3>8. writer = h
      BY <3>1 DEF Locked
    <3>9. \A g \in Handler : Labelled(g)' /\ UpsertsDone(g)' /\ Locked(g)'
      BY <3>1, <3>2, <3>8, NoHandlerAssumption DEF Labelled, UpsertsDone, Locked
    <3> QED
      BY <3>5, <3>6, <3>7, <3>9
  <2>7. ASSUME NEW h \in Handler, Fail(h) PROVE IngestInv'
    <3>1. UNCHANGED <<tables, hreq, todo, reported>> /\ Stored' = Stored
          /\ writer' = IF writer = h THEN NoHandler ELSE writer
      BY <2>7, <2>0 DEF Fail
    <3>2. \A g \in Handler :
            /\ hpc'[g] = IF g = h THEN "failed" ELSE hpc[g]
            /\ g # h => fresh'[g] = fresh[g]
      BY <2>7 DEF Fail, TypeOK
    <3>3. EventsHaveLabels' /\ InsertedOnce' /\ CreatedMeansStored'
      BY <3>1, <3>2 DEF EventsHaveLabels, InsertedOnce, CreatedMeansStored
    <3>4. \A g \in Handler : Labelled(g)' /\ UpsertsDone(g)' /\ Locked(g)'
      BY <3>1, <3>2, NoHandlerAssumption DEF Labelled, UpsertsDone, Locked
    <3> QED
      BY <3>3, <3>4
  <2>8. ASSUME NEW h \in Handler, Finish(h) PROVE IngestInv'
    <3>1. UNCHANGED <<tables, writer, reported>> /\ Stored' = Stored /\ hpc[h] # "commit"
      BY <2>8, <2>0 DEF Finish
    <3>2. \A g \in Handler :
            /\ hpc'[g] = IF g = h THEN "idle" ELSE hpc[g]
            /\ g # h => hreq'[g] = hreq[g] /\ todo'[g] = todo[g] /\ fresh'[g] = fresh[g]
      BY <2>8 DEF Finish, TypeOK
    <3>3. EventsHaveLabels' /\ InsertedOnce' /\ CreatedMeansStored'
      BY <3>1, <3>2 DEF EventsHaveLabels, InsertedOnce, CreatedMeansStored
    <3>4. \A g \in Handler : Labelled(g)' /\ UpsertsDone(g)' /\ Locked(g)'
      BY <3>1, <3>2 DEF Labelled, UpsertsDone, Locked
    <3> QED
      BY <3>3, <3>4
  <2>9. CASE Restart
    <3>1. UNCHANGED <<tables, reported>> /\ Stored' = Stored /\ writer' = NoHandler
          /\ \A g \in Handler : hpc'[g] = "idle"
      BY <2>9, <2>0 DEF Restart
    <3> QED
      BY <3>1, NoHandlerAssumption
      DEF EventsHaveLabels, InsertedOnce, CreatedMeansStored, Labelled, UpsertsDone, Locked
  <2>10. CASE UNCHANGED serverVars
    BY <2>10, <2>0
    DEF EventsHaveLabels, InsertedOnce, CreatedMeansStored, Labelled, UpsertsDone, Locked
  <2> QED
    BY <2>1, <2>2, <2>3, <2>4, <2>5, <2>6, <2>7, <2>8, <2>9, <2>10 DEF Next, Serve
<1> QED
  BY <1>1, <1>2, TypeCorrect, PTL DEF Spec

(* Every stored event has its machine row and its scan root row, however the
   requests of IngestUsageEventsBatch interleave or fail. *)
THEOREM Labels == Spec => []EventsHaveLabels
<1>1. IngestInv => EventsHaveLabels
  BY DEF IngestInv
<1> QED
  BY <1>1, IngestInvariant, PTL

(* A 201 of IngestUsageEventsBatch means that the whole batch is stored. *)
THEOREM Created == Spec => []CreatedMeansStored
<1>1. IngestInv => CreatedMeansStored
  BY DEF IngestInv
<1> QED
  BY <1>1, IngestInvariant, PTL

(* The reported `inserted` counts add up to the rows of the table. *)
THEOREM CountsAddUp == Spec => []InsertedOnce
<1>1. IngestInv => InsertedOnce
  BY DEF IngestInv
<1> QED
  BY <1>1, IngestInvariant, PTL

(* One step never changes a stored event. *)
LEMMA StepKeepsRows ==
  ASSUME TypeOK, [Next]_serverVars
  PROVE  \A id \in Stored : usageEvents'[id] = usageEvents[id]
<1>1. ASSUME NEW h \in Handler, Commit(h) PROVE \A id \in Stored : usageEvents'[id] = usageEvents[id]
  BY <1>1, CommitEffect
<1>2. ASSUME ~\E h \in Handler : Commit(h) PROVE UNCHANGED usageEvents
  BY <1>2 DEF Next, Serve, Accept, UpsertMachine, UpsertScanRoot, IngestNothing, InsertBatch,
              Fail, Finish, Restart
<1> QED
  BY <1>1, <1>2

(* Stored events are write-once (INSERT OR IGNORE in InsertBatch). *)
THEOREM RowsNeverChange == Spec => WriteOnce
<1>1. TypeOK /\ [Next]_serverVars
        => [\A id \in Stored : usageEvents'[id] = usageEvents[id]]_usageEvents
  BY StepKeepsRows
<1> QED
  BY <1>1, TypeCorrect, PTL DEF Spec, WriteOnce
=============================================================================
