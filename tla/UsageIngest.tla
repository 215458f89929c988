---------------------------- MODULE UsageIngest ----------------------------
(***************************************************************************)
(* The server's side of POST /api/v1/usage-events/batch: concurrent        *)
(* requests, each upserting its machine and its scan roots statement by    *)
(* statement and then inserting its events in one SQLite transaction.  The *)
(* database has one writer at a time and no busy timeout, so a statement   *)
(* that meets another request's open transaction fails its request.        *)
(***************************************************************************)
EXTENDS Naturals, FiniteSets

CONSTANTS
  Handler,    \* requests the server can be serving at once
  Install,    \* install ids
  ScanRoot,   \* scan root paths
  Path,       \* the values of an event's `path`
  Id,         \* message ids
  NoRow,      \* an id a batch or the table does not hold
  NoRequest,  \* an idle handler's request
  NoHandler   \* no open write transaction

(* What an event says beyond its id.  Of the fields two reports of one     *)
(* message can differ in, `path` stands for all: the others are read from  *)
(* the same transcript line every time.                                    *)
Row == [machine : Install, root : ScanRoot, path : Path]
Batch == [Id -> Row \cup {NoRow}]
Request == [install : Install, events : Batch]

ASSUME NoRowAssumption == NoRow \notin Row
ASSUME NoRequestAssumption == NoRequest \notin Request
ASSUME NoHandlerAssumption == NoHandler \notin Handler
ASSUME IdAssumption == IsFiniteSet(Id)

VARIABLES
  machines,     \* installs with a row in `machines`
  scanRoots,    \* keys <<install, root>> of `scan_roots`
  usageEvents,  \* the `usage_events` row of each id, or NoRow
  writer,       \* the handler whose transaction holds the write lock
  hpc,          \* where each handler is
  hreq,         \* the request each handler serves
  todo,         \* scan roots the handler has still to upsert
  fresh,        \* ids its transaction inserted (the others were ignored)
  reported      \* history: the sum of `inserted` over committed batches

tables == <<machines, scanRoots, usageEvents>>
serverVars == <<tables, writer, hpc, hreq, todo, fresh, reported>>

Named(events) == {id \in Id : events[id] # NoRow}
Stored == Named(usageEvents)
RootsOf(q) == {q.events[id].root : id \in Named(q.events)}
MachinesOf(q) == {q.events[id].machine : id \in Named(q.events)}

(* The collector stamps every event with its own install id and lists the  *)
(* scan root of every event it sends.                                      *)
WellFormed(q) == MachinesOf(q) \subseteq {q.install}

Init ==
  /\ machines = {}
  /\ scanRoots = {}
  /\ usageEvents = [id \in Id |-> NoRow]
  /\ writer = NoHandler
  /\ hpc = [h \in Handler |-> "idle"]
  /\ hreq = [h \in Handler |-> NoRequest]
  /\ todo = [h \in Handler |-> {}]
  /\ fresh = [h \in Handler |-> {}]
  /\ reported = 0

Goto(h, from, to) ==
  /\ hpc[h] = from
  /\ hpc' = [hpc EXCEPT ![h] = to]

(* Seeded fault: a batch's rows overwrite the stored ones (OR REPLACE). *)
InsertOrReplace(events) == [id \in Id |-> IF events[id] # NoRow THEN events[id] ELSE usageEvents[id]]

(* INSERT OR IGNORE of every event of the batch: a stored id keeps its row. *)
InsertOrIgnore(events) ==
  [id \in Id |-> IF usageEvents[id] # NoRow THEN usageEvents[id] ELSE events[id]]

(* Seeded fault: transactions do not exclude each other. *)
NoLock == TRUE

(* A write statement succeeds only while no transaction is open. *)
Unlocked == writer = NoHandler

(* Seeded fault: a body that does not bind does not end the request. *)
AcceptUnbound(h, q) ==
  /\ Goto(h, "idle", "machine")
  /\ UNCHANGED <<tables, writer, hreq, todo, fresh, reported>>

(* The actor is resolved and the body bound. *)
Accept(h, q) ==
  /\ Goto(h, "idle", "machine")
  /\ hreq' = [hreq EXCEPT ![h] = q]
  /\ todo' = [todo EXCEPT ![h] = RootsOf(q)]
  /\ UNCHANGED <<tables, writer, fresh, reported>>

(* Seeded fault: the scan roots are upserted without their machine. *)
SkipMachine(h) ==
  /\ Goto(h, "machine", "roots")
  /\ UNCHANGED <<tables, writer, hreq, todo, fresh, reported>>

UpsertMachine(h) ==
  /\ Unlocked
  /\ Goto(h, "machine", "roots")
  /\ machines' = machines \cup {hreq[h].install}
  /\ UNCHANGED <<scanRoots, usageEvents, writer, hreq, todo, fresh, reported>>

UpsertScanRoot(h, s) ==
  /\ Unlocked
  /\ hpc[h] = "roots"
  /\ s \in todo[h]
  /\ scanRoots' = scanRoots \cup {<<hreq[h].install, s>>}
  /\ todo' = [todo EXCEPT ![h] = @ \ {s}]
  /\ UNCHANGED <<machines, usageEvents, writer, hpc, hreq, fresh, reported>>

(* An empty batch is answered without a transaction. *)
IngestNothing(h) ==
  /\ Goto(h, "roots", "created")
  /\ todo[h] = {}
  /\ Named(hreq[h].events) = {}
  /\ UNCHANGED <<tables, writer, hreq, todo, fresh, reported>>

(* The insert loop of InsertBatch.  The rows it adds stay invisible until  *)
(* Commit, and the lock keeps every other writer out until then.           *)
InsertBatch(h) ==
  /\ Unlocked
  /\ Goto(h, "roots", "commit")
  /\ todo[h] = {}
  /\ Named(hreq[h].events) # {}
  /\ writer' = h
  /\ fresh' = [fresh EXCEPT ![h] = Named(hreq[h].events) \ Stored]
  /\ UNCHANGED <<tables, hreq, todo, reported>>

Commit(h) ==
  /\ Goto(h, "commit", "created")
  /\ writer' = NoHandler
  /\ usageEvents' = InsertOrIgnore(hreq[h].events)
  /\ reported' = reported + Cardinality(fresh[h])
  /\ UNCHANGED <<machines, scanRoots, hreq, todo, fresh>>

(* Seeded fault: an error is answered like a success. *)
FailAsCreated(h) ==
  /\ hpc[h] \in {"machine", "roots", "commit"}
  /\ hpc' = [hpc EXCEPT ![h] = "created"]
  /\ writer' = IF writer = h THEN NoHandler ELSE writer
  /\ UNCHANGED <<tables, hreq, todo, fresh, reported>>

(* Any database error, the lock and a cancelled request included: 500.  A  *)
(* transaction is rolled back; what earlier statements wrote stays.  (The  *)
(* code leaves that to the driver when it is the commit that fails.)       *)
Fail(h) ==
  /\ hpc[h] \in {"machine", "roots", "commit"}
  /\ hpc' = [hpc EXCEPT ![h] = "failed"]
  /\ writer' = IF writer = h THEN NoHandler ELSE writer
  /\ fresh' = [fresh EXCEPT ![h] = {}]
  /\ UNCHANGED <<tables, hreq, todo, reported>>

(* The response leaves the server. *)
Finish(h) ==
  /\ hpc[h] \in {"created", "failed"}
  /\ hpc' = [hpc EXCEPT ![h] = "idle"]
  /\ hreq' = [hreq EXCEPT ![h] = NoRequest]
  /\ todo' = [todo EXCEPT ![h] = {}]
  /\ fresh' = [fresh EXCEPT ![h] = {}]
  /\ UNCHANGED <<tables, writer, reported>>

(* A crash or a restart: SQLite drops the open transaction. *)
Restart ==
  /\ \E h \in Handler : hpc[h] # "idle"
  /\ writer' = NoHandler
  /\ hpc' = [h \in Handler |-> "idle"]
  /\ hreq' = [h \in Handler |-> NoRequest]
  /\ todo' = [h \in Handler |-> {}]
  /\ fresh' = [h \in Handler |-> {}]
  /\ UNCHANGED <<tables, reported>>

Serve(h) ==
  \/ UpsertMachine(h)
  \/ \E s \in ScanRoot : UpsertScanRoot(h, s)
  \/ IngestNothing(h)
  \/ InsertBatch(h)
  \/ Commit(h)
  \/ Fail(h)

Next ==
  \/ \E h \in Handler, q \in Request : WellFormed(q) /\ Accept(h, q)
  \/ \E h \in Handler : Serve(h) \/ Finish(h)
  \/ Restart

Spec == Init /\ [][Next]_serverVars

-----------------------------------------------------------------------------
TypeOK ==
  /\ machines \subseteq Install
  /\ scanRoots \subseteq Install \X ScanRoot
  /\ usageEvents \in Batch
  /\ writer \in Handler \cup {NoHandler}
  /\ hpc \in [Handler -> {"idle", "machine", "roots", "commit", "created", "failed"}]
  /\ hreq \in [Handler -> Request \cup {NoRequest}]
  /\ \A h \in Handler : hpc[h] # "idle" => hreq[h] \in Request /\ WellFormed(hreq[h])
  /\ todo \in [Handler -> SUBSET ScanRoot]
  /\ fresh \in [Handler -> SUBSET Id]
  /\ reported \in Nat

(* Every stored event has the machine row and the scan root row the console
   labels it with, whatever requests interleave, fail or die half way
   (IngestUsageEventsBatch upserts both before it inserts). *)
EventsHaveLabels ==
  \A id \in Stored :
    /\ usageEvents[id].machine \in machines
    /\ <<usageEvents[id].machine, usageEvents[id].root>> \in scanRoots

(* A 201 says that every event of the batch is in the table. *)
CreatedMeansStored ==
  \A h \in Handler : hpc[h] = "created" => Named(hreq[h].events) \subseteq Stored

(* The `inserted` counts of all committed batches add up to the table: no
   event is counted as new by two batches and none goes uncounted
   (IngestBatch's received/inserted accounting). *)
InsertedOnce == reported = Cardinality(Stored)

(* A stored event is never changed: `usage_events` is write-once. *)
WriteOnce ==
  [][\A id \in Stored : usageEvents'[id] = usageEvents[id]]_usageEvents
=============================================================================
