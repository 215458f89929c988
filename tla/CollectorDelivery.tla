------------------------- MODULE CollectorDelivery -------------------------
(***************************************************************************)
(* The collector's delivery of usage rows, end to end: transcripts grow,   *)
(* collector invocations (one after another, or overlapping) parse them,   *)
(* drop what the sent-state file lists, POST the rest as one batch to the  *)
(* server of UsageIngest and, after a 201, save the sent-state file.       *)
(* Invocations fail or die anywhere, requests outlive their client, and    *)
(* responses are lost.                                                     *)
(***************************************************************************)
EXTENDS UsageIngest

CONSTANTS
  Run,             \* collector invocations that may overlap
  NoRun,           \* the client of an abandoned request
  LocalInstall,    \* the install id of the one config file they share
  CrashDuringSave  \* TRUE: an invocation may die while it writes the state file

ASSUME LocalInstallAssumption == LocalInstall \in Install
ASSUME NoRunAssumption == NoRun \notin Run
ASSUME CrashDuringSaveAssumption == CrashDuringSave \in BOOLEAN

VARIABLES
  written,   \* message ids with a usage line in some transcript
  sentFile,  \* the state file: "missing", "torn" or "whole"
  sentIds,   \* the ids it lists when it is whole
  pc,        \* where each invocation is
  rows,      \* allRows while it parses, then newRows
  loaded,    \* its in-memory SentState
  request,   \* the batch it built
  client     \* which invocation waits for a handler's response

fileVars == <<sentFile, sentIds>>
runVars == <<pc, rows, loaded, request>>
collectorVars == <<written, fileVars, runVars, client>>
vars == <<serverVars, collectorVars>>

(* The rows this install can report. *)
LocalRow == [machine : {LocalInstall}, root : ScanRoot, path : Path]

CInit ==
  /\ Init
  /\ written = {}
  /\ sentFile = "missing"
  /\ sentIds = {}
  /\ pc = [r \in Run |-> "idle"]
  /\ rows = [r \in Run |-> {}]
  /\ loaded = [r \in Run |-> {}]
  /\ request = [r \in Run |-> NoRequest]
  /\ client = [h \in Handler |-> NoRun]

(* What an invocation held in memory is gone when it exits. *)
Exit(r) ==
  /\ pc' = [pc EXCEPT ![r] = "idle"]
  /\ rows' = [rows EXCEPT ![r] = {}]
  /\ loaded' = [loaded EXCEPT ![r] = {}]
  /\ request' = [request EXCEPT ![r] = NoRequest]

Abandon(r) == client' = [h \in Handler |-> IF client[h] = r THEN NoRun ELSE client[h]]

(* Claude Code appends a usage line. *)
WriteRow(id) ==
  /\ id \notin written
  /\ written' = written \cup {id}
  /\ UNCHANGED <<serverVars, fileVars, runVars, client>>

BeginRun(r) ==
  /\ pc[r] = "idle"
  /\ pc' = [pc EXCEPT ![r] = "scan"]
  /\ rows' = [rows EXCEPT ![r] = written]
  /\ UNCHANGED <<serverVars, written, fileVars, loaded, request, client>>

(* The files are read one after another: a row written meanwhile is seen   *)
(* or not, depending on where its file stood in the order.                 *)
ExtractRows(r) ==
  /\ pc[r] = "scan"
  /\ pc' = [pc EXCEPT ![r] = "load"]
  /\ \E seen \in SUBSET written :
       /\ rows[r] \subseteq seen
       /\ rows' = [rows EXCEPT ![r] = seen]
  /\ UNCHANGED <<serverVars, written, fileVars, loaded, request, client>>

(* Seeded fault: nothing is sent once the state file lists something. *)
UnsentIfFirst(all, sent) == IF sent = {} THEN all ELSE {}

(* Seeded fault: every row is sent again. *)
AllRows(all, sent) == all

FilterUnsent(all, sent) == all \ sent

(* A missing file is an empty set; a malformed one is an error (AbortRun). *)
LoadSentState(r) ==
  /\ pc[r] = "load"
  /\ sentFile # "torn"
  /\ pc' = [pc EXCEPT ![r] = "attribute"]
  /\ loaded' = [loaded EXCEPT ![r] = sentIds]
  /\ rows' = [rows EXCEPT ![r] = FilterUnsent(@, sentIds)]
  /\ UNCHANGED <<serverVars, written, fileVars, request, client>>

(* The path store has been read and updated: the batch is built with the   *)
(* root and the path this invocation resolved for each row.                *)
BuildEvents(r) ==
  /\ pc[r] = "attribute"
  /\ rows[r] # {}
  /\ pc' = [pc EXCEPT ![r] = "post"]
  /\ \E f \in [rows[r] -> LocalRow] :
       request' = [request EXCEPT ![r] =
                     [install |-> LocalInstall,
                      events |-> [id \in Id |-> IF id \in rows[r] THEN f[id] ELSE NoRow]]]
  /\ UNCHANGED <<serverVars, written, fileVars, rows, loaded, client>>

(* Seeded fault: the early return for "no new rows" is missing. *)
PostAnyway(r) ==
  /\ pc[r] = "attribute"
  /\ rows[r] = {}
  /\ pc' = [pc EXCEPT ![r] = "post"]
  /\ UNCHANGED <<serverVars, written, fileVars, rows, loaded, request, client>>

NothingToSend(r) ==
  /\ pc[r] = "attribute"
  /\ rows[r] = {}
  /\ Exit(r)
  /\ UNCHANGED <<serverVars, written, fileVars, client>>

PostBatch(r, h) ==
  /\ pc[r] = "post"
  /\ Accept(h, request[r])
  /\ client' = [client EXCEPT ![h] = r]
  /\ pc' = [pc EXCEPT ![r] = "await"]
  /\ UNCHANGED <<written, fileVars, rows, loaded, request>>

(* Seeded fault: the status of the response is not looked at. *)
AnyStatus(h) == hpc[h] \in {"created", "failed"}

IsSuccess(h) == hpc[h] = "created"

(* The response arrives: only a 201 takes the invocation to the save. *)
Receive(h) ==
  /\ client[h] \in Run
  /\ Finish(h)
  /\ client' = [client EXCEPT ![h] = NoRun]
  /\ IF IsSuccess(h)
       THEN /\ pc' = [pc EXCEPT ![client[h]] = "truncate"]
            /\ UNCHANGED <<rows, loaded, request>>
       ELSE Exit(client[h])
  /\ UNCHANGED <<written, fileVars>>

(* Nobody waits for the response, or it is lost on the way. *)
LoseResponse(h) ==
  /\ Finish(h)
  /\ client' = [client EXCEPT ![h] = NoRun]
  /\ IF client[h] \in Run THEN Exit(client[h]) ELSE UNCHANGED runVars
  /\ UNCHANGED <<written, fileVars>>

(* MarkSent for every event, then the first half of os.WriteFile. *)
MarkAndTruncate(r) ==
  /\ pc[r] = "truncate"
  /\ pc' = [pc EXCEPT ![r] = "write"]
  /\ loaded' = [loaded EXCEPT ![r] = @ \cup Named(request[r].events)]
  /\ sentFile' = "torn"
  /\ sentIds' = {}
  /\ UNCHANGED <<serverVars, written, rows, request, client>>

(* The second half.  Each invocation writes through its own descriptor     *)
(* from offset 0, so over another one's longer text it leaves that text's  *)
(* tail behind: malformed JSON.  (A third text over such a remainder is    *)
(* taken for whole, which it is if it is the longest.)                     *)
Overwrites(r) == sentFile = "whole" /\ Cardinality(sentIds) > Cardinality(loaded[r])

WriteState(r) ==
  /\ pc[r] = "write"
  /\ sentFile' = IF Overwrites(r) THEN "torn" ELSE "whole"
  /\ sentIds' = IF Overwrites(r) THEN {} ELSE loaded[r]
  /\ Exit(r)
  /\ UNCHANGED <<serverVars, written, client>>

(* Every error return of Run outside the write of the state file, the      *)
(* client's timeout, a refused connection, and the death of the process.   *)
(* The server may go on serving the request.                               *)
AbortRun(r) ==
  /\ pc[r] \notin {"idle", "write"}
  /\ Exit(r)
  /\ Abandon(r)
  /\ UNCHANGED <<serverVars, written, fileVars>>

(* The process dies, or the disk fills up, between truncation and write. *)
CrashInSave(r) ==
  /\ CrashDuringSave
  /\ pc[r] = "write"
  /\ Exit(r)
  /\ UNCHANGED <<serverVars, written, fileVars, client>>

ServeOn(h) == Serve(h) /\ UNCHANGED collectorVars

(* Connections break: every waiting invocation gets an error. *)
ServerRestart ==
  /\ Restart
  /\ client' = [h \in Handler |-> NoRun]
  /\ pc' = [r \in Run |-> IF pc[r] = "await" THEN "idle" ELSE pc[r]]
  /\ rows' = [r \in Run |-> IF pc[r] = "await" THEN {} ELSE rows[r]]
  /\ loaded' = [r \in Run |-> IF pc[r] = "await" THEN {} ELSE loaded[r]]
  /\ request' = [r \in Run |-> IF pc[r] = "await" THEN NoRequest ELSE request[r]]
  /\ UNCHANGED <<written, fileVars>>

RunStep(r) ==
  \/ BeginRun(r) \/ ExtractRows(r) \/ LoadSentState(r)
  \/ BuildEvents(r) \/ NothingToSend(r)
  \/ \E h \in Handler : PostBatch(r, h)
  \/ MarkAndTruncate(r) \/ WriteState(r)
  \/ AbortRun(r) \/ CrashInSave(r)

CNext ==
  \/ \E id \in Id : WriteRow(id)
  \/ \E r \in Run : RunStep(r)
  \/ \E h \in Handler : ServeOn(h) \/ Receive(h) \/ LoseResponse(h)
  \/ ServerRestart

CSpec == CInit /\ [][CNext]_vars

(* What an operator would call an incident.  An invocation with nothing to   *)
(* send ends in the same state whether it aborts or not: no incident.       *)
Failure ==
  \/ \E r \in Run : AbortRun(r) /\ ~NothingToSend(r)
  \/ \E r \in Run : CrashInSave(r)
  \/ \E h \in Handler : ServeOn(h) /\ Fail(h)
  \/ \E h \in Handler : client[h] \in Run /\ LoseResponse(h)
  \/ ServerRestart

(* Fairness.  A schedule keeps starting the collector, a process that      *)
(* is neither killed nor refused takes its next step, and incidents        *)
(* stop at some point (a send that fails for ever settles nothing).        *)
Fairness ==
  /\ \A r \in Run :
       /\ WF_vars(BeginRun(r))
       /\ WF_vars(ExtractRows(r))
       /\ WF_vars(LoadSentState(r))
       /\ WF_vars(BuildEvents(r))
       /\ WF_vars(NothingToSend(r))
       /\ WF_vars(\E h \in Handler : PostBatch(r, h))
       /\ WF_vars(MarkAndTruncate(r))
       /\ WF_vars(WriteState(r))
  /\ \A h \in Handler :
       /\ WF_vars(ServeOn(h))
       /\ WF_vars(Receive(h))
       /\ WF_vars(LoseResponse(h))
  /\ <>[][~Failure]_vars

FairSpec == CSpec /\ Fairness

-----------------------------------------------------------------------------
CTypeOK ==
  /\ TypeOK
  /\ written \subseteq Id
  /\ sentFile \in {"missing", "torn", "whole"}
  /\ sentIds \subseteq Id
  /\ sentFile # "whole" => sentIds = {}
  /\ pc \in [Run -> {"idle", "scan", "load", "attribute", "post", "await", "truncate", "write"}]
  /\ rows \in [Run -> SUBSET Id]
  /\ loaded \in [Run -> SUBSET Id]
  /\ request \in [Run -> Request \cup {NoRequest}]
  /\ \A r \in Run : pc[r] = "post" => request[r] \in Request /\ WellFormed(request[r])
  /\ client \in [Handler -> Run \cup {NoRun}]

(* Nothing is lost by being taken for delivered: an id the state file lists,
   or an invocation has marked sent, is in usage_events, whatever is lost,
   retried, overlapping or restarted (Run marks and saves only after a 201). *)
SentImpliesStored ==
  /\ sentIds \subseteq Stored
  /\ \A r \in Run : loaded[r] \subseteq Stored

(* The delivery implements the ledger: recorded once, never changed, settled
   only when recorded. *)
Ledger == INSTANCE UsageLedger WITH ledger <- usageEvents, settled <- sentIds
LedgerSpec == Ledger!Spec

(* A row already listed as sent is not put into a batch again.  For
   invocations that do not overlap (FilterUnsent). *)
NoResend ==
  [][\A r \in Run, h \in Handler : PostBatch(r, h) => Named(request[r].events) \cap sentIds = {}]_vars

(* Collecting never depends on the state file, an optimization and not a
   correctness requirement (internal/collector/state.go): whenever nobody is
   saving it, the next invocation can load it. *)
StateFileLoadable == (\A r \in Run : pc[r] # "write") => sentFile # "torn"

(* Every usage line is eventually in the server's table and settled in the
   state file: a failed send is retried on the next run rather than silently
   lost. *)
EventuallySettled == \A id \in Id : id \in written ~> id \in sentIds
=============================================================================
