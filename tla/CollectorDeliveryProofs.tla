---------------------- MODULE CollectorDeliveryProofs ----------------------
(***************************************************************************)
(* Proofs about CollectorDelivery, for every number of overlapping         *)
(* invocations and requests: the composition runs the server of            *)
(* UsageIngest, nothing undelivered is taken for delivered, responses      *)
(* reach the invocation that asked, and the whole implements UsageLedger.  *)
(***************************************************************************)
EXTENDS CollectorDelivery, UsageIngestProofs

USE DEF tables, serverVars, fileVars, runVars, collectorVars, vars

(* The batch an invocation builds is a well-formed request. *)
LEMMA BuiltRequest ==
  ASSUME NEW ids \in SUBSET Id, NEW f \in [ids -> LocalRow]
  PROVE  LET q == [install |-> LocalInstall,
                   events |-> [id \in Id |-> IF id \in ids THEN f[id] ELSE NoRow]]
         IN q \in Request /\ WellFormed(q)
<1> DEFINE events == [id \in Id |-> IF id \in ids THEN f[id] ELSE NoRow]
<1> DEFINE q == [install |-> LocalInstall, events |-> events]
<1>1. LocalRow \subseteq Row
  BY LocalInstallAssumption DEF LocalRow, Row
<1>2. events \in Batch
  BY <1>1 DEF Batch
<1>3. q \in Request
  BY <1>2, LocalInstallAssumption DEF Request
<1>4. \A id \in Named(events) : id \in ids /\ events[id].machine = LocalInstall
  BY DEF Named, LocalRow
<1>5. WellFormed(q)
  BY <1>4 DEF WellFormed, MachinesOf
<1> QED
  BY <1>3, <1>5

(* Every step of the composition is a step of the server, or none. *)
LEMMA ServerStep ==
  ASSUME CTypeOK, [CNext]_vars
  PROVE  [Next]_serverVars
<1>1. ASSUME NEW r \in Run, NEW h \in Handler, PostBatch(r, h) PROVE Next
  <2>1. request[r] \in Request /\ WellFormed(request[r])
    BY <1>1 DEF PostBatch, CTypeOK
  <2> QED
    BY <1>1, <2>1 DEF PostBatch, Next
<1>2. ASSUME NEW h \in Handler, ServeOn(h) \/ Receive(h) \/ LoseResponse(h) PROVE Next
  BY <1>2 DEF ServeOn, Receive, LoseResponse, Next
<1>3. CASE ServerRestart
  BY <1>3 DEF ServerRestart, Next
<1>4. ASSUME NEW r \in Run, RunStep(r), ~\E h \in Handler : PostBatch(r, h)
      PROVE UNCHANGED serverVars
  BY <1>4 DEF RunStep, BeginRun, ExtractRows, LoadSentState, BuildEvents, NothingToSend,
              MarkAndTruncate, WriteState, AbortRun, CrashInSave
<1>5. ASSUME NEW id \in Id, WriteRow(id) PROVE UNCHANGED serverVars
  BY <1>5 DEF WriteRow
<1> QED
  BY <1>1, <1>2, <1>3, <1>4, <1>5 DEF CNext

(* One step of the composition keeps the types. *)
LEMMA CTypeStep ==
  ASSUME CTypeOK, [CNext]_vars
  PROVE  CTypeOK'
<1>0. TypeOK'
  BY ServerStep, TypeStep DEF CTypeOK
<1> USE <1>0 DEF CTypeOK
<1>1. ASSUME NEW id \in Id, WriteRow(id) PROVE CTypeOK'
  BY <1>1 DEF WriteRow
<1>2. ASSUME NEW r \in Run, BeginRun(r) PROVE CTypeOK'
  BY <1>2 DEF BeginRun
<1>3. ASSUME NEW r \in Run, ExtractRows(r) PROVE CTypeOK'
  BY <1>3 DEF ExtractRows
<1>4. ASSUME NEW r \in Run, LoadSentState(r) PROVE CTypeOK'
  BY <1>4 DEF LoadSentState, FilterUnsent
<1>5. ASSUME NEW r \in Run, BuildEvents(r) PROVE CTypeOK'
  <2>1. PICK f \in [rows[r] -> LocalRow] :
          request' = [request EXCEPT ![r] =
                        [install |-> LocalInstall,
                         events |-> [id \in Id |-> IF id \in rows[r] THEN f[id] ELSE NoRow]]]
    BY <1>5 DEF BuildEvents
  <2>2. rows[r] \in SUBSET Id
    OBVIOUS
  <2>3. request'[r] \in Request /\ WellFormed(request'[r])
    BY <2>1, <2>2, BuiltRequest
  <2>4. request' \in [Run -> Request \cup {NoRequest}]
        /\ \A x \in Run : x # r => request'[x] = request[x]
    BY <2>1, <2>3
  <2> QED
    BY <1>5, <2>3, <2>4 DEF BuildEvents
<1>6. ASSUME NEW r \in Run, NothingToSend(r) PROVE CTypeOK'
  BY <1>6 DEF NothingToSend, Exit
<1>7. ASSUME NEW r \in Run, NEW h \in Handler, PostBatch(r, h) PROVE CTypeOK'
  BY <1>7 DEF PostBatch
<1>8. ASSUME NEW r \in Run, MarkAndTruncate(r) PROVE CTypeOK'
  BY <1>8 DEF MarkAndTruncate, Named
<1>9. ASSUME NEW r \in Run, WriteState(r) PROVE CTypeOK'
  BY <1>9 DEF WriteState, Exit
<1>10. ASSUME NEW r \in Run, AbortRun(r) PROVE CTypeOK'
  BY <1>10 DEF AbortRun, Exit, Abandon
<1>11. ASSUME NEW r \in Run, CrashInSave(r) PROVE CTypeOK'
  BY <1>11 DEF CrashInSave, Exit
<1>12. ASSUME NEW h \in Handler, ServeOn(h) PROVE CTypeOK'
  BY <1>12 DEF ServeOn
<1>13. ASSUME NEW h \in Handler, Receive(h) PROVE CTypeOK'
  <2>1. CASE IsSuccess(h)
    BY <1>13, <2>1 DEF Receive
  <2>2. CASE ~IsSuccess(h)
    BY <1>13, <2>2 DEF Receive, Exit
  <2> QED
    BY <2>1, <2>2
<1>14. ASSUME NEW h \in Handler, LoseResponse(h) PROVE CTypeOK'
  BY <1>14 DEF LoseResponse, Exit
<1>15. CASE ServerRestart
  BY <1>15 DEF ServerRestart
<1>16. CASE UNCHANGED vars
  BY <1>16
<1> QED
  BY <1>1, <1>2, <1>3, <1>4, <1>5, <1>6, <1>7, <1>8, <1>9, <1>10, <1>11, <1>12, <1>13, <1>14,
     <1>15, <1>16 DEF CNext, RunStep

(* Every variable of the composition keeps its type, and an invocation that
   has built a batch has a well-formed one (Run's own locals). *)
THEOREM CTypeCorrect == CSpec => []CTypeOK
<1>1. CInit => CTypeOK
  BY DEF CInit, Init, CTypeOK, TypeOK, Batch
<1>2. CTypeOK /\ [CNext]_vars => CTypeOK'
  BY CTypeStep
<1> QED
  BY <1>1, <1>2, PTL DEF CSpec

(* The composition's requests are ones the server's own specification allows,
   so that all that is proved about UsageIngest holds in it. *)
THEOREM RunsTheServer == CSpec => Spec
<1>1. CInit => Init
  BY DEF CInit
<1>2. CTypeOK /\ [CNext]_vars => [Next]_serverVars
  BY ServerStep
<1> QED
  BY <1>1, <1>2, CTypeCorrect, PTL DEF CSpec, Spec

-----------------------------------------------------------------------------
(* Why what is marked sent is stored: the 201 an invocation waits for is the
   answer to the batch it built, and after it the batch is stored. *)
Waiting(h) ==
  client[h] \in Run =>
    /\ hpc[h] # "idle"
    /\ pc[client[h]] = "await"
    /\ hreq[h] = request[client[h]]
    /\ \A g \in Handler : client[g] = client[h] => g = h

Acknowledged(r) == pc[r] \in {"truncate", "write"} => Named(request[r].events) \subseteq Stored

DeliveryInv ==
  /\ SentImpliesStored
  /\ \A h \in Handler : Waiting(h)
  /\ \A r \in Run : Acknowledged(r)

(* Stored ids stay stored. *)
LEMMA StoredGrows ==
  ASSUME CTypeOK, [CNext]_vars
  PROVE  Stored \subseteq Stored'
<1>1. \A id \in Stored : usageEvents'[id] = usageEvents[id]
  BY ServerStep, StepKeepsRows DEF CTypeOK
<1> QED
  BY <1>1 DEF Stored, Named

(* One step of the composition keeps the delivery invariant. *)
LEMMA DeliveryStep ==
  ASSUME CTypeOK, CreatedMeansStored, DeliveryInv, [CNext]_vars
  PROVE  DeliveryInv'
<1>0. Stored \subseteq Stored'
  BY StoredGrows
<1> USE <1>0 DEF CTypeOK, TypeOK, DeliveryInv, SentImpliesStored
<1>1. ASSUME NEW id \in Id, WriteRow(id) PROVE DeliveryInv'
  BY <1>1 DEF WriteRow, Waiting, Acknowledged
<1>2. ASSUME NEW r \in Run, BeginRun(r) PROVE DeliveryInv'
  BY <1>2 DEF BeginRun, Waiting, Acknowledged
<1>3. ASSUME NEW r \in Run, ExtractRows(r) PROVE DeliveryInv'
  BY <1>3 DEF ExtractRows, Waiting, Acknowledged
<1>4. ASSUME NEW r \in Run, LoadSentState(r) PROVE DeliveryInv'
  BY <1>4 DEF LoadSentState, Waiting, Acknowledged
<1>5. ASSUME NEW r \in Run, BuildEvents(r) PROVE DeliveryInv'
  BY <1>5 DEF BuildEvents, Waiting, Acknowledged
<1>6. ASSUME NEW r \in Run, NothingToSend(r) PROVE DeliveryInv'
  BY <1>6 DEF NothingToSend, Exit, Waiting, Acknowledged
<1>7. ASSUME NEW r \in Run, NEW h \in Handler, PostBatch(r, h) PROVE DeliveryInv'
  <2>1. \A g \in Handler : client[g] # r
    BY <1>7 DEF PostBatch, Waiting
  <2>2. \A g \in Handler :
          /\ client'[g] = IF g = h THEN r ELSE client[g]
          /\ hreq'[g] = IF g = h THEN request[r] ELSE hreq[g]
          /\ hpc'[g] = IF g = h THEN "machine" ELSE hpc[g]
    BY <1>7 DEF PostBatch, Accept, Goto
  <2>3. \A x \in Run : pc'[x] = IF x = r THEN "await" ELSE pc[x]
    BY <1>7 DEF PostBatch
  <2>4. UNCHANGED <<sentIds, loaded, request>>
    BY <1>7 DEF PostBatch
  <2>5. \A g \in Handler : Waiting(g)'
    BY <2>1, <2>2, <2>3, <2>4 DEF Waiting
  <2>6. \A x \in Run : Acknowledged(x)'
    BY <2>3, <2>4 DEF Acknowledged
  <2> QED
    BY <2>4, <2>5, <2>6
<1>8. ASSUME NEW r \in Run, MarkAndTruncate(r) PROVE DeliveryInv'
  BY <1>8 DEF MarkAndTruncate, Waiting, Acknowledged
<1>9. ASSUME NEW r \in Run, WriteState(r) PROVE DeliveryInv'
  BY <1>9 DEF WriteState, Exit, Waiting, Acknowledged
<1>10. ASSUME NEW r \in Run, AbortRun(r) PROVE DeliveryInv'
  BY <1>10, NoRunAssumption DEF AbortRun, Exit, Abandon, Waiting, Acknowledged
<1>11. ASSUME NEW r \in Run, CrashInSave(r) PROVE DeliveryInv'
  BY <1>11 DEF CrashInSave, Exit, Waiting, Acknowledged
<1>12. ASSUME NEW h \in Handler, ServeOn(h) PROVE DeliveryInv'
  <2>1. UNCHANGED <<collectorVars, hreq>>
    BY <1>12 DEF ServeOn, Serve, UpsertMachine, UpsertScanRoot, IngestNothing, InsertBatch,
                 Commit, Fail
  <2>2. \A g \in Handler : hpc[g] # "idle" => hpc'[g] # "idle"
    BY <1>12 DEF ServeOn, Serve, UpsertMachine, UpsertScanRoot, IngestNothing, InsertBatch,
                 Commit, Fail, Goto
  <2> QED
    BY <2>1, <2>2 DEF Waiting, Acknowledged
<1>13. ASSUME NEW h \in Handler, Receive(h) PROVE DeliveryInv'
  <2> DEFINE r == client[h]
  <2>1. r \in Run /\ UNCHANGED <<sentIds, usageEvents>> /\ Stored' = Stored
    BY <1>13 DEF Receive, Finish, Stored, Named
  <2>2. \A g \in Handler :
          /\ client'[g] = IF g = h THEN NoRun ELSE client[g]
          /\ g # h => hreq'[g] = hreq[g] /\ hpc'[g] = hpc[g]
    BY <1>13 DEF Receive, Finish
  <2>3. \A g \in Handler : g # h => client[g] # r
    BY <2>1 DEF Waiting
  <2>4. CASE IsSuccess(h)
    <3>1. UNCHANGED <<loaded, request>>
          /\ \A x \in Run : pc'[x] = IF x = r THEN "truncate" ELSE pc[x]
      BY <1>13, <2>1, <2>4 DEF Receive
    <3>2. Named(request[r].events) \subseteq Stored
      BY <2>1, <2>4 DEF IsSuccess, CreatedMeansStored, Waiting
    <3>3. \A x \in Run : Acknowledged(x)'
      BY <2>1, <3>1, <3>2 DEF Acknowledged
    <3>4. \A g \in Handler : Waiting(g)'
      BY <2>1, <2>2, <2>3, <3>1, NoRunAssumption DEF Waiting
    <3> QED
      BY <2>1, <3>1, <3>3, <3>4
  <2>5. CASE ~IsSuccess(h)
    <3>1. \A x \in Run :
            /\ x # r => loaded'[x] = loaded[x] /\ request'[x] = request[x] /\ pc'[x] = pc[x]
            /\ x = r => loaded'[x] = {} /\ pc'[x] = "idle"
      BY <1>13, <2>1, <2>5 DEF Receive, Exit
    <3>2. \A g \in Handler : Waiting(g)'
      BY <2>1, <2>2, <2>3, <3>1, NoRunAssumption DEF Waiting
    <3>3. \A x \in Run : Acknowledged(x)'
      BY <2>1, <3>1 DEF Acknowledged
    <3> QED
      BY <2>1, <3>1, <3>2, <3>3
  <2> QED
    BY <2>4, <2>5
<1>14. ASSUME NEW h \in Handler, LoseResponse(h) PROVE DeliveryInv'
  <2> DEFINE r == client[h]
  <2>1. UNCHANGED <<sentIds, usageEvents>> /\ Stored' = Stored
    BY <1>14 DEF LoseResponse, Finish, Stored, Named
  <2>2. \A g \in Handler :
          /\ client'[g] = IF g = h THEN NoRun ELSE client[g]
          /\ g # h => hreq'[g] = hreq[g] /\ hpc'[g] = hpc[g]
    BY <1>14 DEF LoseResponse, Finish
  <2>3. \A g \in Handler : g # h /\ client[g] \in Run => client[g] # r
    BY DEF Waiting
  <2>4. \A x \in Run :
          /\ x # r => loaded'[x] = loaded[x] /\ request'[x] = request[x] /\ pc'[x] = pc[x]
          /\ x = r => loaded'[x] = {} /\ pc'[x] = "idle"
    BY <1>14 DEF LoseResponse, Exit
  <2>5. \A g \in Handler : Waiting(g)'
    BY <2>1, <2>2, <2>3, <2>4, NoRunAssumption DEF Waiting
  <2>6. \A x \in Run : Acknowledged(x)'
    BY <2>1, <2>4 DEF Acknowledged
  <2> QED
    BY <2>1, <2>4, <2>5, <2>6
<1>15. CASE ServerRestart
  <2>1. /\ UNCHANGED sentIds
        /\ \A h \in Handler : client'[h] = NoRun
        /\ \A x \in Run :
             /\ pc'[x] \in {"truncate", "write"} =>
                  pc[x] \in {"truncate", "write"} /\ request'[x] = request[x]
             /\ loaded'[x] \subseteq loaded[x]
    BY <1>15 DEF ServerRestart
  <2> QED
    BY <2>1, NoRunAssumption DEF Waiting, Acknowledged
<1>16. CASE UNCHANGED vars
  BY <1>16 DEF Waiting, Acknowledged
<1> QED
  BY <1>1, <1>2, <1>3, <1>4, <1>5, <1>6, <1>7, <1>8, <1>9, <1>10, <1>11, <1>12, <1>13, <1>14,
     <1>15, <1>16 DEF CNext, RunStep

(* The delivery invariant holds in every reachable state. *)
THEOREM DeliveryInvariant == CSpec => []DeliveryInv
<1>1. CInit => DeliveryInv
  BY NoRunAssumption DEF CInit, DeliveryInv, SentImpliesStored, Waiting, Acknowledged
<1>2. CTypeOK /\ CreatedMeansStored /\ DeliveryInv /\ [CNext]_vars => DeliveryInv'
  BY DeliveryStep
<1>3. CSpec => []CreatedMeansStored
  BY RunsTheServer, Created
<1> QED
  BY <1>1, <1>2, <1>3, CTypeCorrect, PTL DEF CSpec

(* Nothing undelivered is taken for delivered: Run marks and saves an id only
   after the 201 to the batch that holds it, and a stored id stays stored. *)
THEOREM NothingLost == CSpec => []SentImpliesStored
<1>1. DeliveryInv => SentImpliesStored
  BY DEF DeliveryInv
<1> QED
  BY <1>1, DeliveryInvariant, PTL

(* The composition implements the ledger: its first state is the ledger's, and
   each step records, settles or leaves the ledger alone. *)
THEOREM ImplementsLedger == CSpec => LedgerSpec
<1>1. CInit => Ledger!Init
  BY DEF CInit, Init, Ledger!Init
<1>2. CTypeOK /\ CTypeOK' /\ SentImpliesStored' /\ [CNext]_vars => [Ledger!Next]_(Ledger!ledgerVars)
  <2> SUFFICES ASSUME CTypeOK, CTypeOK', SentImpliesStored', [CNext]_vars
               PROVE  Ledger!Next \/ UNCHANGED Ledger!ledgerVars
    OBVIOUS
  <2>1. UNCHANGED usageEvents \/ UNCHANGED sentIds
    BY DEF CNext, RunStep, WriteRow, BeginRun, ExtractRows, LoadSentState, BuildEvents,
           NothingToSend, PostBatch, MarkAndTruncate, WriteState, AbortRun, CrashInSave,
           ServeOn, Receive, LoseResponse, ServerRestart
  <2>2. Ledger!Recorded = Stored
    BY DEF Ledger!Recorded, Stored, Named
  <2>3. CASE UNCHANGED sentIds
    <3>1. usageEvents' \in [Id -> Row \cup {NoRow}]
      BY DEF CTypeOK, TypeOK, Batch
    <3>2. \A id \in Stored : usageEvents'[id] = usageEvents[id]
      BY ServerStep, StepKeepsRows DEF CTypeOK
    <3> QED
      BY <2>2, <2>3, <3>1, <3>2 DEF Ledger!Next, Ledger!Record
  <2>4. CASE UNCHANGED usageEvents
    <3>1. sentIds' \subseteq Stored
      BY <2>4 DEF SentImpliesStored, Stored, Named
    <3> QED
      BY <2>2, <2>4, <3>1 DEF Ledger!Next, Ledger!Settle
  <2> QED
    BY <2>1, <2>3, <2>4
<1> QED
  BY <1>1, <1>2, CTypeCorrect, NothingLost, PTL DEF CSpec, LedgerSpec, Ledger!Spec

-----------------------------------------------------------------------------
(* Between the load of the state file and the POST, nothing that is in hand is
   listed as sent: the file is only written by an invocation that is past it. *)
Unsent ==
  \A r \in Run :
    /\ pc[r] = "attribute" => rows[r] \cap sentIds = {}
    /\ pc[r] = "post" => Named(request[r].events) \cap sentIds = {}

LEMMA UnsentStep ==
  ASSUME CTypeOK, \A q, r \in Run : q = r, Unsent, [CNext]_vars
  PROVE  Unsent'
<1> USE DEF Unsent
<1>1. ASSUME NEW r \in Run, pc'[r] \notin {"attribute", "post"} PROVE Unsent'
  BY <1>1
<1>2. ASSUME UNCHANGED <<fileVars, runVars>> PROVE Unsent'
  BY <1>2 DEF Named
<1>3. ASSUME NEW r \in Run,
             \/ BeginRun(r) \/ ExtractRows(r) \/ NothingToSend(r) \/ MarkAndTruncate(r)
             \/ WriteState(r) \/ AbortRun(r) \/ CrashInSave(r) \/ \E h \in Handler : PostBatch(r, h)
      PROVE  Unsent'
  BY <1>1, <1>3 DEF CTypeOK, BeginRun, ExtractRows, NothingToSend, MarkAndTruncate, WriteState,
                    AbortRun, CrashInSave, PostBatch, Exit
<1>4. ASSUME NEW r \in Run, LoadSentState(r) PROVE Unsent'
  <2>1. pc'[r] = "attribute" /\ rows'[r] \cap sentIds' = {}
    BY <1>4 DEF LoadSentState, FilterUnsent, CTypeOK
  <2> QED
    BY <2>1
<1>5. ASSUME NEW r \in Run, BuildEvents(r) PROVE Unsent'
  <2>1. pc'[r] = "post" /\ pc[r] = "attribute" /\ UNCHANGED sentIds
    BY <1>5 DEF BuildEvents, CTypeOK
  <2>2. PICK f \in [rows[r] -> LocalRow] :
          request'[r] = [install |-> LocalInstall,
                         events |-> [id \in Id |-> IF id \in rows[r] THEN f[id] ELSE NoRow]]
    BY <1>5 DEF BuildEvents, CTypeOK
  <2>3. Named(request[r].events)' \subseteq rows[r]
    BY <2>2 DEF Named
  <2> QED
    BY <2>1, <2>3
<1>6. ASSUME NEW h \in Handler, ServeOn(h) PROVE Unsent'
  BY <1>2, <1>6 DEF ServeOn, collectorVars
<1>7. ASSUME NEW h \in Handler, Receive(h) \/ LoseResponse(h) PROVE Unsent'
  <2>1. CASE client[h] \in Run
    <3>1. pc'[client[h]] \in {"truncate", "idle"}
      BY <1>7, <2>1 DEF Receive, LoseResponse, Exit, CTypeOK
    <3> QED
      BY <1>1, <2>1, <3>1
  <2>2. CASE client[h] \notin Run
    BY <1>2, <1>7, <2>2 DEF Receive, LoseResponse
  <2> QED
    BY <2>1, <2>2
<1>8. CASE ServerRestart
  <2>1. UNCHANGED sentIds
        /\ \A r \in Run : pc'[r] \in {"attribute", "post"} =>
             UNCHANGED <<pc[r], rows[r], request[r]>>
    BY <1>8 DEF ServerRestart, fileVars
  <2> QED
    BY <2>1 DEF Named
<1>9. CASE (\E id \in Id : WriteRow(id)) \/ UNCHANGED vars
  BY <1>2, <1>9 DEF WriteRow
<1> QED
  BY <1>3, <1>4, <1>5, <1>6, <1>7, <1>8, <1>9 DEF CNext, RunStep

(* For invocations that do not overlap, however they fail or die: a row that
   the state file lists when the batch is posted is not in it (FilterUnsent). *)
THEOREM NothingSentTwice ==
  ASSUME \A q, r \in Run : q = r
  PROVE  CSpec => NoResend
<1> DEFINE Fresh == \A r \in Run, h \in Handler :
                      PostBatch(r, h) => Named(request[r].events) \cap sentIds = {}
<1>1. CInit => Unsent
  BY DEF CInit, Unsent
<1>2. CTypeOK /\ Unsent /\ [CNext]_vars => Unsent'
  BY UnsentStep
<1>3. Unsent => [Fresh]_vars
  BY DEF Unsent, PostBatch
<1> HIDE DEF Fresh
<1>4. CSpec => [][Fresh]_vars
  BY <1>1, <1>2, <1>3, CTypeCorrect, PTL DEF CSpec
<1> QED
  BY <1>4 DEF Fresh, NoResend
=============================================================================
