------------------------ MODULE MachineReportsProofs ------------------------
(***************************************************************************)
(* Proofs about MachineReports, for any number of invocations, requests,   *)
(* host names and transcripts: one machine keeps one row unless two first  *)
(* runs overlap, and the name it is shown under catches up.                *)
(***************************************************************************)
EXTENDS MachineReports, UsageIngestProofs, RecursionTheorems

USE DEF vars, machineVars, labelVars, serverVars, tables

(* An invocation has its fields, and an install id once it is past the
   config file. *)
Fits(x) ==
  /\ DOMAIN x = {"at", "install", "name", "files", "rows"} /\ x = [f \in DOMAIN x |-> x[f]]
  /\ x.at \in {"idle", "mint", "write", "loaded", "scan"}
  /\ x.at \in {"write", "loaded", "scan"} => x.install \in Install

RunsFit ==
  /\ config \in Install \cup {NoInstall, "torn"}
  /\ run = [c \in Run |-> run[c]]
  /\ \A c \in Run : Fits(run[c])

RequestsFit ==
  /\ hpc \in [Handler -> {"idle", "machine", "roots", "commit", "created", "failed"}]
  /\ hreq = [h \in Handler |-> hreq[h]]
  /\ sender = [h \in Handler |-> sender[h]]
  /\ since = [h \in Handler |-> since[h]]
  /\ label = [m \in Install |-> label[m]]
  /\ \A h \in Handler : Busy(h) => hreq[h].install \in Install

(* A step of one invocation leaves the others alone. *)
LEMMA MoveEffect ==
  ASSUME RunsFit, NEW c \in Run, NEW to, Move(c, to), Fits(to),
         config' \in Install \cup {NoInstall, "torn"}
  PROVE  RunsFit' /\ run'[c] = to /\ \A d \in Run : d # c => run'[d] = run[d]
BY DEF RunsFit, Move

LEMMA RunsFitInduction ==
  (InitReports => RunsFit) /\ (RunsFit /\ [NextReports]_vars => RunsFit')
<1>1. InitReports => RunsFit
  BY DEF InitReports, RunsFit, Fits, NotRunning
<1>2. RunsFit /\ [NextReports]_vars => RunsFit'
  <2> SUFFICES ASSUME RunsFit, [NextReports]_vars PROVE RunsFit'
    OBVIOUS
  <2>a. \A c \in Run : Fits(run[c])
    BY DEF RunsFit
  <2>1. ASSUME UNCHANGED <<run, config>> PROVE RunsFit'
    BY <2>1 DEF RunsFit
  <2>2. ASSUME NEW c \in Run, NEW to, Move(c, to), Fits(to), UNCHANGED config PROVE RunsFit'
    <3>1. config' \in Install \cup {NoInstall, "torn"}
      BY <2>2 DEF RunsFit
    <3> QED
      BY <2>2, <3>1, MoveEffect
  <2>3. ASSUME NEW c \in Run, LoadConfig(c) PROVE RunsFit'
    <3>1. Fits(run[c]) /\ config \in Install \cup {NoInstall}
      BY <2>3 DEF LoadConfig, RunsFit
    <3>2. Fits([run[c] EXCEPT !.at = "mint"])
      BY <3>1 DEF Fits
    <3>3. config # NoInstall => Fits([run[c] EXCEPT !.at = "loaded", !.install = config])
      BY <3>1 DEF Fits
    <3> QED
      BY <2>2, <2>3, <3>2, <3>3 DEF LoadConfig
  <2>4. ASSUME NEW c \in Run, MintAndTruncate(c) PROVE RunsFit'
    <3>1. PICK i \in Install : Move(c, [run[c] EXCEPT !.at = "write", !.install = i])
      BY <2>4 DEF MintAndTruncate
    <3>2. Fits([run[c] EXCEPT !.at = "write", !.install = i])
      BY <2>a DEF Fits
    <3> QED
      BY <2>4, <3>1, <3>2, MoveEffect DEF MintAndTruncate
  <2>5. ASSUME NEW c \in Run, WriteConfig(c) PROVE RunsFit'
    <3>1. Fits([run[c] EXCEPT !.at = "loaded"]) /\ run[c].install \in Install
      BY <2>5, <2>a DEF WriteConfig, Fits
    <3>2. run[c].install \in Install \cup {NoInstall, "torn"}
      BY <3>1
    <3> QED
      BY <2>5, <3>1, <3>2, MoveEffect DEF WriteConfig
  <2>6. ASSUME NEW c \in Run, FindTranscriptFiles(c) PROVE RunsFit'
    <3>1. PICK absent \in SUBSET ScanRoot :
            Move(c, [run[c] EXCEPT !.at = "scan", !.name = ResolveHostname, !.files = Found(absent)])
      BY <2>6 DEF FindTranscriptFiles
    <3>2. ASSUME NEW n, NEW fs PROVE Fits([run[c] EXCEPT !.at = "scan", !.name = n, !.files = fs])
      BY <2>6, <2>a DEF FindTranscriptFiles, Fits
    <3> QED
      BY <2>2, <2>6, <3>1, <3>2 DEF FindTranscriptFiles
  <2>7. ASSUME NEW c \in Run, ReadTranscript(c) PROVE RunsFit'
    <3> DEFINE f == Head(run[c].files)
               new == RowsOf(Unseen(FirstLines(transcript[f]), Ids(run[c].rows)), File[f].root)
    <3>1. ASSUME NEW fs, NEW rs PROVE Fits([run[c] EXCEPT !.files = fs, !.rows = rs])
      BY <2>a DEF Fits
    <3>2. Move(c, [run[c] EXCEPT !.files = Tail(@), !.rows = @ \o new])
      BY <2>7 DEF ReadTranscript
    <3> HIDE DEF new
    <3>3. Fits([run[c] EXCEPT !.files = Tail(@), !.rows = @ \o new])
      BY <3>1
    <3> QED
      BY <2>2, <2>7, <3>2, <3>3 DEF ReadTranscript
  <2>8. ASSUME NEW c \in Run, AbortRun(c) \/ \E h \in Handler : PostBatch(c, h) PROVE RunsFit'
    <3>1. Fits(NotRunning)
      BY DEF Fits, NotRunning
    <3> QED
      BY <2>2, <2>8, <3>1 DEF AbortRun, PostBatch
  <2>9. ASSUME NEW h \in Handler, LabelMachine(h) \/ ServeRest(h) \/ FinishRequest(h) PROVE RunsFit'
    BY <2>1, <2>9 DEF LabelMachine, ServeRest, FinishRequest
  <2>10. CASE RestartServer \/ RenameHost \/ \E f \in DOMAIN File, id \in Id : WriteLine(f, id)
    BY <2>1, <2>10 DEF RestartServer, RenameHost, WriteLine, Local
  <2>11. CASE UNCHANGED vars
    BY <2>1, <2>11
  <2>12. ASSUME NEW c \in Run, LoadTornConfig(c) PROVE RunsFit'
    BY <2>1, <2>12 DEF LoadTornConfig
  <2> QED
    BY <2>3, <2>4, <2>5, <2>6, <2>7, <2>8, <2>9, <2>10, <2>11, <2>12 DEF NextReports
<1> QED
  BY <1>1, <1>2

-----------------------------------------------------------------------------
(* The name a machine is shown under. *)

(* Every request finds, among the names it may find, those of all requests
   that are under way for its machine. *)
SendersKnown ==
  \A h, k \in Handler :
    Busy(h) /\ Busy(k) /\ hreq[h].install = hreq[k].install => sender[k] \in since[h]

NameInv == RunsFit /\ RequestsFit /\ SendersKnown /\ LabelCatchesUp

LEMMA NameInduction ==
  (InitReports => NameInv) /\ (NameInv /\ [NextReports]_vars => NameInv')
<1>1. InitReports => NameInv
  BY RunsFitInduction DEF InitReports, Init, NameInv, RequestsFit, SendersKnown, LabelCatchesUp, Busy
<1>2. NameInv /\ [NextReports]_vars => NameInv'
  <2> SUFFICES ASSUME NameInv, [NextReports]_vars PROVE NameInv'
    OBVIOUS
  <2>a. RunsFit'
    BY RunsFitInduction DEF NameInv
  <2> DEFINE Rest == RequestsFit /\ SendersKnown /\ LabelCatchesUp
  <2> SUFFICES Rest'
    BY <2>a DEF NameInv
  <2>1. ASSUME UNCHANGED <<hpc, hreq, label, sender, since>> PROVE Rest'
    BY <2>1 DEF NameInv, RequestsFit, SendersKnown, LabelCatchesUp, Busy
  <2>2. ASSUME NEW c \in Run, NEW h \in Handler, PostBatch(c, h) PROVE Rest'
    <3> DEFINE install == run[c].install
    <3>1. install \in Install
      BY <2>2 DEF NameInv, RunsFit, Fits, PostBatch
    <3>2. PICK q : Accept(h, q) /\ q.install = install
      BY <2>2 DEF PostBatch
    <3>3. /\ hpc[h] = "idle" /\ hpc' = [hpc EXCEPT ![h] = "machine"]
          /\ hreq' = [hreq EXCEPT ![h] = q] /\ UNCHANGED label
          /\ sender' = [sender EXCEPT ![h] = run[c].name]
          /\ since' = [k \in Handler |->
               IF k = h THEN {run[c].name} \cup {sender[j] : j \in {j \in Handler : SameMachine(j, install)}}
               ELSE IF SameMachine(k, install) THEN since[k] \cup {run[c].name}
               ELSE since[k]]
      BY <2>2, <3>2 DEF PostBatch, Accept, Goto
    <3> HIDE DEF install
    <3>4. \A k \in Handler : k # h => /\ hpc'[k] = hpc[k] /\ hreq'[k] = hreq[k] /\ sender'[k] = sender[k]
                                      /\ since[k] \subseteq since'[k]
      BY <3>3 DEF NameInv, RequestsFit
    <3>5. hpc'[h] = "machine" /\ hreq'[h] = q /\ sender'[h] = run[c].name /\ run[c].name \in since'[h]
      BY <3>3 DEF NameInv, RequestsFit
    <3>6. RequestsFit'
      BY <3>1, <3>2, <3>3, <3>4, <3>5 DEF NameInv, RequestsFit, Busy
    <3>7. ASSUME NEW k \in Handler, k # h, Busy(k), hreq[k].install = install
          PROVE  sender[k] \in since'[h] /\ run[c].name \in since'[k]
      BY <3>3, <3>7 DEF SameMachine
    <3>8. SendersKnown'
      BY <3>2, <3>4, <3>5, <3>7 DEF NameInv, SendersKnown, Busy
    <3>9. LabelCatchesUp'
      BY <3>3, <3>4, <3>5 DEF NameInv, LabelCatchesUp
    <3> QED
      BY <3>6, <3>8, <3>9
  <2>3. ASSUME NEW h \in Handler, LabelMachine(h) PROVE Rest'
    <3>1. /\ hpc[h] = "machine" /\ hpc' = [hpc EXCEPT ![h] = "roots"] /\ UNCHANGED <<hreq, sender, since>>
          /\ label' = [label EXCEPT ![hreq[h].install] = sender[h]]
      BY <2>3 DEF LabelMachine, UpsertMachine, Goto
    <3>2. Busy(h) /\ hreq[h].install \in Install
      BY <3>1 DEF NameInv, RequestsFit, Busy
    <3>3. RequestsFit' /\ SendersKnown'
      BY <3>1, <3>2 DEF NameInv, RequestsFit, SendersKnown, Busy
    <3>4. label'[hreq[h].install] = sender[h]
          /\ \A m \in Install : m # hreq[h].install => label'[m] = label[m]
      BY <3>1, <3>2 DEF NameInv, RequestsFit
    <3>5. ASSUME NEW k \in Handler, hpc'[k] \in {"roots", "commit", "created"}
          PROVE  label'[hreq[k].install] \in since[k]
      <4>1. Busy(k) /\ hreq[k].install \in Install /\ (k # h => hpc[k] \in {"roots", "commit", "created"})
        BY <3>1, <3>2, <3>5 DEF NameInv, RequestsFit, Busy
      <4>2. CASE hreq[k].install = hreq[h].install
        BY <3>2, <3>4, <4>1, <4>2 DEF NameInv, SendersKnown
      <4>3. CASE hreq[k].install # hreq[h].install
        BY <3>4, <4>1, <4>3 DEF NameInv, LabelCatchesUp
      <4> QED
        BY <4>2, <4>3
    <3> QED
      BY <3>1, <3>3, <3>5 DEF LabelCatchesUp
  <2>4. ASSUME NEW h \in Handler, NEW to \in {"roots", "commit", "created", "failed"},
               hpc[h] \in {"roots", "commit"} \/ (to = "failed" /\ hpc[h] = "machine"),
               hpc' = [hpc EXCEPT ![h] = to], UNCHANGED <<hreq, label, sender, since>>
        PROVE  Rest'
    BY <2>4 DEF NameInv, RequestsFit, SendersKnown, LabelCatchesUp, Busy
  <2>5. ASSUME NEW h \in Handler, ServeRest(h) PROVE Rest'
    <3>1. ASSUME NEW s \in ScanRoot, UpsertScanRoot(h, s) PROVE Rest'
      BY <2>1, <2>5, <3>1 DEF ServeRest, UpsertScanRoot
    <3>2. CASE InsertBatch(h)
      BY <2>4, <2>5, <3>2 DEF ServeRest, InsertBatch, Goto
    <3>3. CASE Commit(h)
      BY <2>4, <2>5, <3>3 DEF ServeRest, Commit, Goto
    <3>4. CASE Fail(h)
      <4>1. hpc[h] \in {"machine", "roots", "commit"} /\ hpc' = [hpc EXCEPT ![h] = "failed"]
            /\ UNCHANGED <<hreq, label, sender, since>>
        BY <2>5, <3>4 DEF ServeRest, Fail
      <4> QED
        BY <2>4, <4>1
    <3> QED
      BY <2>5, <3>1, <3>2, <3>3, <3>4 DEF ServeRest
  <2>6. ASSUME NEW h \in Handler, FinishRequest(h) PROVE Rest'
    <3>1. /\ hpc' = [hpc EXCEPT ![h] = "idle"] /\ hreq' = [hreq EXCEPT ![h] = NoRequest]
          /\ sender' = [sender EXCEPT ![h] = NoName] /\ since' = [since EXCEPT ![h] = {}] /\ UNCHANGED label
      BY <2>6 DEF FinishRequest, Finish
    <3> QED
      BY <3>1 DEF NameInv, RequestsFit, SendersKnown, LabelCatchesUp, Busy
  <2>7. CASE RestartServer
    BY <2>7 DEF RestartServer, Restart, NameInv, RequestsFit, SendersKnown, LabelCatchesUp, Busy
  <2>8. ASSUME NEW c \in Run,
               \/ LoadConfig(c) \/ LoadTornConfig(c) \/ MintAndTruncate(c) \/ WriteConfig(c)
               \/ FindTranscriptFiles(c) \/ ReadTranscript(c) \/ AbortRun(c)
        PROVE  Rest'
    BY <2>1, <2>8 DEF LoadConfig, LoadTornConfig, MintAndTruncate, WriteConfig, FindTranscriptFiles,
                      ReadTranscript, AbortRun, Local
  <2>9. CASE RenameHost \/ \E f \in DOMAIN File, id \in Id : WriteLine(f, id)
    BY <2>1, <2>9 DEF RenameHost, WriteLine, Local
  <2>10. CASE UNCHANGED vars
    BY <2>1, <2>10
  <2> QED
    BY <2>2, <2>3, <2>5, <2>6, <2>7, <2>8, <2>9, <2>10 DEF NextReports
<1> QED
  BY <1>1, <1>2

(* However requests of one machine interleave, fail, are orphaned or die, a
   request that has upserted its machine finds its own host name there, or
   that of a request that was under way with it or came after it. *)
THEOREM NameCatchesUp == SpecReports => []LabelCatchesUp
<1>1. NameInv => LabelCatchesUp
  BY DEF NameInv
<1> QED
  BY <1>1, NameInduction, PTL DEF SpecReports

-----------------------------------------------------------------------------
(* One machine. *)

(* The install ids that are known outside the config file. *)
Known ==
  machines \cup {run[c].install : c \in {c \in Run : run[c].at \in {"loaded", "scan"}}}
           \cup {hreq[h].install : h \in {h \in Handler : Busy(h)}}

(* Only one invocation is about to mint an id, or to write it: the file is
   then empty, or torn.  Nothing is known before the file has an id, and
   nothing but that id afterwards. *)
Minting ==
  ~overlapped =>
    /\ \A c, d \in Run : Initialising(c) /\ Initialising(d) => c = d
    /\ \A c \in Run : /\ run[c].at = "mint" => config = NoInstall
                      /\ run[c].at = "write" => config = "torn"
    /\ config \in {NoInstall, "torn"} => Known = {}
    /\ config \in Install => Known \subseteq {config}

OneInv == NameInv /\ Minting

LEMMA OneInduction ==
  (InitReports => OneInv) /\ (OneInv /\ [NextReports]_vars => OneInv')
<1>1. InitReports => OneInv
  BY NameInduction, InstallAssumption
     DEF InitReports, Init, OneInv, Minting, Known, Initialising, NotRunning, Busy
<1>2. OneInv /\ [NextReports]_vars => OneInv'
  <2> SUFFICES ASSUME OneInv, [NextReports]_vars PROVE OneInv'
    OBVIOUS
  <2>a. NameInv'
    BY NameInduction DEF OneInv
  <2>b. \A c \in Run : Fits(run[c]) /\ Fits(run'[c])
    BY <2>a DEF OneInv, NameInv, RunsFit
  <2> SUFFICES Minting'
    BY <2>a DEF OneInv
  <2>c. config \in Install \cup {NoInstall, "torn"}
    BY DEF OneInv, NameInv, RunsFit
  <2>1. ASSUME UNCHANGED config, overlapped' = overlapped, Known' \subseteq Known,
               \A c \in Run : Initialising(c)' => run'[c] = run[c]
        PROVE  Minting'
    BY <2>1 DEF OneInv, Minting, Initialising
  <2>2. ASSUME NEW c \in Run, LoadConfig(c) PROVE Minting'
    <3> SUFFICES ASSUME ~overlapped' PROVE Minting'
      BY DEF Minting
    <3>1. ~overlapped /\ (config = NoInstall => ~\E d \in Run : Initialising(d))
      BY <2>2 DEF LoadConfig
    <3>2. UNCHANGED <<config, machines, hreq, hpc>> /\ config # "torn" /\ run[c].at = "idle"
      BY <2>2 DEF LoadConfig, Local
    <3>3. CASE config = NoInstall
      <4>1. run' = [run EXCEPT ![c] = [run[c] EXCEPT !.at = "mint"]]
        BY <2>2, <3>3 DEF LoadConfig, Move
      <4>2. run'[c].at = "mint" /\ \A d \in Run : d # c => run'[d] = run[d]
        BY <2>b, <4>1 DEF Fits, OneInv, NameInv, RunsFit
      <4>3. Known' = Known
        BY <3>2, <4>2 DEF Known, Busy
      <4> QED
        BY <3>1, <3>2, <3>3, <4>2, <4>3 DEF OneInv, Minting, Initialising
    <3>4. CASE config # NoInstall
      <4>1. run' = [run EXCEPT ![c] = [run[c] EXCEPT !.at = "loaded", !.install = config]]
        BY <2>2, <3>4 DEF LoadConfig, Move
      <4>2. run'[c].at = "loaded" /\ run'[c].install = config /\ \A d \in Run : d # c => run'[d] = run[d]
        BY <2>b, <4>1 DEF Fits, OneInv, NameInv, RunsFit
      <4>3. Known' \subseteq Known \cup {config}
        BY <3>2, <4>2 DEF Known, Busy
      <4>4. config \in Install
        BY <2>c, <3>2, <3>4
      <4> QED
        BY <3>1, <3>2, <4>2, <4>3, <4>4, InstallAssumption DEF OneInv, Minting, Initialising
    <3> QED
      BY <3>3, <3>4
  <2>3. ASSUME NEW c \in Run, MintAndTruncate(c) PROVE Minting'
    <3>1. PICK i \in Install : Move(c, [run[c] EXCEPT !.at = "write", !.install = i])
      BY <2>3 DEF MintAndTruncate
    <3>2. run'[c].at = "write" /\ \A d \in Run : d # c => run'[d] = run[d]
      BY <2>b, <3>1 DEF Move, Fits, OneInv, NameInv, RunsFit
    <3>3. UNCHANGED <<machines, hreq, hpc, overlapped>> /\ config' = "torn" /\ run[c].at = "mint"
      BY <2>3 DEF MintAndTruncate, Local
    <3>4. Known' = Known
      BY <3>2, <3>3 DEF Known, Busy
    <3> QED
      BY <3>2, <3>3, <3>4, InstallAssumption DEF OneInv, Minting, Initialising
  <2>4. ASSUME NEW c \in Run, WriteConfig(c) PROVE Minting'
    <3>1. /\ run' = [run EXCEPT ![c] = [run[c] EXCEPT !.at = "loaded"]] /\ run[c].at = "write"
          /\ config' = run[c].install /\ UNCHANGED <<machines, hreq, hpc, overlapped>>
      BY <2>4 DEF WriteConfig, Move, Local
    <3>2. /\ run'[c].at = "loaded" /\ run'[c].install = run[c].install
          /\ \A d \in Run : d # c => run'[d] = run[d]
      BY <2>b, <3>1 DEF Fits, OneInv, NameInv, RunsFit
    <3>3. config' \in Install
      BY <2>b, <3>1 DEF Fits
    <3>4. Known' \subseteq Known \cup {run[c].install}
      BY <3>1, <3>2 DEF Known, Busy
    <3> QED
      BY <3>1, <3>2, <3>3, <3>4, InstallAssumption DEF OneInv, Minting, Initialising
  <2>5. ASSUME NEW c \in Run, NEW to, Move(c, to), to.at = "scan",
               to.install = run[c].install, run[c].at \in {"loaded", "scan"},
               UNCHANGED <<machines, hreq, hpc, config, overlapped>>
        PROVE  Minting'
    <3>1. run'[c] = to /\ \A d \in Run : d # c => run'[d] = run[d]
      BY <2>5 DEF Move, OneInv, NameInv, RunsFit
    <3>2. Known' = Known
      BY <2>5, <3>1 DEF Known, Busy
    <3> QED
      BY <2>1, <2>5, <3>1, <3>2 DEF Initialising
  <2>6. ASSUME NEW c \in Run, FindTranscriptFiles(c) PROVE Minting'
    <3>1. PICK absent \in SUBSET ScanRoot :
            Move(c, [run[c] EXCEPT !.at = "scan", !.name = ResolveHostname, !.files = Found(absent)])
      BY <2>6 DEF FindTranscriptFiles
    <3> DEFINE to == [run[c] EXCEPT !.at = "scan", !.name = ResolveHostname, !.files = Found(absent)]
    <3>2. to.at = "scan" /\ to.install = run[c].install
      BY <2>b DEF Fits
    <3>3. Move(c, to)
      BY <3>1
    <3> HIDE DEF to
    <3> QED
      BY <2>5, <2>6, <3>2, <3>3 DEF FindTranscriptFiles, Local
  <2>7. ASSUME NEW c \in Run, ReadTranscript(c) PROVE Minting'
    <3> DEFINE f == Head(run[c].files)
               new == RowsOf(Unseen(FirstLines(transcript[f]), Ids(run[c].rows)), File[f].root)
    <3>1. Move(c, [run[c] EXCEPT !.files = Tail(@), !.rows = @ \o new]) /\ run[c].at = "scan"
      BY <2>7 DEF ReadTranscript
    <3> HIDE DEF new
    <3>2. /\ [run[c] EXCEPT !.files = Tail(@), !.rows = @ \o new].at = run[c].at
          /\ [run[c] EXCEPT !.files = Tail(@), !.rows = @ \o new].install = run[c].install
      BY <2>b DEF Fits
    <3> QED
      BY <2>5, <2>7, <3>1, <3>2 DEF ReadTranscript, Local
  <2>8. ASSUME NEW c \in Run, Move(c, NotRunning), Known' \subseteq Known, UNCHANGED <<config, overlapped>>
        PROVE  Minting'
    <3>1. run'[c].at = "idle" /\ \A d \in Run : d # c => run'[d] = run[d]
      BY <2>8 DEF Move, NotRunning, OneInv, NameInv, RunsFit
    <3> QED
      BY <2>1, <2>8, <3>1 DEF Initialising
  <2>9. ASSUME NEW c \in Run, AbortRun(c) PROVE Minting'
    <3>1. run'[c].at = "idle" /\ \A d \in Run : d # c => run'[d] = run[d]
      BY <2>9 DEF AbortRun, Move, NotRunning, OneInv, NameInv, RunsFit
    <3>2. Known' \subseteq Known
      BY <2>9, <3>1 DEF AbortRun, Local, Known, Busy
    <3> QED
      BY <2>8, <2>9, <3>2 DEF AbortRun
  <2>10. ASSUME NEW c \in Run, NEW h \in Handler, PostBatch(c, h) PROVE Minting'
    <3>1. PICK q : Accept(h, q) /\ q.install = run[c].install
      BY <2>10 DEF PostBatch
    <3>2. run'[c].at = "idle" /\ \A d \in Run : d # c => run'[d] = run[d]
      BY <2>10 DEF PostBatch, Move, NotRunning, OneInv, NameInv, RunsFit
    <3>3. /\ UNCHANGED machines /\ run[c].at = "scan"
          /\ hreq'[h].install = run[c].install
          /\ \A k \in Handler : k # h => hreq'[k] = hreq[k] /\ hpc'[k] = hpc[k]
      BY <2>10, <3>1 DEF PostBatch, Accept, Goto, OneInv, NameInv, RequestsFit
    <3>4. run[c].install \in Known
      BY <3>3 DEF Known
    <3>5. Known' \subseteq Known
      BY <3>2, <3>3, <3>4 DEF Known, Busy
    <3> QED
      BY <2>8, <2>10, <3>5 DEF PostBatch
  <2>11. ASSUME UNCHANGED <<run, config, overlapped>>, machines' \subseteq Known,
                \A h \in Handler : Busy(h)' => Busy(h) /\ hreq'[h] = hreq[h]
         PROVE  Minting'
    <3>1. Known' \subseteq Known
      BY <2>11 DEF Known
    <3> QED
      BY <2>1, <2>11, <3>1
  <2>12. machines \subseteq Known
    BY DEF Known
  <2>13. ASSUME NEW h \in Handler, LabelMachine(h) PROVE Minting'
    <3>1. /\ hpc[h] = "machine" /\ hpc' = [hpc EXCEPT ![h] = "roots"] /\ UNCHANGED <<hreq, run, config, overlapped>>
          /\ machines' = machines \cup {hreq[h].install}
      BY <2>13 DEF LabelMachine, UpsertMachine, Goto
    <3>2. Busy(h) /\ \A k \in Handler : Busy(k)' => Busy(k)
      BY <3>1 DEF Busy, OneInv, NameInv, RequestsFit
    <3>3. hreq[h].install \in Known
      BY <3>2 DEF Known
    <3> QED
      BY <2>11, <2>12, <3>1, <3>2, <3>3
  <2>14. ASSUME NEW h \in Handler, ServeRest(h) PROVE Minting'
    <3>1. UNCHANGED <<run, config, overlapped, machines, hreq>>
      BY <2>14 DEF ServeRest, UpsertScanRoot, InsertBatch, Commit, Fail
    <3>2. \A k \in Handler : Busy(k)' => Busy(k)
      <4>1. CASE \E s \in ScanRoot : UpsertScanRoot(h, s)
        BY <4>1 DEF UpsertScanRoot, Busy
      <4>2. CASE InsertBatch(h) \/ Commit(h) \/ Fail(h)
        BY <4>2 DEF InsertBatch, Commit, Fail, Goto, Busy, OneInv, NameInv, RequestsFit
      <4> QED
        BY <2>14, <4>1, <4>2 DEF ServeRest
    <3> QED
      BY <2>11, <2>12, <3>1, <3>2
  <2>15. ASSUME NEW h \in Handler, FinishRequest(h) PROVE Minting'
    <3>1. UNCHANGED <<run, config, overlapped, machines>>
          /\ hpc' = [hpc EXCEPT ![h] = "idle"] /\ hreq' = [hreq EXCEPT ![h] = NoRequest]
      BY <2>15 DEF FinishRequest, Finish
    <3>2. \A k \in Handler : Busy(k)' => Busy(k) /\ hreq'[k] = hreq[k]
      BY <3>1 DEF Busy, OneInv, NameInv, RequestsFit
    <3> QED
      BY <2>11, <2>12, <3>1, <3>2
  <2>16. CASE RestartServer
    <3>1. UNCHANGED <<run, config, overlapped, machines>> /\ \A k \in Handler : ~Busy(k)'
      BY <2>16 DEF RestartServer, Restart, Busy
    <3> QED
      BY <2>11, <2>12, <3>1
  <2>17. CASE UNCHANGED vars \/ RenameHost \/ (\E f \in DOMAIN File, id \in Id : WriteLine(f, id))
              \/ (\E c \in Run : LoadTornConfig(c))
    <3>1. UNCHANGED <<run, config, overlapped, machines, hpc, hreq>>
      BY <2>17 DEF RenameHost, WriteLine, LoadTornConfig, Local
    <3> QED
      BY <2>11, <2>12, <3>1 DEF Busy
  <2> QED
    BY <2>2, <2>3, <2>4, <2>6, <2>7, <2>9, <2>10, <2>13, <2>14, <2>15, <2>16, <2>17 DEF NextReports
<1> QED
  BY <1>1, <1>2

(* Unless two first runs overlap, all invocations, however many, and all
   requests of a machine are under one install id, whatever dies while it is
   being minted or written. *)
THEOREM OneMachine == SpecReports => []OneMachineRow
<1>1. OneInv => OneMachineRow
  <2> DEFINE S == machines \cup {run[c].install : c \in {c \in Run : run[c].at \in {"loaded", "scan"}}}
  <2> SUFFICES ASSUME OneInv, ~overlapped PROVE Cardinality(S) <= 1
    BY DEF OneMachineRow
  <2>1. S \subseteq {config}
    BY DEF OneInv, Minting, Known, NameInv, RunsFit
  <2>2. IsFiniteSet({config}) /\ Cardinality({config}) = 1
    BY FS_Singleton
  <2>3. S \in SUBSET {config}
    BY <2>1
  <2> HIDE DEF S
  <2>4. Cardinality(S) <= Cardinality({config})
    BY <2>2, <2>3, FS_Subset
  <2> QED
    BY <2>2, <2>4
<1> QED
  BY <1>1, OneInduction, PTL DEF SpecReports

-----------------------------------------------------------------------------
(* What an invocation reads. *)

(* The elements of a sequence, each of them once, none of them to skip. *)
OnlyOnce(s, skip) ==
  /\ \A i \in 1..Len(s) : s[i] \notin skip
  /\ \A i, j \in 1..Len(s) : i # j => s[i] # s[j]

LEMMA AppendKeepsOnce ==
  ASSUME NEW S, NEW t \in Seq(S), NEW skip, OnlyOnce(t, skip), NEW e \in S, e \notin skip \cup Range(t)
  PROVE  Append(t, e) \in Seq(S) /\ OnlyOnce(Append(t, e), skip)
<1>1. /\ Append(t, e) \in Seq(S) /\ Len(Append(t, e)) = Len(t) + 1 /\ Len(t) \in Nat
      /\ \A i \in 1..Len(t) + 1 : /\ i \in 1..Len(t) \/ i = Len(t) + 1
                                  /\ Append(t, e)[i] = IF i = Len(t) + 1 THEN e ELSE t[i]
  OBVIOUS
<1>2. \A i \in 1..Len(t) : t[i] # e /\ i # Len(t) + 1
  BY DEF Range
<1> QED
  BY <1>1, <1>2 DEF OnlyOnce

LEMMA DeduplicatedOnce ==
  ASSUME NEW S, NEW s \in Seq(S), NEW skip
  PROVE  Deduplicated(s, skip) \in Seq(S) /\ OnlyOnce(Deduplicated(s, skip), skip)
<1> DEFINE n == Len(s)
           T == {t \in Seq(S) : OnlyOnce(t, skip)}
           Round(i, t) == IF s[i] \in skip \cup Range(t) THEN t ELSE Append(t, s[i])
           step == [i \in 1..n |-> [t \in T |-> Round(i, t)]]
           P(b) == b = [i \in 0..n |->
                          IF i = 0 THEN <<>>
                          ELSE IF s[i] \in skip \cup Range(b[i - 1]) THEN b[i - 1]
                          ELSE Append(b[i - 1], s[i])]
<1>1. n \in Nat /\ \A i \in 1..n : s[i] \in S
  OBVIOUS
<1>2. <<>> \in T
  <2>1. <<>> \in Seq(S) /\ 1..Len(<<>>) = {}
    OBVIOUS
  <2> QED
    BY <2>1 DEF OnlyOnce
<1>3. \A i \in 1..n, t \in T : Round(i, t) \in T
  <2> SUFFICES ASSUME NEW i \in 1..n, NEW t \in T PROVE Round(i, t) \in T
    OBVIOUS
  <2>1. CASE s[i] \in skip \cup Range(t)
    BY <2>1
  <2>2. CASE s[i] \notin skip \cup Range(t)
    <3>1. Append(t, s[i]) \in Seq(S) /\ OnlyOnce(Append(t, s[i]), skip)
      BY <1>1, <2>2, AppendKeepsOnce
    <3> QED
      BY <2>2, <3>1
  <2> QED
    BY <2>1, <2>2
<1>4. step \in [1..n -> [T -> T]]
  <2> HIDE DEF n, T, Round
  <2> QED
    BY <1>3
<1>5. PICK g \in [0..n -> T] : Loop(<<>>, step, n, g)
  <2> HIDE DEF n, T, step
  <2> QED
    BY <1>1, <1>2, <1>4, LoopExists
<1>6. ASSUME NEW i \in 1..n PROVE g[i] = Round(i, g[i - 1])
  <2>1. i - 1 \in 0..n
    BY <1>1
  <2>2. g[i - 1] \in T
    BY <2>1
  <2>3. step[i][g[i - 1]] = Round(i, g[i - 1])
    <3> HIDE DEF n, T, Round
    <3> QED
      BY <2>2
  <2> HIDE DEF n, T, step, Round
  <2> QED
    BY <1>5, <2>3 DEF Loop
<1>7. \E b : P(b)
  <2>1. \A i \in 0..n : g[i] = IF i = 0 THEN <<>> ELSE Round(i, g[i - 1])
    <3>1. g[0] = <<>>
      BY <1>5 DEF Loop
    <3>2. \A i \in 0..n : i # 0 => i \in 1..n
      BY <1>1
    <3> HIDE DEF n, T, Round
    <3> QED
      BY <1>6, <3>1, <3>2
  <2>2. g = [i \in 0..n |-> IF i = 0 THEN <<>> ELSE Round(i, g[i - 1])]
    <3> HIDE DEF n, T, Round
    <3> QED
      BY <2>1
  <2> QED
    BY <2>2
<1> DEFINE kept == CHOOSE b : P(b)
<1>8. P(kept)
  <2> HIDE DEF P
  <2> QED
    BY <1>7, Zenon
<1>9. Deduplicated(s, skip) = kept[n]
  BY Zenon DEF Deduplicated
<1>10. kept[n] \in T
  <2>1. \A i \in 0..n : kept[i] = IF i = 0 THEN <<>> ELSE Round(i, kept[i - 1])
    <3>1. kept = [i \in 0..n |-> IF i = 0 THEN <<>> ELSE Round(i, kept[i - 1])]
      BY <1>8
    <3> HIDE DEF n, T, Round, kept
    <3> QED
      BY <3>1
  <2> DEFINE I == {i \in 0..n : kept[i] \in T}
  <2> HIDE DEF n, T, Round, kept
  <2>2. 0 \in I
    <3>1. 0 \in 0..n
      BY <1>1
    <3>2. kept[0] = <<>>
      BY <2>1, <3>1
    <3> QED
      BY <1>2, <3>1, <3>2
  <2>3. ASSUME NEW i \in 1..n, i - 1 \in I PROVE i \in I
    <3>1. i \in 0..n /\ i # 0
      BY <1>1
    <3>2. kept[i] = Round(i, kept[i - 1])
      BY <2>1, <3>1
    <3> QED
      BY <1>3, <2>3, <3>1, <3>2
  <2>4. 0..n \subseteq I
    <3> HIDE DEF I
    <3> QED
      BY <1>1, <2>2, <2>3, Counting
  <2> QED
    BY <1>1, <2>4
<1> HIDE DEF kept
<1> QED
  BY <1>9, <1>10

(* A transcript of the root holds the message. *)
AtIn(tr, id, root) ==
  \E f \in DOMAIN File : File[f].root = root /\ \E i \in DOMAIN tr[f] : tr[f][i] = id

(* The rows an invocation has read: a message once, from where it is. *)
RowsRead(tr, rows) ==
  /\ rows \in Seq([id : Id, root : ScanRoot])
  /\ \A i, j \in 1..Len(rows) : i # j => rows[i].id # rows[j].id
  /\ \A i \in 1..Len(rows) : AtIn(tr, rows[i].id, rows[i].root)

ReadSoFar(tr, x) == x.files \in Seq(DOMAIN File) /\ RowsRead(tr, x.rows)

Attributed(tr, events) == \A id \in Named(events) : AtIn(tr, id, events[id].root)

Lines(tr) == \A f \in DOMAIN File : tr[f] \in Seq(Id)

Grown(tr, tr2) ==
  \A f \in DOMAIN File : \A i \in DOMAIN tr[f] : i \in DOMAIN tr2[f] /\ tr2[f][i] = tr[f][i]

LEMMA StaysAttributed ==
  ASSUME NEW tr, NEW tr2, Grown(tr, tr2)
  PROVE  /\ \A x : ReadSoFar(tr, x) => ReadSoFar(tr2, x)
         /\ \A events : Attributed(tr, events) => Attributed(tr2, events)
<1>1. \A id, root : AtIn(tr, id, root) => AtIn(tr2, id, root)
  BY DEF AtIn, Grown
<1> QED
  BY <1>1 DEF ReadSoFar, RowsRead, Attributed

LEMMA Concatenation ==
  ASSUME NEW S, NEW a \in Seq(S), NEW b \in Seq(S)
  PROVE  /\ a \o b \in Seq(S) /\ Len(a \o b) = Len(a) + Len(b)
         /\ \A i \in 1..Len(a) : (a \o b)[i] = a[i]
         /\ \A i \in (Len(a) + 1)..(Len(a) + Len(b)) :
              i - Len(a) \in 1..Len(b) /\ (a \o b)[i] = b[i - Len(a)]
OBVIOUS

LEMMA FirstAndRest ==
  ASSUME NEW S, NEW s \in Seq(S), s # <<>>
  PROVE  Head(s) \in S /\ Tail(s) \in Seq(S)
OBVIOUS

(* One more transcript. *)
LEMMA ReadMore ==
  ASSUME NEW tr, Lines(tr), NEW x, ReadSoFar(tr, x), NEW f \in DOMAIN File,
         NEW ids, ids = Unseen(FirstLines(tr[f]), Ids(x.rows)),
         NEW rows, rows = x.rows \o RowsOf(ids, File[f].root)
  PROVE  RowsRead(tr, rows)
<1> DEFINE S == {tr[f][i] : i \in DOMAIN tr[f]}
           root == File[f].root
           m == Len(x.rows)
           n == Len(ids)
           Row2 == [id : Id, root : ScanRoot]
<1>1. tr[f] \in Seq(Id) /\ root \in ScanRoot
  BY FileAssumption DEF Lines
<1>2. tr[f] \in Seq(S) /\ S \subseteq Id /\ \A id \in S : AtIn(tr, id, root)
  <2>1. \A id \in S : AtIn(tr, id, root)
    BY DEF AtIn
  <2>2. Len(tr[f]) \in Nat /\ DOMAIN tr[f] = 1..Len(tr[f]) /\ \A i \in 1..Len(tr[f]) : tr[f][i] \in S
    BY <1>1
  <2> QED
    BY <1>1, <2>1, <2>2
<1>3. ids \in Seq(S) /\ OnlyOnce(ids, Ids(x.rows))
  <2> HIDE DEF S
  <2>1. FirstLines(tr[f]) \in Seq(S)
    BY <1>2, DeduplicatedOnce DEF FirstLines
  <2> QED
    BY <2>1, DeduplicatedOnce DEF Unseen
<1>4. /\ x.rows \in Seq(Row2) /\ m \in Nat /\ n \in Nat
      /\ \A i \in 1..m : x.rows[i] \in Row2 /\ x.rows[i].id \in Ids(x.rows)
      /\ \A i \in 1..n : ids[i] \in S /\ ids[i] \in Id
  <2>1. x.rows \in Seq(Row2)
    BY DEF ReadSoFar, RowsRead
  <2>2. m \in Nat /\ DOMAIN x.rows = 1..m /\ \A i \in 1..m : x.rows[i] \in Row2
    <3> HIDE DEF Row2, RowsRead
    <3> QED
      BY <2>1
  <2>3. \A i \in 1..m : x.rows[i].id \in Ids(x.rows)
    BY <2>2 DEF Ids
  <2>4. n \in Nat /\ \A i \in 1..n : ids[i] \in S
    <3> HIDE DEF S
    <3> QED
      BY <1>3
  <2> HIDE DEF S
  <2> QED
    BY <1>2, <2>1, <2>2, <2>3, <2>4
<1> DEFINE more == RowsOf(ids, root)
<1>5. more \in Seq(Row2) /\ Len(more) = n /\ \A i \in 1..n : more[i] = [id |-> ids[i], root |-> root]
  <2> HIDE DEF S, root
  <2>1. DOMAIN ids = 1..n
    BY <1>3
  <2>2. \A i \in 1..n : [id |-> ids[i], root |-> root] \in Row2
    BY <1>1, <1>4
  <2>3. more = [i \in 1..n |-> [id |-> ids[i], root |-> root]]
    BY <2>1 DEF RowsOf
  <2> HIDE DEF Row2, n, more
  <2> QED
    BY <1>4, <2>2, <2>3
<1>6. /\ rows \in Seq(Row2) /\ Len(rows) = m + n
      /\ \A i \in 1..m : rows[i] = x.rows[i]
      /\ \A i \in (m + 1)..(m + n) : i - m \in 1..n /\ rows[i] = more[i - m]
  <2>1. rows = x.rows \o more
    OBVIOUS
  <2> HIDE DEF Row2, more
  <2>2. x.rows \in Seq(Row2) /\ more \in Seq(Row2) /\ Len(more) = n
    BY <1>4, <1>5
  <2> DEFINE a == x.rows
  <2> HIDE DEF a, m, n
  <2>3. /\ a \o more \in Seq(Row2) /\ Len(a \o more) = Len(a) + Len(more)
        /\ \A i \in 1..Len(a) : (a \o more)[i] = a[i]
        /\ \A i \in (Len(a) + 1)..(Len(a) + Len(more)) :
             i - Len(a) \in 1..Len(more) /\ (a \o more)[i] = more[i - Len(a)]
    <3>1. a \in Seq(Row2) /\ more \in Seq(Row2)
      BY <2>2 DEF a
    <3> QED
      BY <3>1, Concatenation
  <2>4. rows = a \o more /\ Len(a) = m /\ Len(more) = n /\ a = x.rows
    BY <2>1, <2>2 DEF a, m
  <2> QED
    BY <2>3, <2>4
<1> HIDE DEF S, root, Row2, more
<1>a. /\ \A i \in 1..n : ids[i] \notin Ids(x.rows)
      /\ \A i, j \in 1..n : i # j => ids[i] # ids[j]
      /\ \A i, j \in 1..m : i # j => x.rows[i].id # x.rows[j].id
      /\ \A i \in 1..m : AtIn(tr, x.rows[i].id, x.rows[i].root)
  BY <1>3 DEF OnlyOnce, ReadSoFar, RowsRead
<1> HIDE DEF m, n
<1>7. ASSUME NEW i \in (m + 1)..(m + n)
      PROVE  i - m \in 1..n /\ rows[i].id = ids[i - m] /\ rows[i].root = root
  <2>1. i - m \in 1..n /\ rows[i] = more[i - m]
    BY <1>6
  <2>2. more[i - m] = [id |-> ids[i - m], root |-> root]
    BY <1>5, <2>1
  <2> QED
    BY <2>1, <2>2
<1>8. \A i \in 1..Len(rows) : i \in 1..m \/ i \in (m + 1)..(m + n)
  BY <1>4, <1>6
<1>9. ASSUME NEW i \in 1..Len(rows), NEW j \in 1..Len(rows), i # j PROVE rows[i].id # rows[j].id
  <2>1. CASE i \in 1..m /\ j \in 1..m
    BY <1>6, <1>9, <1>a, <2>1
  <2>2. CASE i \in 1..m /\ j \in (m + 1)..(m + n)
    <3>1. rows[i].id \in Ids(x.rows)
      BY <1>4, <1>6, <2>2
    <3>2. rows[j].id \notin Ids(x.rows)
      BY <1>7, <1>a, <2>2
    <3> QED
      BY <3>1, <3>2
  <2>3. CASE i \in (m + 1)..(m + n) /\ j \in 1..m
    <3>1. rows[j].id \in Ids(x.rows)
      BY <1>4, <1>6, <2>3
    <3>2. rows[i].id \notin Ids(x.rows)
      BY <1>7, <1>a, <2>3
    <3> QED
      BY <3>1, <3>2
  <2>4. CASE i \in (m + 1)..(m + n) /\ j \in (m + 1)..(m + n)
    <3>1. i - m # j - m
      BY <1>4, <1>9, <2>4
    <3>2. /\ i - m \in 1..n /\ rows[i].id = ids[i - m]
          /\ j - m \in 1..n /\ rows[j].id = ids[j - m]
      BY <1>7, <2>4
    <3> QED
      BY <1>a, <3>1, <3>2
  <2> QED
    BY <1>8, <2>1, <2>2, <2>3, <2>4
<1>10. ASSUME NEW i \in 1..Len(rows) PROVE AtIn(tr, rows[i].id, rows[i].root)
  <2>1. CASE i \in 1..m
    BY <1>6, <1>a, <2>1
  <2>2. CASE i \in (m + 1)..(m + n)
    <3>1. i - m \in 1..n /\ rows[i].id = ids[i - m] /\ rows[i].root = root
      BY <1>7, <2>2
    <3> QED
      BY <1>2, <1>4, <3>1
  <2> QED
    BY <1>8, <2>1, <2>2
<1> QED
  BY <1>6, <1>9, <1>10 DEF Row2, RowsRead

(* What it then sends. *)
LEMMA RequestOfRun ==
  ASSUME NEW tr, NEW x, ReadSoFar(tr, x), x.install \in Install,
         NEW new \in SUBSET Ids(x.rows), NEW path \in Path,
         NEW q, q = [install |-> x.install, events |-> BatchOf(x, new, path)]
  PROVE  q \in Request /\ WellFormed(q) /\ Attributed(tr, q.events)
<1> DEFINE First(id) == CHOOSE i \in DOMAIN x.rows : x.rows[i].id = id
           row(id) == [machine |-> x.install, path |-> path, root |-> x.rows[First(id)].root]
           events == BatchOf(x, new, path)
<1> DEFINE Row2 == [id : Id, root : ScanRoot]
<1>1. DOMAIN x.rows = 1..Len(x.rows) /\ \A i \in 1..Len(x.rows) : x.rows[i] \in Row2
  <2>1. x.rows \in Seq(Row2)
    BY DEF ReadSoFar, RowsRead
  <2> HIDE DEF Row2, First, row, events
  <2> QED
    BY <2>1
<1>2. \A id \in new : First(id) \in DOMAIN x.rows /\ x.rows[First(id)].id = id
  BY DEF Ids
<1>3. \A id \in new : x.rows[First(id)].root \in ScanRoot /\ AtIn(tr, id, x.rows[First(id)].root)
  <2>1. \A i \in 1..Len(x.rows) : AtIn(tr, x.rows[i].id, x.rows[i].root) /\ x.rows[i].root \in ScanRoot
    BY <1>1 DEF ReadSoFar, RowsRead
  <2> HIDE DEF First
  <2> QED
    BY <1>1, <1>2, <2>1
<1> HIDE DEF First
<1>4. \A id \in new : /\ row(id) \in Row /\ row(id).machine = x.install
                      /\ row(id).root = x.rows[First(id)].root
  BY <1>3 DEF Row
<1>5. \A id \in Id : events[id] = IF id \in new THEN row(id) ELSE NoRow
  BY DEF BatchOf, First
<1>6. events \in Batch
  <2>1. events = [id \in Id |-> IF id \in new THEN row(id) ELSE NoRow]
    BY DEF BatchOf, First
  <2> HIDE DEF row, events
  <2> QED
    BY <1>4, <2>1 DEF Batch
<1>7. q \in Request /\ q.install = x.install /\ q.events = events
  <2> HIDE DEF events
  <2> QED
    BY <1>6 DEF Request, events
<1> HIDE DEF row, events
<1>8. \A id \in Named(events) : /\ id \in new /\ events[id] = row(id)
  BY <1>5 DEF Named
<1> QED
  BY <1>3, <1>4, <1>7, <1>8 DEF WellFormed, MachinesOf, Attributed

-----------------------------------------------------------------------------
(* Types, and where rows come from. *)

RunOK(tr, ids, x) ==
  /\ ReadSoFar(tr, x)
  /\ x.at \in {"write", "loaded", "scan"} => x.install \in ids
  /\ x.at \in {"idle", "mint"} => x.install = NoInstall
  /\ IF x.at = "scan" THEN x.name \in Hostname ELSE x.name = NoName

MachineOK ==
  /\ minted \subseteq Install
  /\ config \in minted \cup {NoInstall, "torn"}
  /\ renamed \in Nat /\ renamed < Len(Hostnames)
  /\ overlapped \in BOOLEAN
  /\ transcript = [f \in DOMAIN File |-> transcript[f]]
  /\ Lines(transcript) /\ \A f \in DOMAIN File : Len(transcript[f]) <= MaxWrites
  /\ \A c \in Run : RunOK(transcript, minted, run[c])

ServerOK ==
  /\ TypeOK
  /\ \A h \in Handler : Busy(h) => Attributed(transcript, hreq[h].events)
  /\ Attributed(transcript, usageEvents)

LabelsOK ==
  /\ label \in [Install -> Hostname \cup {NoName}]
  /\ \A m \in Install : m \in machines <=> label[m] # NoName
  /\ sender \in [Handler -> Hostname \cup {NoName}]
  /\ \A h \in Handler : Busy(h) <=> sender[h] # NoName
  /\ since \in [Handler -> SUBSET Hostname]

ReportsInv == RunsFit /\ MachineOK /\ ServerOK /\ LabelsOK

LEMMA ReportsStart == InitReports => ReportsInv
<1> SUFFICES ASSUME InitReports PROVE ReportsInv
  OBVIOUS
<1>1. RunsFit
  BY RunsFitInduction
<1>2. /\ <<>> \in Seq(Id) /\ <<>> \in Seq(DOMAIN File) /\ <<>> \in Seq([id : Id, root : ScanRoot])
      /\ Len(<<>>) = 0 /\ 1..0 = {}
  OBVIOUS
<1>3. ASSUME NEW c \in Run PROVE RunOK(transcript, minted, run[c])
  <2>1. run[c] = NotRunning
    BY DEF InitReports
  <2>2. RunOK(transcript, minted, NotRunning)
    BY <1>2 DEF RunOK, ReadSoFar, RowsRead, NotRunning
  <2> QED
    BY <2>1, <2>2
<1>4. MachineOK
  <2>1. /\ minted = {} /\ config = NoInstall /\ renamed = 0 /\ overlapped = FALSE
        /\ transcript = [f \in DOMAIN File |-> <<>>]
    BY DEF InitReports
  <2>2. \A f \in DOMAIN File : transcript[f] = <<>>
    BY <2>1
  <2>3. transcript = [f \in DOMAIN File |-> transcript[f]]
    BY <2>1
  <2> QED
    <3>1. Lines(transcript)
      BY <1>2, <2>2 DEF Lines
    <3>2. \A f \in DOMAIN File : Len(transcript[f]) <= MaxWrites
      BY <1>2, <2>2, BoundAssumption
    <3>3. renamed \in Nat /\ renamed < Len(Hostnames)
      BY <2>1, NameAssumption
    <3> QED
      BY <1>3, <2>1, <2>3, <3>1, <3>2, <3>3 DEF MachineOK
<1>5. TypeOK
  BY DEF InitReports, Init, TypeOK, Batch
<1>6. ServerOK
  BY <1>5 DEF ServerOK, InitReports, Init, Busy, Attributed, Named
<1>7. LabelsOK
  BY DEF LabelsOK, InitReports, Init, Busy
<1> QED
  BY <1>1, <1>4, <1>6, <1>7 DEF ReportsInv

(* What the server does for the collectors is what UsageIngest lets it do
   for anybody. *)
LEMMA ServerStep ==
  ASSUME ReportsInv, [NextReports]_vars
  PROVE  [Next]_serverVars
<1>1. ASSUME UNCHANGED serverVars PROVE [Next]_serverVars
  BY <1>1
<1>2. ASSUME NEW c \in Run, NEW h \in Handler, PostBatch(c, h) PROVE Next
  <2>1. PICK new \in SUBSET Ids(run[c].rows), path \in Path :
          Accept(h, [install |-> run[c].install, events |-> BatchOf(run[c], new, path)])
    BY <1>2 DEF PostBatch
  <2>2. PICK q : q = [install |-> run[c].install, events |-> BatchOf(run[c], new, path)]
    OBVIOUS
  <2>3. ReadSoFar(transcript, run[c]) /\ run[c].install \in Install
    BY <1>2 DEF ReportsInv, MachineOK, RunOK, PostBatch
  <2>4. q \in Request /\ WellFormed(q)
    BY <2>2, <2>3, RequestOfRun
  <2> QED
    BY <2>1, <2>2, <2>4 DEF Next
<1>3. ASSUME NEW h \in Handler, LabelMachine(h) \/ ServeRest(h) \/ FinishRequest(h) PROVE Next
  BY <1>3 DEF LabelMachine, ServeRest, FinishRequest, Next, Serve
<1>4. CASE RestartServer
  BY <1>4 DEF RestartServer, Next
<1>5. ASSUME NEW c \in Run,
             \/ LoadConfig(c) \/ LoadTornConfig(c) \/ MintAndTruncate(c) \/ WriteConfig(c)
             \/ FindTranscriptFiles(c) \/ ReadTranscript(c) \/ AbortRun(c)
      PROVE  UNCHANGED serverVars
  BY <1>5 DEF LoadConfig, LoadTornConfig, MintAndTruncate, WriteConfig, FindTranscriptFiles,
              ReadTranscript, AbortRun, Local
<1>6. CASE RenameHost \/ \E f \in DOMAIN File, id \in Id : WriteLine(f, id)
  BY <1>1, <1>6 DEF RenameHost, WriteLine, Local
<1>7. CASE UNCHANGED vars
  BY <1>1, <1>7
<1> QED
  BY <1>1, <1>2, <1>3, <1>4, <1>5, <1>6, <1>7 DEF NextReports

(* The transcripts only grow. *)
LEMMA TranscriptsGrow ==
  ASSUME ReportsInv, [NextReports]_vars
  PROVE  /\ Grown(transcript, transcript')
         /\ transcript' = [f \in DOMAIN File |-> transcript'[f]]
         /\ Lines(transcript') /\ \A f \in DOMAIN File : Len(transcript'[f]) <= MaxWrites
<1>1. CASE UNCHANGED transcript
  BY <1>1 DEF ReportsInv, MachineOK, Grown
<1>2. ASSUME NEW f \in DOMAIN File, NEW id \in Id, WriteLine(f, id)
      PROVE  /\ Grown(transcript, transcript')
             /\ transcript' = [g \in DOMAIN File |-> transcript'[g]]
             /\ Lines(transcript') /\ \A g \in DOMAIN File : Len(transcript'[g]) <= MaxWrites
  <2>1. transcript[f] \in Seq(Id) /\ Len(transcript[f]) < MaxWrites
        /\ transcript' = [transcript EXCEPT ![f] = Append(transcript[f], id)]
    BY <1>2 DEF WriteLine, ReportsInv, MachineOK, Lines
  <2>2. transcript'[f] = Append(transcript[f], id) /\ \A g \in DOMAIN File : g # f => transcript'[g] = transcript[g]
    BY <2>1 DEF ReportsInv, MachineOK
  <2>3. /\ Append(transcript[f], id) \in Seq(Id) /\ Len(Append(transcript[f], id)) <= MaxWrites
        /\ \A i \in DOMAIN transcript[f] : /\ i \in DOMAIN Append(transcript[f], id)
                                           /\ Append(transcript[f], id)[i] = transcript[f][i]
    BY <2>1, BoundAssumption
  <2>4. transcript' = [g \in DOMAIN File |-> transcript'[g]]
    BY <2>1 DEF ReportsInv, MachineOK
  <2>5. Grown(transcript, transcript')
    BY <2>2, <2>3 DEF Grown
  <2>6. Lines(transcript') /\ \A g \in DOMAIN File : Len(transcript'[g]) <= MaxWrites
    BY <2>2, <2>3 DEF ReportsInv, MachineOK, Lines
  <2> QED
    BY <2>4, <2>5, <2>6
<1>3. (\E f \in DOMAIN File, id \in Id : WriteLine(f, id)) \/ UNCHANGED transcript
  BY DEF NextReports, LoadConfig, LoadTornConfig, MintAndTruncate, WriteConfig, FindTranscriptFiles,
         ReadTranscript, AbortRun, PostBatch, LabelMachine, ServeRest, FinishRequest, RestartServer, RenameHost
<1> QED
  BY <1>1, <1>2, <1>3

(* An invocation's own step, while transcripts may grow and ids be added. *)
LEMMA RunsStep ==
  ASSUME ReportsInv, Grown(transcript, transcript'), minted \subseteq minted',
         \A c \in Run : \/ run'[c] = run[c]
                        \/ RunOK(transcript', minted', run'[c])
  PROVE  \A c \in Run : RunOK(transcript', minted', run'[c])
<1>1. \A c \in Run : RunOK(transcript, minted, run[c])
  BY DEF ReportsInv, MachineOK
<1>2. \A x : RunOK(transcript, minted, x) => RunOK(transcript', minted', x)
  <2>1. \A x : ReadSoFar(transcript, x) => ReadSoFar(transcript', x)
    BY StaysAttributed
  <2> QED
    BY <2>1 DEF RunOK
<1> QED
  BY <1>1, <1>2

LEMMA MachineStep ==
  ASSUME ReportsInv, [NextReports]_vars
  PROVE  MachineOK'
<1> DEFINE Rest ==
      /\ minted' \subseteq Install /\ minted \subseteq minted'
      /\ config' \in minted' \cup {NoInstall, "torn"}
      /\ renamed' \in Nat /\ renamed' < Len(Hostnames)
      /\ overlapped' \in BOOLEAN
      /\ \A c \in Run : \/ run'[c] = run[c]
                        \/ RunOK(transcript', minted', run'[c])
<1>1. /\ Grown(transcript, transcript')
      /\ transcript' = [f \in DOMAIN File |-> transcript'[f]]
      /\ Lines(transcript') /\ \A f \in DOMAIN File : Len(transcript'[f]) <= MaxWrites
  BY TranscriptsGrow
<1> SUFFICES Rest
  BY <1>1, RunsStep DEF MachineOK
<1>a. /\ minted \subseteq Install /\ config \in minted \cup {NoInstall, "torn"}
      /\ renamed \in Nat /\ renamed < Len(Hostnames) /\ overlapped \in BOOLEAN
      /\ \A c \in Run : Fits(run[c]) /\ RunOK(transcript, minted, run[c])
  BY DEF ReportsInv, MachineOK, RunsFit
<1>b. ASSUME NEW c \in Run, NEW to, Move(c, to)
      PROVE  run'[c] = to /\ \A d \in Run : d # c => run'[d] = run[d]
  BY <1>b DEF Move, ReportsInv, RunsFit
<1>2. ASSUME UNCHANGED <<minted, config, renamed, overlapped, run>> PROVE Rest
  BY <1>a, <1>2
<1>3. ASSUME NEW c \in Run, LoadConfig(c) PROVE Rest
  <2>1. UNCHANGED <<minted, config, renamed, transcript>> /\ run[c].at = "idle" /\ config # "torn"
    BY <1>3 DEF LoadConfig
  <2>2. overlapped' \in BOOLEAN
    BY <1>3, Zenon DEF LoadConfig
  <2>3. RunOK(transcript', minted', run'[c])
    <3>1. CASE config = NoInstall
      <4>1. run'[c] = [run[c] EXCEPT !.at = "mint"]
        BY <1>b, <1>3, <3>1 DEF LoadConfig
      <4>2. /\ run'[c].at = "mint" /\ run'[c].install = run[c].install /\ run'[c].name = run[c].name
            /\ run'[c].files = run[c].files /\ run'[c].rows = run[c].rows
        BY <1>a, <4>1 DEF Fits
      <4> QED
        BY <1>a, <2>1, <4>2 DEF RunOK, ReadSoFar
    <3>2. CASE config # NoInstall
      <4>1. run'[c] = [run[c] EXCEPT !.at = "loaded", !.install = config]
        BY <1>b, <1>3, <3>2 DEF LoadConfig
      <4>2. /\ run'[c].at = "loaded" /\ run'[c].install = config /\ run'[c].name = run[c].name
            /\ run'[c].files = run[c].files /\ run'[c].rows = run[c].rows
        BY <1>a, <4>1 DEF Fits
      <4> QED
        BY <1>a, <2>1, <3>2, <4>2 DEF RunOK, ReadSoFar
    <3> QED
      BY <3>1, <3>2
  <2>4. \A d \in Run : d # c => run'[d] = run[d]
    BY <1>b, <1>3 DEF LoadConfig
  <2> QED
    BY <1>a, <2>1, <2>2, <2>3, <2>4
<1>4. ASSUME NEW c \in Run, MintAndTruncate(c) PROVE Rest
  <2>1. PICK i \in Install : /\ minted' = minted \cup {i}
                             /\ Move(c, [run[c] EXCEPT !.at = "write", !.install = i])
    BY <1>4 DEF MintAndTruncate
  <2>2. UNCHANGED <<renamed, transcript, overlapped>> /\ config' = "torn" /\ run[c].at = "mint"
    BY <1>4 DEF MintAndTruncate
  <2>3. run'[c] = [run[c] EXCEPT !.at = "write", !.install = i] /\ \A d \in Run : d # c => run'[d] = run[d]
    BY <1>b, <2>1
  <2>4. /\ run'[c].at = "write" /\ run'[c].install = i /\ run'[c].name = run[c].name
        /\ run'[c].files = run[c].files /\ run'[c].rows = run[c].rows
    BY <1>a, <2>3 DEF Fits
  <2>5. RunOK(transcript', minted', run'[c])
    BY <1>a, <2>1, <2>2, <2>4 DEF RunOK, ReadSoFar
  <2> QED
    BY <1>a, <2>1, <2>2, <2>3, <2>5
<1>5. ASSUME NEW c \in Run, WriteConfig(c) PROVE Rest
  <2>1. /\ UNCHANGED <<minted, renamed, transcript, overlapped>>
        /\ config' = run[c].install /\ run[c].at = "write"
    BY <1>5 DEF WriteConfig
  <2>2. run'[c] = [run[c] EXCEPT !.at = "loaded"] /\ \A d \in Run : d # c => run'[d] = run[d]
    BY <1>b, <1>5 DEF WriteConfig
  <2>3. /\ run'[c].at = "loaded" /\ run'[c].install = run[c].install /\ run'[c].name = run[c].name
        /\ run'[c].files = run[c].files /\ run'[c].rows = run[c].rows
    BY <1>a, <2>2 DEF Fits
  <2>4. RunOK(transcript', minted', run'[c]) /\ run[c].install \in minted
    BY <1>a, <2>1, <2>3 DEF RunOK, ReadSoFar
  <2> QED
    BY <1>a, <2>1, <2>2, <2>4
<1>6. ASSUME NEW c \in Run, FindTranscriptFiles(c) PROVE Rest
  <2>1. PICK absent \in SUBSET ScanRoot :
          Move(c, [run[c] EXCEPT !.at = "scan", !.name = ResolveHostname, !.files = Found(absent)])
    BY <1>6 DEF FindTranscriptFiles
  <2>2. UNCHANGED <<minted, config, renamed, transcript, overlapped>> /\ run[c].at = "loaded"
    BY <1>6 DEF FindTranscriptFiles
  <2>3. PICK fs : fs = Found(absent)
    OBVIOUS
  <2>4. /\ run'[c] = [run[c] EXCEPT !.at = "scan", !.name = ResolveHostname, !.files = fs]
        /\ \A d \in Run : d # c => run'[d] = run[d]
    BY <1>b, <2>1, <2>3
  <2>5. /\ run'[c].at = "scan" /\ run'[c].install = run[c].install /\ run'[c].name = ResolveHostname
        /\ run'[c].files = fs /\ run'[c].rows = run[c].rows
    BY <1>a, <2>4 DEF Fits
  <2>6. fs \in Seq(DOMAIN File)
    <3>1. [i \in DOMAIN File |-> i] \in Seq(DOMAIN File)
      BY FileAssumption
    <3> QED
      BY <2>3, <3>1, DeduplicatedOnce DEF Found
  <2>7. ResolveHostname \in Hostname
    <3>1. renamed + 1 \in DOMAIN Hostnames
      BY <1>a, NameAssumption
    <3> QED
      BY <3>1 DEF ResolveHostname, Hostname
  <2>8. RunOK(transcript', minted', run'[c])
    BY <1>a, <2>2, <2>5, <2>6, <2>7 DEF RunOK, ReadSoFar
  <2> QED
    BY <1>a, <2>2, <2>4, <2>8
<1>7. ASSUME NEW c \in Run, ReadTranscript(c) PROVE Rest
  <2> DEFINE f == Head(run[c].files)
  <2>1. PICK ids : ids = Unseen(FirstLines(transcript[f]), Ids(run[c].rows))
    OBVIOUS
  <2>2. PICK rows : rows = run[c].rows \o RowsOf(ids, File[f].root)
    OBVIOUS
  <2>3. UNCHANGED <<minted, config, renamed, transcript, overlapped>> /\ run[c].at = "scan"
        /\ run[c].files # <<>>
        /\ Move(c, [run[c] EXCEPT !.files = Tail(run[c].files), !.rows = rows])
    BY <1>7, <2>1, <2>2 DEF ReadTranscript
  <2>4. f \in DOMAIN File /\ Tail(run[c].files) \in Seq(DOMAIN File)
    <3>1. run[c].files \in Seq(DOMAIN File)
      BY <1>a DEF RunOK, ReadSoFar
    <3> QED
      BY <2>3, <3>1, FirstAndRest
  <2>5. RowsRead(transcript, rows)
    <3>1. ReadSoFar(transcript, run[c]) /\ Lines(transcript)
      BY <1>a DEF RunOK, ReportsInv, MachineOK
    <3>2. PICK x : x = run[c]
      OBVIOUS
    <3>3. PICK tr : tr = transcript
      OBVIOUS
    <3>4. PICK g \in DOMAIN File : g = f
      BY <2>4
    <3> HIDE DEF f
    <3>5. ids = Unseen(FirstLines(tr[g]), Ids(x.rows)) /\ rows = x.rows \o RowsOf(ids, File[g].root)
      BY <2>1, <2>2, <3>2, <3>3, <3>4
    <3>6. ReadSoFar(tr, x) /\ Lines(tr)
      BY <3>1, <3>2, <3>3
    <3>7. RowsRead(tr, rows)
      BY <3>5, <3>6, ReadMore
    <3> QED
      BY <3>3, <3>7
  <2>6. /\ run'[c] = [run[c] EXCEPT !.files = Tail(run[c].files), !.rows = rows]
        /\ \A d \in Run : d # c => run'[d] = run[d]
    BY <1>b, <2>3
  <2>7. /\ run'[c].at = "scan" /\ run'[c].install = run[c].install /\ run'[c].name = run[c].name
        /\ run'[c].files = Tail(run[c].files) /\ run'[c].rows = rows
    BY <1>a, <2>3, <2>6 DEF Fits
  <2>8. RunOK(transcript', minted', run'[c])
    BY <1>a, <2>3, <2>4, <2>5, <2>7 DEF RunOK, ReadSoFar
  <2> QED
    BY <1>a, <2>3, <2>6, <2>8
<1>8. ASSUME NEW c \in Run, AbortRun(c) \/ \E h \in Handler : PostBatch(c, h) PROVE Rest
  <2>1. Move(c, NotRunning) /\ UNCHANGED <<minted, config, renamed, transcript, overlapped>>
    BY <1>8 DEF AbortRun, PostBatch
  <2>2. run'[c] = NotRunning /\ \A d \in Run : d # c => run'[d] = run[d]
    BY <1>b, <2>1
  <2>3. /\ <<>> \in Seq(DOMAIN File) /\ <<>> \in Seq([id : Id, root : ScanRoot])
        /\ Len(<<>>) = 0 /\ 1..0 = {}
    OBVIOUS
  <2>4. RunOK(transcript', minted', NotRunning)
    BY <2>3 DEF RunOK, ReadSoFar, RowsRead, NotRunning
  <2> QED
    BY <1>a, <2>1, <2>2, <2>4
<1>9. ASSUME NEW h \in Handler, LabelMachine(h) \/ ServeRest(h) \/ FinishRequest(h) PROVE Rest
  BY <1>2, <1>9 DEF LabelMachine, ServeRest, FinishRequest
<1>10. CASE RenameHost
  BY <1>a, <1>10 DEF RenameHost
<1>11. CASE \/ RestartServer \/ UNCHANGED vars \/ (\E c \in Run : LoadTornConfig(c))
            \/ \E f \in DOMAIN File, id \in Id : WriteLine(f, id)
  BY <1>2, <1>11 DEF RestartServer, LoadTornConfig, WriteLine
<1> QED
  BY <1>3, <1>4, <1>5, <1>6, <1>7, <1>8, <1>9, <1>10, <1>11 DEF NextReports

(* Requests and rows stay where a transcript has their messages. *)
LEMMA AttributedStep ==
  ASSUME ReportsInv, [NextReports]_vars
  PROVE  ServerOK'
<1> DEFINE Rest ==
      /\ \A h \in Handler : Busy(h)' => \/ Busy(h) /\ hreq'[h] = hreq[h]
                                        \/ Attributed(transcript', hreq'[h].events)
      /\ \A id \in Stored' : \/ id \in Stored /\ usageEvents'[id] = usageEvents[id]
                             \/ AtIn(transcript', id, usageEvents'[id].root)
<1>a. /\ TypeOK /\ Attributed(transcript, usageEvents)
      /\ \A h \in Handler : Busy(h) => Attributed(transcript, hreq[h].events)
  BY DEF ReportsInv, ServerOK
<1>b. TypeOK'
  BY <1>a, ServerStep, TypeStep
<1>c. Grown(transcript, transcript')
  BY TranscriptsGrow
<1>1. Rest => ServerOK'
  <2> SUFFICES ASSUME Rest PROVE ServerOK'
    OBVIOUS
  <2>1. \A events : Attributed(transcript, events) => Attributed(transcript', events)
    BY <1>c, StaysAttributed
  <2>2. ASSUME NEW h \in Handler, Busy(h)' PROVE Attributed(transcript', hreq'[h].events)
    BY <1>a, <2>1, <2>2
  <2>3. ASSUME NEW id \in Named(usageEvents') PROVE AtIn(transcript', id, usageEvents'[id].root)
    <3>1. id \in Stored'
      BY <2>3 DEF Stored, Named
    <3>2. id \in Stored => AtIn(transcript', id, usageEvents[id].root)
      BY <1>a, <2>1 DEF Attributed, Stored
    <3> QED
      BY <3>1, <3>2
  <2> QED
    BY <1>b, <2>2, <2>3 DEF ServerOK, Attributed
<1> SUFFICES Rest
  BY <1>1
<1>2. ASSUME UNCHANGED <<hreq, usageEvents>>, \A h \in Handler : Busy(h)' => Busy(h) PROVE Rest
  BY <1>2 DEF Stored, Named
<1>3. ASSUME NEW c \in Run, NEW h \in Handler, PostBatch(c, h) PROVE Rest
  <2>1. PICK new \in SUBSET Ids(run[c].rows), path \in Path :
          Accept(h, [install |-> run[c].install, events |-> BatchOf(run[c], new, path)])
    BY <1>3 DEF PostBatch
  <2>2. PICK q : q = [install |-> run[c].install, events |-> BatchOf(run[c], new, path)]
    OBVIOUS
  <2>3. PICK x : x = run[c]
    OBVIOUS
  <2>4. PICK tr : tr = transcript
    OBVIOUS
  <2>5. ReadSoFar(tr, x) /\ x.install \in Install
    BY <1>3, <2>3, <2>4 DEF ReportsInv, MachineOK, RunOK, PostBatch
  <2>6. Attributed(tr, q.events)
    BY <2>2, <2>3, <2>5, RequestOfRun
  <2>7. UNCHANGED <<transcript, usageEvents>> /\ hreq' = [hreq EXCEPT ![h] = q] /\ hpc' = [hpc EXCEPT ![h] = "machine"]
    BY <1>3, <2>1, <2>2 DEF PostBatch, Accept, Goto
  <2>8. /\ hreq'[h] = q
        /\ \A k \in Handler : k # h => hreq'[k] = hreq[k] /\ hpc'[k] = hpc[k]
    BY <1>a, <2>7 DEF TypeOK
  <2>9. Attributed(transcript', hreq'[h].events)
    BY <2>4, <2>6, <2>7, <2>8
  <2> QED
    BY <2>7, <2>8, <2>9 DEF Busy, Stored, Named
<1>4. ASSUME NEW h \in Handler, LabelMachine(h) PROVE Rest
  <2>1. UNCHANGED <<hreq, usageEvents>> /\ hpc[h] = "machine" /\ hpc' = [hpc EXCEPT ![h] = "roots"]
    BY <1>4 DEF LabelMachine, UpsertMachine, Goto
  <2> QED
    BY <1>2, <1>a, <2>1 DEF Busy, TypeOK
<1>5. ASSUME NEW h \in Handler, ServeRest(h) PROVE Rest
  <2>1. ASSUME NEW s \in ScanRoot, UpsertScanRoot(h, s) PROVE Rest
    BY <1>2, <2>1 DEF UpsertScanRoot, Busy
  <2>2. CASE InsertBatch(h) \/ Fail(h)
    <3>1. UNCHANGED <<hreq, usageEvents>> /\ hpc[h] # "idle" /\ \A k \in Handler : k # h => hpc'[k] = hpc[k]
      BY <1>a, <2>2 DEF InsertBatch, Fail, Goto, TypeOK
    <3> QED
      BY <1>2, <3>1 DEF Busy
  <2>3. CASE Commit(h)
    <3>1. /\ Stored' = Stored \cup Named(hreq[h].events)
          /\ \A id \in Stored : usageEvents'[id] = usageEvents[id]
          /\ \A id \in Stored' \ Stored : usageEvents'[id] = hreq[h].events[id]
      BY <1>a, <2>3, CommitEffect
    <3>2. UNCHANGED <<hreq, transcript>> /\ hpc[h] = "commit" /\ \A k \in Handler : k # h => hpc'[k] = hpc[k]
      BY <1>5, <1>a, <2>3 DEF Commit, Goto, TypeOK, ServeRest
    <3>3. Attributed(transcript, hreq[h].events)
      BY <1>a, <3>2 DEF Busy
    <3>4. \A id \in Stored' \ Stored : AtIn(transcript', id, usageEvents'[id].root)
      BY <3>1, <3>2, <3>3 DEF Attributed
    <3>5. \A k \in Handler : Busy(k)' => Busy(k) /\ hreq'[k] = hreq[k]
      BY <3>2 DEF Busy
    <3> QED
      BY <3>1, <3>4, <3>5
  <2> QED
    BY <1>5, <2>1, <2>2, <2>3 DEF ServeRest
<1>6. ASSUME NEW h \in Handler, FinishRequest(h) PROVE Rest
  <2>1. /\ UNCHANGED usageEvents /\ hpc' = [hpc EXCEPT ![h] = "idle"] /\ hreq' = [hreq EXCEPT ![h] = NoRequest]
    BY <1>6 DEF FinishRequest, Finish
  <2>2. \A k \in Handler : Busy(k)' => Busy(k) /\ hreq'[k] = hreq[k]
    BY <1>a, <2>1 DEF Busy, TypeOK
  <2> QED
    BY <2>1, <2>2 DEF Stored, Named
<1>7. CASE RestartServer
  <2>1. UNCHANGED usageEvents /\ \A k \in Handler : ~Busy(k)'
    BY <1>7 DEF RestartServer, Restart, Busy
  <2> QED
    BY <2>1 DEF Stored, Named
<1>8. ASSUME NEW c \in Run,
             \/ LoadConfig(c) \/ LoadTornConfig(c) \/ MintAndTruncate(c) \/ WriteConfig(c)
             \/ FindTranscriptFiles(c) \/ ReadTranscript(c) \/ AbortRun(c)
      PROVE  Rest
  <2>1. UNCHANGED <<hreq, usageEvents, hpc>>
    BY <1>8 DEF LoadConfig, LoadTornConfig, MintAndTruncate, WriteConfig, FindTranscriptFiles,
                ReadTranscript, AbortRun, Local
  <2> QED
    BY <1>2, <2>1 DEF Busy
<1>9. CASE RenameHost \/ UNCHANGED vars \/ \E f \in DOMAIN File, id \in Id : WriteLine(f, id)
  <2>1. UNCHANGED <<hreq, usageEvents, hpc>>
    BY <1>9 DEF RenameHost, WriteLine, Local
  <2> QED
    BY <1>2, <2>1 DEF Busy
<1> QED
  BY <1>3, <1>4, <1>5, <1>6, <1>7, <1>8, <1>9 DEF NextReports

LEMMA LabelsStep ==
  ASSUME ReportsInv, [NextReports]_vars
  PROVE  LabelsOK'
<1>a. LabelsOK /\ TypeOK /\ NoName \notin Hostname
  BY NameAssumption DEF ReportsInv, ServerOK
<1>1. ASSUME UNCHANGED <<machines, label, sender, since>>, \A h \in Handler : Busy(h)' <=> Busy(h)
      PROVE  LabelsOK'
  BY <1>a, <1>1 DEF LabelsOK
<1>2. ASSUME NEW c \in Run, NEW h \in Handler, PostBatch(c, h) PROVE LabelsOK'
  <2> DEFINE name == run[c].name
  <2>1. name \in Hostname
    BY <1>2 DEF ReportsInv, MachineOK, RunOK, PostBatch
  <2>2. PICK q : Accept(h, q) /\ q.install = run[c].install
    BY <1>2 DEF PostBatch
  <2>3. /\ hpc[h] = "idle" /\ hpc' = [hpc EXCEPT ![h] = "machine"] /\ UNCHANGED <<machines, label>>
        /\ sender' = [sender EXCEPT ![h] = name]
        /\ since' = [k \in Handler |->
             IF k = h THEN {name} \cup {sender[j] : j \in {j \in Handler : SameMachine(j, run[c].install)}}
             ELSE IF SameMachine(k, run[c].install) THEN since[k] \cup {name}
             ELSE since[k]]
    BY <1>2, <2>2 DEF PostBatch, Accept, Goto
  <2> HIDE DEF name
  <2>4. \A j \in Handler : SameMachine(j, run[c].install) => sender[j] \in Hostname
    BY <1>a DEF SameMachine, LabelsOK
  <2>5. /\ sender' \in [Handler -> Hostname \cup {NoName}] /\ sender'[h] = name /\ hpc'[h] = "machine"
        /\ \A k \in Handler : k # h => sender'[k] = sender[k] /\ hpc'[k] = hpc[k]
    BY <1>a, <2>1, <2>3 DEF LabelsOK, TypeOK
  <2>6. since' \in [Handler -> SUBSET Hostname]
    <3>1. \A k \in Handler : since[k] \in SUBSET Hostname
      BY <1>a DEF LabelsOK
    <3>2. ASSUME NEW k \in Handler PROVE since'[k] \in SUBSET Hostname
      <4>1. CASE k = h
        <5>1. since'[k] = {name} \cup {sender[j] : j \in {j \in Handler : SameMachine(j, run[c].install)}}
          BY <2>3, <4>1
        <5> QED
          BY <2>1, <2>4, <5>1
      <4>2. CASE k # h
        BY <2>1, <2>3, <3>1, <4>2
      <4> QED
        BY <4>1, <4>2
    <3> QED
      BY <2>3, <3>2
  <2>7. \A k \in Handler : Busy(k)' <=> sender'[k] # NoName
    BY <1>a, <2>1, <2>5 DEF LabelsOK, Busy
  <2> QED
    BY <1>a, <2>3, <2>5, <2>6, <2>7 DEF LabelsOK
<1>3. ASSUME NEW h \in Handler, LabelMachine(h) PROVE LabelsOK'
  <2>1. /\ hpc[h] = "machine" /\ hpc' = [hpc EXCEPT ![h] = "roots"] /\ UNCHANGED <<sender, since>>
        /\ machines' = machines \cup {hreq[h].install}
        /\ label' = [label EXCEPT ![hreq[h].install] = sender[h]]
    BY <1>3 DEF LabelMachine, UpsertMachine, Goto
  <2>2. hreq[h].install \in Install /\ sender[h] \in Hostname /\ \A k \in Handler : Busy(k)' <=> Busy(k)
    <3>1. hreq[h] \in Request
      BY <1>a, <2>1 DEF TypeOK
    <3>2. Busy(h) /\ \A k \in Handler : Busy(k)' <=> Busy(k)
      BY <1>a, <2>1 DEF Busy, TypeOK
    <3> QED
      BY <1>a, <3>1, <3>2, RequestParts DEF LabelsOK
  <2>3. /\ label' \in [Install -> Hostname \cup {NoName}] /\ label'[hreq[h].install] = sender[h]
        /\ \A m \in Install : m # hreq[h].install => label'[m] = label[m]
    BY <1>a, <2>1, <2>2 DEF LabelsOK
  <2> QED
    BY <1>a, <2>1, <2>2, <2>3 DEF LabelsOK
<1>4. ASSUME NEW h \in Handler, ServeRest(h) PROVE LabelsOK'
  <2>1. UNCHANGED <<machines, label, sender, since>>
    BY <1>4 DEF ServeRest, UpsertScanRoot, InsertBatch, Commit, Fail
  <2>2. \A k \in Handler : Busy(k)' <=> Busy(k)
    <3>1. CASE \E s \in ScanRoot : UpsertScanRoot(h, s)
      BY <3>1 DEF UpsertScanRoot, Busy
    <3>2. CASE InsertBatch(h) \/ Commit(h) \/ Fail(h)
      BY <1>a, <3>2 DEF InsertBatch, Commit, Fail, Goto, Busy, TypeOK
    <3> QED
      BY <1>4, <3>1, <3>2 DEF ServeRest
  <2> QED
    BY <1>1, <2>1, <2>2
<1>5. ASSUME NEW h \in Handler, FinishRequest(h) PROVE LabelsOK'
  <2>1. /\ UNCHANGED <<machines, label>> /\ hpc' = [hpc EXCEPT ![h] = "idle"]
        /\ sender' = [sender EXCEPT ![h] = NoName] /\ since' = [since EXCEPT ![h] = {}]
    BY <1>5 DEF FinishRequest, Finish
  <2> QED
    BY <1>a, <2>1 DEF LabelsOK, Busy, TypeOK
<1>6. CASE RestartServer
  <2>1. /\ UNCHANGED <<machines, label>> /\ hpc' = [h \in Handler |-> "idle"]
        /\ sender' = [h \in Handler |-> NoName] /\ since' = [h \in Handler |-> {}]
    BY <1>6 DEF RestartServer, Restart
  <2> QED
    BY <1>a, <2>1 DEF LabelsOK, Busy
<1>7. ASSUME NEW c \in Run,
             \/ LoadConfig(c) \/ LoadTornConfig(c) \/ MintAndTruncate(c) \/ WriteConfig(c)
             \/ FindTranscriptFiles(c) \/ ReadTranscript(c) \/ AbortRun(c)
      PROVE  LabelsOK'
  <2>1. UNCHANGED <<machines, label, sender, since, hpc>>
    BY <1>7 DEF LoadConfig, LoadTornConfig, MintAndTruncate, WriteConfig, FindTranscriptFiles,
                ReadTranscript, AbortRun, Local
  <2> QED
    BY <1>1, <2>1 DEF Busy
<1>8. CASE RenameHost \/ UNCHANGED vars \/ \E f \in DOMAIN File, id \in Id : WriteLine(f, id)
  <2>1. UNCHANGED <<machines, label, sender, since, hpc>>
    BY <1>8 DEF RenameHost, WriteLine, Local
  <2> QED
    BY <1>1, <2>1 DEF Busy
<1> QED
  BY <1>2, <1>3, <1>4, <1>5, <1>6, <1>7, <1>8 DEF NextReports

(* What the machine, its transcripts, its invocations, their requests and the
   server's tables are to each other after any interleaving, failure, death
   or rename. *)
THEOREM ReportsInvariant == SpecReports => []ReportsInv
<1>1. ReportsInv /\ [NextReports]_vars => ReportsInv'
  <2> SUFFICES ASSUME ReportsInv, [NextReports]_vars PROVE ReportsInv'
    OBVIOUS
  <2>1. RunsFit'
    BY RunsFitInduction DEF ReportsInv
  <2> QED
    BY <2>1, MachineStep, AttributedStep, LabelsStep DEF ReportsInv
<1> QED
  BY <1>1, ReportsStart, PTL DEF SpecReports

(* The collectors of a machine, whatever they scan and whenever they overlap
   or die, are to the server the well-formed requests of UsageIngest: what is
   proved of those holds of these. *)
THEOREM ReportsAreIngestion == SpecReports => Spec
<1>1. InitReports => Init
  BY DEF InitReports
<1>2. ReportsInv /\ [NextReports]_vars => [Next]_serverVars
  BY ServerStep
<1> QED
  BY <1>1, <1>2, ReportsInvariant, PTL DEF SpecReports, Spec

(* Every variable keeps its type: an invocation has a minted install id
   exactly when it is past the config file, a machine a name exactly when it
   has a row. *)
THEOREM ReportsTypeCorrect == SpecReports => []ReportsTypeOK
<1>1. ReportsInv => ReportsTypeOK
  <2> SUFFICES ASSUME ReportsInv PROVE ReportsTypeOK
    OBVIOUS
  <2>1. ASSUME NEW f \in DOMAIN File PROVE Len(transcript[f]) <= MaxWrites /\ Held(f) \subseteq Id
    <3>1. transcript[f] \in Seq(Id) /\ Len(transcript[f]) <= MaxWrites
      BY DEF ReportsInv, MachineOK, Lines
    <3> QED
      BY <3>1 DEF Held
  <2>2. ASSUME NEW c \in Run
        PROVE  /\ run[c].at \in {"idle", "mint", "write", "loaded", "scan"}
               /\ run[c].at \in {"write", "loaded", "scan"} <=> run[c].install \in minted
               /\ run[c].at = "scan" <=> run[c].name \in Hostname
    <3>1. Fits(run[c]) /\ RunOK(transcript, minted, run[c]) /\ minted \subseteq Install
      BY DEF ReportsInv, MachineOK, RunsFit
    <3> QED
      BY <3>1, NameAssumption, InstallAssumption DEF Fits, RunOK
  <2> QED
    BY <2>1, <2>2 DEF ReportsTypeOK, ReportsInv, MachineOK, ServerOK, LabelsOK
<1> QED
  BY <1>1, ReportsInvariant, PTL

(* A run reports a message once, and it and the table name only scan roots
   under which a transcript holds the message, although transcripts grow
   while they are read and repeat each other's lines. *)
THEOREM RowsAlwaysAttributed == SpecReports => []RowsAreAttributed
<1>1. ReportsInv => RowsAreAttributed
  <2> SUFFICES ASSUME ReportsInv PROVE RowsAreAttributed
    OBVIOUS
  <2>1. \A id, root : AtIn(transcript, id, root) =>
          \E f \in DOMAIN File : File[f].root = root /\ id \in Held(f)
    BY DEF AtIn, Held
  <2>2. ASSUME NEW c \in Run
        PROVE  /\ Cardinality(Ids(run[c].rows)) = Len(run[c].rows)
               /\ \A i \in DOMAIN run[c].rows :
                    AtIn(transcript, run[c].rows[i].id, run[c].rows[i].root)
    <3>1. PICK rows : rows = run[c].rows
      OBVIOUS
    <3>2. RowsRead(transcript, rows)
      BY <3>1 DEF ReportsInv, MachineOK, RunOK, ReadSoFar
    <3>3. Len(rows) \in Nat /\ DOMAIN rows = 1..Len(rows)
      BY <3>2 DEF RowsRead
    <3> DEFINE n == Len(rows)
               id == [i \in 1..n |-> rows[i].id]
    <3>4. Ids(rows) = {id[i] : i \in 1..n}
      BY <3>3 DEF Ids
    <3>5. id \in Bijection(1..n, Ids(rows))
      <4>1. id \in [1..n -> Ids(rows)] /\ \A e \in Ids(rows) : \E i \in 1..n : id[i] = e
        BY <3>4
      <4>2. \A i, j \in 1..n : id[i] = id[j] => i = j
        BY <3>2 DEF RowsRead
      <4> HIDE DEF n, id
      <4> QED
        BY <4>1, <4>2 DEF Bijection, Injection, Surjection, IsInjective
    <3>6. IsFiniteSet(1..n) /\ Cardinality(1..n) = n
      <4>1. IsFiniteSet(1..n) /\ Cardinality(1..n) = IF 1 > n THEN 0 ELSE n - 1 + 1
        BY <3>3, FS_Interval
      <4> HIDE DEF n
      <4>2. n \in Nat
        BY <3>3 DEF n
      <4> QED
        BY <4>1, <4>2
    <3>7. Cardinality(Ids(rows)) = n
      <4> HIDE DEF n, id
      <4>1. ExistsBijection(1..n, Ids(rows))
        BY <3>5 DEF ExistsBijection
      <4> QED
        BY <3>6, <4>1, FS_Bijection
    <3> QED
      BY <3>1, <3>2, <3>3, <3>7 DEF RowsRead
  <2>3. \A id \in Stored : AtIn(transcript, id, usageEvents[id].root)
    BY DEF ReportsInv, ServerOK, Attributed, Stored
  <2> QED
    BY <2>1, <2>2, <2>3 DEF RowsAreAttributed
<1> QED
  BY <1>1, ReportsInvariant, PTL

=============================================================================
