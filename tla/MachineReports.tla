--------------------------- MODULE MachineReports ---------------------------
(***************************************************************************)
(* How a machine comes to its name and its rows: the collector's config    *)
(* file with the install id that its first run mints                       *)
(* (internal/collector/config.go), the host name, the scan of the          *)
(* transcripts under every scan path (scan.go, transcript.go, the first    *)
(* half of Run), and what UsageIngest makes of the batches, the machine's  *)
(* row with its host name included.  Several invocations of one            *)
(* machine's collector may overlap.                                        *)
(***************************************************************************)
EXTENDS UsageIngest, Sequences, Functions

CONSTANTS
  Run,       \* invocations at once
  Hostnames, \* the names ResolveHostname returns over time, "unknown-host" for none
  NoName,
  NoInstall,
  File,      \* transcripts, in the order of the walk: [path, root]
  MaxWrites  \* bound on the usage lines of a file

Hostname == {Hostnames[i] : i \in DOMAIN Hostnames}

ASSUME NameAssumption ==
  /\ NoName \notin Hostname
  /\ Len(Hostnames) \in Nat \ {0} /\ DOMAIN Hostnames = 1..Len(Hostnames)
ASSUME InstallAssumption == NoInstall \notin Install /\ "torn" \notin Install
ASSUME FileAssumption ==
  /\ Len(File) \in Nat /\ DOMAIN File = 1..Len(File)
  /\ \A i \in DOMAIN File : File[i].root \in ScanRoot
ASSUME BoundAssumption == MaxWrites \in Nat

VARIABLES
  config,      \* install_id in the config file; NoInstall: none yet; "torn": truncated
  renamed,     \* how often the machine has been renamed
  transcript,  \* the message ids of each file's usage lines, in order
  minted,      \* install ids generated so far
  run,         \* each invocation
  label,       \* machines.hostname of each install, or NoName
  sender,      \* the host name in the request each handler serves
  since,       \* history: host names of requests not over when this one arrived, or later
  overlapped   \* history: two first runs have overlapped

machineVars == <<config, renamed, transcript, minted, run, overlapped>>
labelVars == <<label, sender, since>>
vars == <<serverVars, machineVars, labelVars>>

NotRunning == [at |-> "idle", install |-> NoInstall, name |-> NoName, files |-> <<>>, rows |-> <<>>]

InitReports ==
  /\ Init
  /\ config = NoInstall
  /\ renamed = 0
  /\ transcript = [f \in DOMAIN File |-> <<>>]
  /\ minted = {}
  /\ run = [c \in Run |-> NotRunning]
  /\ label = [m \in Install |-> NoName]
  /\ sender = [h \in Handler |-> NoName]
  /\ since = [h \in Handler |-> {}]
  /\ overlapped = FALSE

Move(c, to) == run' = [run EXCEPT ![c] = to]
Local == UNCHANGED <<serverVars, labelVars>>

-----------------------------------------------------------------------------
(* The config file. *)

Initialising(c) == run[c].at \in {"mint", "write"}

(* Seeded fault: a file that does not parse is used all the same. *)
LoadUnparsed(c) ==
  /\ run[c].at = "idle"
  /\ Move(c, IF config = NoInstall THEN [run[c] EXCEPT !.at = "mint"]
                                   ELSE [run[c] EXCEPT !.at = "loaded", !.install = config])
  /\ UNCHANGED <<config, renamed, transcript, minted, overlapped>> /\ Local

(* LoadOrInitConfig.  A torn file does not parse, *)
LoadConfig(c) ==
  /\ run[c].at = "idle"
  /\ config # "torn"
  /\ Move(c, IF config = NoInstall THEN [run[c] EXCEPT !.at = "mint"]
                                   ELSE [run[c] EXCEPT !.at = "loaded", !.install = config])
  /\ overlapped' = (overlapped \/ (config = NoInstall /\ \E d \in Run : Initialising(d)))
  /\ UNCHANGED <<config, renamed, transcript, minted>> /\ Local

(* and the run fails. *)
LoadTornConfig(c) ==
  /\ run[c].at = "idle"
  /\ config = "torn"
  /\ UNCHANGED vars

(* writeConfig with the minted id; os.WriteFile truncates first, *)
MintAndTruncate(c) ==
  /\ run[c].at = "mint"
  /\ \E i \in Install \ minted :
       /\ minted' = minted \cup {i}
       /\ Move(c, [run[c] EXCEPT !.at = "write", !.install = i])
  /\ config' = "torn"
  /\ UNCHANGED <<renamed, transcript, overlapped>> /\ Local

(* Seeded fault: the generated id is not written back. *)
WriteOldConfig(c) ==
  /\ run[c].at = "write"
  /\ Move(c, [run[c] EXCEPT !.at = "loaded"])
  /\ config' = NoInstall
  /\ UNCHANGED <<renamed, transcript, minted, overlapped>> /\ Local

(* and then writes. *)
WriteConfig(c) ==
  /\ run[c].at = "write"
  /\ Move(c, [run[c] EXCEPT !.at = "loaded"])
  /\ config' = run[c].install
  /\ UNCHANGED <<renamed, transcript, minted, overlapped>> /\ Local

-----------------------------------------------------------------------------
(* The scan. *)

ResolveHostname == Hostnames[renamed + 1]

(* The elements of a sequence, each where it first comes, but those to skip. *)
Deduplicated(s, skip) ==
  LET kept[i \in 0..Len(s)] ==
        IF i = 0 THEN <<>>
        ELSE IF s[i] \in skip \cup Range(kept[i - 1]) THEN kept[i - 1]
        ELSE Append(kept[i - 1], s[i])
  IN kept[Len(s)]

(* FindTranscriptFiles, some scan paths being absent. *)
Found(absent) ==
  Deduplicated([i \in DOMAIN File |-> i], {i \in DOMAIN File : File[i].root \in absent})

FindTranscriptFiles(c) ==
  /\ run[c].at = "loaded"
  /\ \E absent \in SUBSET ScanRoot :
       Move(c, [run[c] EXCEPT !.at = "scan", !.name = ResolveHostname, !.files = Found(absent)])
  /\ UNCHANGED <<config, renamed, transcript, minted, overlapped>> /\ Local

Ids(rows) == {rows[i].id : i \in DOMAIN rows}

(* ExtractUsageRows: the first line of each message id. *)
FirstLines(lines) == Deduplicated(lines, {})

RowsOf(ids, root) == [i \in DOMAIN ids |-> [id |-> ids[i], root |-> root]]

(* Seeded fault: message ids are deduplicated within each file only. *)
AllOf(ids, seen) == ids

(* Run's own deduplication, over all files. *)
Unseen(ids, seen) == Deduplicated(ids, seen)

(* A transcript is read at one moment; lines may follow. *)
ReadTranscript(c) ==
  /\ run[c].at = "scan"
  /\ run[c].files # <<>>
  /\ LET f == Head(run[c].files)
         ids == Unseen(FirstLines(transcript[f]), Ids(run[c].rows))
     IN Move(c, [run[c] EXCEPT !.files = Tail(@), !.rows = @ \o RowsOf(ids, File[f].root)])
  /\ UNCHANGED <<config, renamed, transcript, minted, overlapped>> /\ Local

(* A usage line is appended; a resumed session repeats those of another. *)
WriteLine(f, id) ==
  /\ Len(transcript[f]) < MaxWrites
  /\ transcript' = [transcript EXCEPT ![f] = Append(@, id)]
  /\ UNCHANGED <<config, renamed, minted, run, overlapped>> /\ Local

RenameHost ==
  /\ renamed + 1 < Len(Hostnames)
  /\ renamed' = renamed + 1
  /\ UNCHANGED <<config, transcript, minted, run, overlapped>> /\ Local

(* Every error return, and the death of the process. *)
AbortRun(c) ==
  /\ run[c].at # "idle"
  /\ Move(c, NotRunning)
  /\ UNCHANGED <<config, renamed, transcript, minted, overlapped>> /\ Local

-----------------------------------------------------------------------------
(* The batch. *)

(* The new rows, with the install id and the root each was found under. *)
BatchOf(r, new, path) ==
  [id \in Id |->
     IF id \in new
       THEN [machine |-> r.install, path |-> path,
             root |-> r.rows[CHOOSE i \in DOMAIN r.rows : r.rows[i].id = id].root]
       ELSE NoRow]

Busy(h) == hpc[h] # "idle"
SameMachine(h, install) == Busy(h) /\ hreq[h].install = install

(* PostBatch: `new` is what FilterUnsent lets through (CollectorDelivery    *)
(* says what, and what becomes of the answer), never nothing.              *)
PostBatch(c, h) ==
  /\ run[c].at = "scan"
  /\ run[c].files = <<>>
  /\ \E new \in SUBSET Ids(run[c].rows) \ {{}}, path \in Path :
       Accept(h, [install |-> run[c].install, events |-> BatchOf(run[c], new, path)])
  /\ sender' = [sender EXCEPT ![h] = run[c].name]
  /\ since' = [k \in Handler |->
       IF k = h THEN {run[c].name} \cup {sender[j] : j \in {j \in Handler : SameMachine(j, run[c].install)}}
       ELSE IF SameMachine(k, run[c].install) THEN since[k] \cup {run[c].name}
       ELSE since[k]]
  /\ Move(c, NotRunning)
  /\ UNCHANGED <<config, renamed, transcript, minted, overlapped, label>>

(* Seeded fault: the first host name stays (OR IGNORE). *)
FirstLabel(h) ==
  /\ UpsertMachine(h)
  /\ label' = [label EXCEPT ![hreq[h].install] = IF @ = NoName THEN sender[h] ELSE @]
  /\ UNCHANGED <<machineVars, sender, since>>

(* INSERT OR REPLACE: the row is this request's. *)
LabelMachine(h) ==
  /\ UpsertMachine(h)
  /\ label' = [label EXCEPT ![hreq[h].install] = sender[h]]
  /\ UNCHANGED <<machineVars, sender, since>>

ServeRest(h) ==
  /\ \/ \E s \in ScanRoot : UpsertScanRoot(h, s)
     \/ InsertBatch(h) \/ Commit(h) \/ Fail(h)
  /\ UNCHANGED <<machineVars, labelVars>>

FinishRequest(h) ==
  /\ Finish(h)
  /\ sender' = [sender EXCEPT ![h] = NoName]
  /\ since' = [since EXCEPT ![h] = {}]
  /\ UNCHANGED <<machineVars, label>>

RestartServer ==
  /\ Restart
  /\ sender' = [h \in Handler |-> NoName]
  /\ since' = [h \in Handler |-> {}]
  /\ UNCHANGED <<machineVars, label>>

NextReports ==
  \/ \E c \in Run :
       \/ LoadConfig(c) \/ LoadTornConfig(c) \/ MintAndTruncate(c) \/ WriteConfig(c)
       \/ FindTranscriptFiles(c) \/ ReadTranscript(c) \/ AbortRun(c)
       \/ \E h \in Handler : PostBatch(c, h)
  \/ \E h \in Handler : LabelMachine(h) \/ ServeRest(h) \/ FinishRequest(h)
  \/ RestartServer \/ RenameHost
  \/ \E f \in DOMAIN File, id \in Id : WriteLine(f, id)

SpecReports == InitReports /\ [][NextReports]_vars

-----------------------------------------------------------------------------
Held(f) == {transcript[f][i] : i \in DOMAIN transcript[f]}

ReportsTypeOK ==
  /\ TypeOK
  /\ config \in Install \cup {NoInstall, "torn"}
  /\ renamed < Len(Hostnames)
  /\ \A f \in DOMAIN File : Len(transcript[f]) <= MaxWrites /\ Held(f) \subseteq Id
  /\ minted \subseteq Install
  /\ \A c \in Run :
       /\ run[c].at \in {"idle", "mint", "write", "loaded", "scan"}
       /\ run[c].at \in {"write", "loaded", "scan"} <=> run[c].install \in minted
       /\ run[c].at = "scan" <=> run[c].name \in Hostname
  /\ label \in [Install -> Hostname \cup {NoName}]
  /\ \A m \in Install : m \in machines <=> label[m] # NoName
  /\ sender \in [Handler -> Hostname \cup {NoName}]
  /\ \A h \in Handler : Busy(h) <=> sender[h] # NoName
  /\ since \in [Handler -> SUBSET Hostname]
  /\ overlapped \in BOOLEAN

(* "Every later call against the same file sees the same install_id"
   (config.go): a machine has one row in the console's table, and all its
   events are under it, whatever dies while the id is being written; unless
   two first runs overlap, which mint an id each. *)
OneMachineRow ==
  ~overlapped =>
    Cardinality(machines \cup {run[c].install : c \in {c \in Run : run[c].at \in {"loaded", "scan"}}}) <= 1

(* The host name shown for a machine catches up with what it reports
   (machines' upsert on every batch): once a request has passed its upsert,
   the name is its own or that of a request that overlapped or followed it,
   never an older one, although an orphaned request of an earlier run may
   still be under way. *)
LabelCatchesUp ==
  \A h \in Handler :
    hpc[h] \in {"roots", "commit", "created"} => label[hreq[h].install] \in since[h]

(* A message that is in several transcripts is reported once by a run, and
   every event is under a scan root where a transcript holds its message
   (Run's deduplication over files that grow while they are read). *)
RowsAreAttributed ==
  LET At(id, root) == \E f \in DOMAIN File : File[f].root = root /\ id \in Held(f)
  IN /\ \A c \in Run : /\ Cardinality(Ids(run[c].rows)) = Len(run[c].rows)
                       /\ \A i \in DOMAIN run[c].rows : At(run[c].rows[i].id, run[c].rows[i].root)
     /\ \A id \in Stored : At(id, usageEvents[id].root)
=============================================================================
