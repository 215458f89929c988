# my-token: TLA+ models and proofs

my-token collects token usage of Claude Code. A *collector* on each machine
reads the transcripts, attributes every usage row to a path, and reports new
rows to a *server*, which stores them in SQLite and shows them in a console.
Agents authenticate with API keys issued by a CLI, or with JWTs of an identity
provider; the owner logs in with a browser. The modules here are translated
from the Go and SQL sources; paths below are relative to the repository. Every
definition's source lines are in `PROJECT.json`.

## The system

| Part | State | Operations | What is hard |
|---|---|---|---|
| Usage ingestion (`internal/transport/publicapi/usage_handler.go`, `internal/domain/usage`) | tables `machines`, `scan_roots`, `usage_events` | `IngestUsageEventsBatch`: two kinds of upserts, one insert transaction | requests interleave statement by statement; one writer, no busy timeout; failure or restart between statements |
| Read side (`internal/domain/usage/summary.go`, `service.go`, `repo.go`, `pricing.go`) | none | windows, `Aggregate`, filters, labels, machine and scan root lists | one page is several queries beside ingestion; boundaries of seven windows; colliding paths |
| Collector run (`internal/collector/collector.go`, `client.go`, `state.go`) | the state file of sent ids; what one invocation holds in memory | `Run`: extract, `LoadSentState`, `FilterUnsent`, attribute, `PostBatch`, `MarkSent`, `Save` | lost responses, a timeout with the request still being served, overlapping invocations, a crash while saving |
| Collector configuration and scan (`config.go`, `scan.go`, `transcript.go`, `hostname.go`) | config file with the install id; transcripts | `LoadOrInitConfig`, `ResolveHostname`, `FindTranscriptFiles`, two deduplications | two first runs; truncate, then write; files that grow while they are read and repeat each other's messages |
| Path attribution (`pathstore.go`, `path.go`, `touchedpaths.go`) | SQLite file: votes, offsets, git root cache | `scanSessionPaths`: `ScanOffset`, `AddVotes`, `SetScanOffset`, `SaveGitRoots`, majority | votes, offset and cache are separate transactions; half-written lines; working trees that move; ties |
| Identity and keys (`internal/identity`, `cmd/issue-key`, `cmd/seed`) | tables `users`, `api_keys`; key files; resolver script | issue, rotate, revoke (agent, owner), list, seed, `ResolveActor` | list-then-revoke; database and files change separately; handles match without case, file names with |
| JWT verification (`internal/identity/jwt.go`) | cached key set | `Verify`, one forced refresh per miss | stale sets; an issuer that does not answer |
| Owner session (`internal/transport/bff`) | signed state and session cookies, the signing secret | login, callback, `RequireJSONSession` | several tabs, one state cookie; expiry and restarts half way |
| Web console (`web/src`), platform, generated code, tooling | | | not core logic |

The collector and the server interact through one HTTP request; invocations
of the collector with each other only through the state file, the path store
and the config file; the CLI and the server through the tables of one SQLite
file; the two surfaces of the server, `/api/v1` for agents and `/api/bff` for
the owner, through its users and keys. What should hold: a stored event never
changes and has its labels; a 201 and its counts are true; the console's
figures agree; what the collector takes for delivered is stored, and
everything is delivered in the end, under one machine; votes are those of the
lines passed; a rotation disables what came before it and strands nobody; a
dead credential gets nobody in, and a good one is refused only if a query or a
refresh fails.

## Modules

```
UsageIngest ── UsageConsole (with Pricing)      Identity ── ActorResolution ┐
     │   └──── MachineReports                        └───── OwnerSession ───┴─ Gateway
     └──────── CollectorDelivery ──implements── UsageLedger
PathStore                                       KeyLifecycle
```

**`UsageIngest`** is the server's side of the batch endpoint. One handler per
request walks `machine`, `roots`, `commit`, `created` or `failed` (`hpc`);
`UpsertMachine`, `UpsertScanRoot` and `InsertBatch` each need the write lock
(`writer`), because `OpenDB` sets no busy timeout and opens no queue: a
statement that meets a lock fails, which is `Fail`, enabled at every statement.
`InsertBatch` is the insert loop, whose rows become visible in `Commit`; an
empty batch takes `IngestNothing`. `Restart` drops every handler. An event's
data is its machine, scan root and path: of the columns two reports of one
message can differ in, `path` stands for all. `reported` is a history variable,
the sum of all `inserted` counts.

**`UsageConsole`** extends it with one console request at a time (`view`):
`Summary` (totals, then a second query for the host names), `ScanRoots`,
`GetMachines`, and `BeginWindows`/`NextWindow` for the seven queries of the
window table, each of which sees the table as it is then. `WindowStart` is the
Go code's on hours (ISO week, month and year starts from a calendar of days),
`Matches` the WHERE clauses of `usage_events.sql`, `Breakdown` is `Aggregate`
with `keyFor`. **`Pricing`** is `pricing.go` in hundredths of a millionth of a
dollar.

**`UsageLedger`** is the abstract promise: an id is recorded at most once, the
record never changes, and only recorded ids are settled.

**`CollectorDelivery`** extends `UsageIngest` with invocations of the
collector (`pc`): `BeginRun` and `ExtractRows` (a row written while the files
are read is seen or not), `LoadSentState` with `FilterUnsent`, `BuildEvents`
(the path each run resolves may differ from an earlier run's), `PostBatch`,
`Receive` or `LoseResponse`, `MarkAndTruncate` and `WriteState` for the two
halves of `os.WriteFile`. `AbortRun` is every error return, the client's
timeout and the death of the process: the handler goes on without a client.
It implements `UsageLedger` with `ledger <- usageEvents, settled <- sentIds`.

**`MachineReports`** extends `UsageIngest` in the other direction: how rows
come to their machine and scan root. `LoadConfig`, `MintAndTruncate` and
`WriteConfig` are `LoadOrInitConfig` with the two halves of its write;
`FindTranscriptFiles` walks the scan paths in order, `ReadTranscript` keeps
the first line of each id in a file and drops the ids of the files before it
(`Deduplicated`, the collector's loop as a recursive function); `PostBatch` takes
any part of the rows as new. `LabelMachine` is `UpsertMachine` with the host
name it carries. `since` is a history variable, the host names a handler may
find after its upsert; `overlapped` records that two first runs overlapped.

**`PathStore`** is `scanSessionPaths` against transcripts that grow, with the
last line possibly half written (`partial`), and working trees that move
(`MoveTrees`). An invocation seeds its cache (`BeginScan`), then per file
`ReadFile`, `ScanOffset`, `AddVotes`, `SetScanOffset`, and stores the cache
(`EndScan`); `AbortScan` is an error or death anywhere. `CachedRoot` is the
cache over `git rev-parse`, whose failures are not cached. `MajorityGitRoot` is
the code's loop over the map, as a recursive function of the iteration order.
`ballot` is a history variable, what each line last voted for: a line that was
still being written when the offset moved past it does not parse, its vote is
lost, and it is `Malformed` there; the properties are stated up to such lines.

**`KeyLifecycle`** runs `issue-key` and `issue-key -rotate` statement by
statement: find or create the user, store the key, list the others, revoke
them newest first, truncate and write the key file, then the resolver script
unless it is the current one (`KeepResolver`, or `TruncateResolver` and
`WriteResolver`); beside
`cmd/seed` (`SeedLookup`, `SeedCreate`), both revocation endpoints and the
expiry of keys. Keys are numbered in the order of issue. `Name` are spellings,
`HandleOf` maps them to the row they match (COLLATE NOCASE).

**`Identity`** is what the running server sees of the tables: `active`,
`revoked`, `expired`, and per request its stage (`pc`), surface, credential and
actor, with the key handlers `ListKeys` and `RevokeKey` of both surfaces.
**`ActorResolution`** is `ResolveActor`: `TryAPIKey` and `LoadKeyUser` are two
queries, a miss goes on to the JWT branch (`LookupCached`, `RefreshOnMiss` or
`RefreshFails`, `LoadSubject`), `Gate` keeps the owner and inactive users out.
There is no 500 while a request is resolved: `RequireActor` and
`RequireJSONSession` answer 401 (`refused`) to every error, so that
`LookupFails`, a query that fails, and `RefreshFails`, an issuer that does not
answer, look like a bad credential. Only a handler's own error is a 500
(`Break`). **`OwnerSession`** is the
browser's side: `Login` sets the one state cookie, `Authorize` is the identity
provider, `Callback` checks the cookie, `Exchange` sends the verifier found in
it, `GrantSession` looks up the owner, `CallbackResponse` sets the session
cookie; `ParseSession` and `LoadSessionUser` are the middleware. `spoiled`
records per tab that another tab, the clock, a restart or an error interfered.
**`Gateway`** composes the two over one set of tables, with revocation, expiry,
deactivation, key rotation at the issuer, the scheduled refresh and restarts
with another secret. `good`, `stale`, `seen` and `faulted` are history
variables: whether the request's credential has been acceptable ever since it
arrived, was dead on arrival, whether its user has been active at some moment
since, and which requests had a query or a refresh fail in their own
resolution (`FailResolution`). `GoodCredentialAccepted` says that an acceptable
credential gets a 401 for that reason only.

`UsageIngestProofs`, `CollectorDeliveryProofs`, `KeyLifecycleProofs`,
`GatewayProofs`, `PathStoreProofs`, `MachineReportsProofs` and
`UsageConsoleProofs` hold the theorems, and `RecursionTheorems` what the last
three need to know of sums and loops; the `MC` modules hold the
symmetry sets, small tables and constraints for TLC. Operators marked "Seeded
fault" are not used by the specifications: they are plausible bugs, each of
which makes the property named in `PROJECT.json` fail when put in the place of
the operator it mutates.

## Runs

| Run | Bounds | What it shows |
|---|---|---|
| `UsageIngest` | 2 handlers, 2 installs, 1 root, 2 paths (one the name of the turns' actor), 2 ids (one stamped in the future), 2 moments, one console request at a time (0.15 M states) | concurrent, failing, restarted requests keep events labelled and write-once; 201s and counts are true; windows nest, breakdowns add up, every row is named, filters divide the totals although batches commit between queries |
| `MachineReports` | 2 invocations, 2 handlers, 2 roots with a file each, 1 id, 2 host names, 2 lines per file (0.3 M) | one machine row, a current name, each message once and under a root that holds it |
| `DeliveryOverlap` | 2 invocations, 2 handlers, 1 install, 2 paths, 2 ids, crashes while saving | nothing unstored is taken for delivered; the ledger is implemented |
| `DeliveryRetry` | 1 invocation at a time, 2 handlers, 1 path, 2 ids, fair | saved rows are not sent again; every row is settled in the end |
| `DeliveryTornState` (violated) | 1 of each | the state file can be left unreadable |
| `PathStore` | 1 invocation at a time, 2 files, 1 or 2 sessions, 2 directories, 2 layouts of working trees with one move, 3 lines in all and 2 in a file, fair (0.4 M) | votes match offsets; a stored root is final; no dependence on map order; every line counts in the end |
| `PathStoreSplit` (violated) | 2 lines, no move | a failure between votes and offset counts a line twice |
| `KeyLifecycle` | 2 invocations, 1 handle (the seeded one), 3 keys | a finished rotation has disabled everything older; roles are decided once |
| `KeyRotation` | 1 invocation at a time, 2 handles, 4 keys, none dying inside a rotation | no gap without a live key; key files and resolver script stay usable |
| `KeyFileSpelling` (violated) | 2 spellings of one handle | the older spelling's file keeps a disabled key |
| `GatewayAgents` | 2 requests, 2 users with a key each (the owner's among them), 4 tokens, 2 signing keys, no tabs (0.7 M) | no dead credential gets in, no good one is refused unless a query or a refresh fails, none becomes the owner |
| `GatewayOwner` | 1 request, 2 tabs, 2 logins, 1 tick, cookies of one tick, 2 secrets, no tokens (0.2 M) | codes meet their verifiers, only the owner gets a session, a login fails only for a reason, keys are listed and revoked only by those they concern |

Why the bounds are enough. Two handlers give every pairwise interleaving of a
held lock with each statement, and an orphaned request beside its retry; two
ids give batches that overlap in part; two paths give two versions of one
event; two installs, different labels of one id. The two moments of
`UsageIngest` are five days apart with a weekend between them, two days after
a month began: one event lies just inside the day at the first moment and
outside the day and the week at the second, the other is in the future at the
first. In `MachineReports` two files under two roots that hold the same
message, either of which is written before, between or after the reads, give
the deduplication between files, and one file that repeats it the
deduplication within a file; the constraint `FirstRunsApart` does not expand
states after two overlapping first runs, in which `OneMachineRow` claims
nothing. Two lines in a file give an old line and a new one, or a growth while
the first is being counted; the third is another file's, which may be skipped;
`OneNaming` keeps one of the symmetric assignments of sessions to files.
Three keys give a leaked key, a rotation's key and one issued while the
rotation runs; the fourth lets a second rotation follow. The two gateway runs
divide one module: requests interact only through the tables, tabs only
through cookies, so that agents need no tabs and the owner's side one request.

The remaining constraints leave out interleavings of actors that do not meet.
`OneWriterBesideConsole`: a console request reads the committed tables, and
whatever sequence of tables two ingestion requests produce, one after another
can; two overlap while no console request is made. `OtherPathInSummaries`: only
summaries look at paths, so one of the two events may be at the other path, of
both machines, and then beside summaries and one ingestion request only; that
is enough for one path of two machines and for a turn that `group_by=path`
leaves out beside one it shows. `OneReads` and
`ReadersBesideRequests`: until it posts, a collector only reads, so that two
that read at once (`MachineReports`: beside a request) are as good as one after
another. `OnePathEach`: the rows of one batch have one path, the next batch may
have the other. `RequestsBesideFirstLogin`: a request meets the tabs only in
the session cookie and a tab meets no key, so that requests are resolved beside
the first login or between logins, and other logins race without requests and
key changes. `FewLines`: files of two sessions share only the git roots, so
that two lines in all are enough for them. None of them is needed by a proof.

`MaxLines`, `MaxTotal`, `MaxMoves`, `MaxWrites`, `MaxKeys`, `MaxTime`,
`MaxLogins` and `MaxSecret` are the counters that are cut off. Invocations of
the collector overlap in `DeliveryOverlap` and `MachineReports` only; see below
for the other modules.

Deadlock is checked in every run.

### Fairness

`DeliveryRetry` and `PathStore` assume that a schedule keeps starting the
collector (README.md: "safe to re-run on a schedule (cron, systemd timer)"),
that a process which is neither killed nor refused takes its next step, that a
line under way is finished, and that failures stop at some point (a server that
refuses every request settles nothing). An abort that ends in the same state as
the step it replaces (an invocation with nothing to send, a scan after its last
file) is not counted as a failure in that assumption, which would otherwise
contradict the fairness of those steps. Nothing is assumed of the writing of new
rows. The other runs state safety only and assume nothing.

### Where the code and its comments differ

The three violated runs, described in `PROJECT.json` under `findings`:

1. `state.go` calls the state file an optimization; torn, it stops every later
   run before it posts anything.
2. `pathstore.go` promises that a re-run parses new lines only; a failure
   between the two transactions repeats the old ones.
3. `keyfile.go` promises that a rotation overwrites the file an earlier issue
   wrote; with another spelling of the handle it does not.

Seen while modelling, with no run of their own:

- `api_keys.sql` (50-52) rules out a key of the owner's; `issue-key owner`
  makes one. `Gateway` therefore has such a key, and shows that it is refused.
- `config.go` promises that every later call sees the same `install_id`; two
  overlapping first runs mint one each, and one of them reports its rows under
  an id that is forgotten (`overlapped`).
- `pathstore.go` (93) says that a directory is never resolved twice across
  runs; a run that fails before `SaveGitRoots` has kept its votes and lost its
  cache, and the next asks git again, which may answer differently.
- Two overlapping scans count votes twice, and the later `SaveGitRoots`
  replaces the earlier one's roots; `CachedForEver` and `VotesMatchOffsets` are
  stated for one invocation at a time.
- Two overlapping rotations of one handle can revoke each other's new key and
  strand the caller; a rotation that dies, or meets a revocation by hand,
  between the disabling and `writeKeyFile` leaves a dead key in the file.
- `ensureKeyResolver`'s comment says that a developer's edits are not
  clobbered, but any content other than the current one is overwritten.

The one hazard in `PROJECT.json` without a property is the overlap of two
scans (`collector.go:229`): nothing holds of it but the types.

## Proofs

All theorems hold for every value of the constants that satisfies the modules'
named assumptions: distinct sentinels (`NoRow`, `NoRequest`, ...), finitely
many ids, files and directories, `HandleOf \in [Name -> Handle]`, bounds that
are naturals, kinds of credentials that do not overlap. The console's
theorems also assume that token counts are naturals (they are what Claude Code
counted; the server takes them as they come, and a negative one would let a
longer range have the smaller total), that the clock is at least a week past
day 0, which starts a year no earlier than 2000 (no range starts before
`lifetime` does), and that no filter looks like another. The collector's assume that
the host names and the files are finite sequences. Six theorems assume
more in their statements, as said below: invocations one after another, and
nothing half done.

*UsageIngest.* `TypeCorrect` is inductive by itself. The other invariants are
not: a handler about to insert must already have written its labels, and a
handler about to commit must still know exactly which of its ids are new.
`IngestInv` adds `Labelled` and `UpsertsDone` (past its upserts a handler's
machine and every scan root no longer on its `todo` have their rows, and it
leaves that stage with an empty `todo`; label rows are never deleted), and
`Locked` (only the writer is at `commit`, and its `fresh` set is what its batch
would add to the table as it is now). `CommitEffect` computes the table after a
commit; `CountsAddUp` then follows because the new ids are disjoint from the
stored ones. `Labels`, `Created` and `RowsNeverChange` follow from the same
invariant.

*CollectorDelivery.* `RunsTheServer` shows that each step of the composition
is a step of the server or leaves it alone, so that the server's invariants
carry over. `DeliveryInv` adds `Waiting` (the one handler an invocation waits
for serves the request it built) and `Acknowledged` (an invocation past its 201
has its whole batch in the table). From it follow `NothingLost` and, with
`RowsNeverChange`, the refinement
`ImplementsLedger`: `Commit` is a `Record`, the two halves of a save are
`Settle` steps, the rest stutters. For invocations one after another,
`NothingSentTwice` follows from `Unsent`: what an invocation holds between the
load and the POST is not listed, since only an invocation that is past its POST
writes the file.

*KeyLifecycle.* `KeyInv`: a rotation's key belongs to its handle (`OwnKey`);
whatever is older than it and unrevoked is still on its list while it revokes
(`Covered`; keys are only ever appended, so that nothing older can
appear after the list is made); what a finished one left is revoked
(`OlderRevoked`). `RotationKills` covers any number of overlapping invocations
that die anywhere. `RolesStay` needs types only. For undisturbed invocations
one after another and handles with one spelling each (`Orderly`; `KeyFileSpelling`
shows that two spellings break it), `FilesInv` says that an invocation's own key
is unexpired, not disabled and not about to be (`OwnKeySafe`), that what it is
about to disable is its handle's (`Pending`), and that a key file is bad only
between its rotation's first revocation and its write, and the script only
until that invocation has written it (`FileGood`). From it follow
`FilesNeverStale` and `RotationStrandsNobody`.

*PathStore.* Types (`Typed`, with the lines in hand a prefix's worth of lines)
hold however invocations overlap and fail, and so does `VotesAreNeverLost`: a
line behind a stored offset that touches a directory has had its turn
(`NoneSkipped`, which follows an invocation from the offset it read to the one
it stores: whatever others do to the offset meanwhile, it has passed the lines
it does not count), and the stored votes of a root are at least as many as the
lines that voted for it last (`EveryVoteStored`; `CastingStores` is the step
that matters). Overlaps and failures can therefore only count a line more than
once. No run checks it, as overlapping invocations have too many states.
For invocations one after another,
`CachedRootsAreFinal` rests on `Seeded`: what an invocation knows agrees with
every root that is stored, since it was seeded with them and never forgets;
hence it can only store the same root again, and a line's vote for a stored
directory is the stored root wherever git finds it now. `VotesAreOfLinesPassed`
also assumes that nothing fails between the two transactions (`~SplitFailures`;
`PathStoreSplit` shows that it must) and rests on `Positions`: an invocation
holds a prefix of a file, no shorter than the stored offset, and counts from
that offset. `AddVotesCounts` is the step that matters: the lines that become
counted are disjoint from those counted before, and as many vote for a root as
the tally adds. `CountedOnceIfWhole` adds up the roots: under the same
conditions `NoDoubleCount` holds, so that the failure `PathStoreSplit` finds
has no other cause but an overlap. `MajorityFound` is about the loop alone: after
each round it holds the smallest of the roots with the most votes among those
it has seen (`BestSoFar`, `RoundKeepsBest`), and every order meets every root.

*Gateway.* `Typed` is `TypeOK` with `StagesFit`, which ties a request's stage
to its surface and kind of credential; `ResolutionStep` describes what any step
of the resolution can do to its request, `RequestStep` what any step of the
system can do to any request, so that the later proofs need not look at the
twenty-odd actions again. From `InScope` (only an actor of the surface's role
passes a gate, and lists only keys in its scope) follow `SurfacesStayDisjoint`
and `KeysStayScoped`. `Screened` says that a request past its lookup carries a
credential that was good when it arrived or has become so, and that a good one
has been turned away only by a failure of its own resolution, which is noted as
it happens (`FailingEffect`) and kept until it is answered (`FaultsKept`); with `DeadForGood` (revoked, expired and
stale credentials stay dead) follow `DeadStaysOut` and `GoodGetsIn`. `LoginsSound`
says of every tab that a cookie it sent was of its own login (`OwnCookie`),
that its grant is the owner's (`GrantOfOwner`), that a code is redeemed with
its own verifier (`VerifierFits`) and that it fails for a recorded reason
(`FailsForReason`); `BrowserStep` reduces every step to one tab's or to
interference. From it follow `SessionsNameOwner`, `VerifiersMatch` and
`LoginsFailForReason`.

*MachineReports.* `NameInv` adds `SendersKnown` to `LabelCatchesUp`: every request
counts the names of all requests under way for its machine among those it may
find (`since`), so that whichever of them upserts next, the name it leaves is
one of them. `OneInv` adds `Minting`: unless two first
runs have overlapped, the invocation that mints an id is the only one, and
whatever id is known anywhere is the one in the configuration file; none is
known while the file has none or is torn. Hence `OneMachine`, for any number
of invocations, deaths between the truncation and the write included.
`ReportsInv` follows an id from a transcript to the table: what an invocation
has read holds each id once and under a root with a file that holds it
(`RunsFit`, `MachineOK`; `DeduplicatedOnce` is the loop, `ReadMore` the files
one after another), a request built from that is a request of `UsageIngest`
(`RequestOfRun`), and so are the handlers and the table (`ServerOK`,
`LabelsOK`). With it every step is a step of the ingestion or leaves it alone:
`ReportsAreIngestion` (`SpecReports => Spec`), which hands down its theorems.
`RowsAlwaysAttributed` and `ReportsTypeCorrect` are parts of the invariant.

*UsageConsole.* `ConsoleOnlyReads` shows that the composition is the ingestion
with stuttering, so that `IngestInv` and `WriteOnce` carry over
(`ConsoleKeepsRows`). `NamesKnown` says that rows waiting for their names are
of machines that have a row, which rests on `IngestInv` (an event's labels are
there before it) and on machines never being deleted; with it `RowsAreNamed`
holds although the grouped query and the lookup are two transactions.
`ConsoleInv` adds what the figures need. `TableInv` (`RangesContainRanges`): each
window in the table was counted over a part of what is listed in every later
one, since a later range starts no later (`RangesNest`), the table of events
only grows between two queries (`ListedGrows`), and totals only grow with the
set (`TotalsMonotone`). `BreakdownInv` (`BreakdownsAddUp`): the rows have
distinct keys and divide the events that are listed and not left out, and a sum
divides over the values of a key (`BreakdownParts`); together with what is left
out that is what was listed (`TotalsSplit`), and no row has more than the turns
its key names (`AccountsFor`). What was found once stays accounted for, since
events are only added (`StaysAccounted`). `FiguresFollow` relates a whole summary,
its narrower filters and the two tables (`FiguresAlwaysAgree`).
`ConsoleTypeCorrect` is the last part: sums and counts of finitely many turns are
naturals (`TotalsFigured`, `CountOf`), and every row names a machine that has
reported and carries the columns of its page (`BreakdownTypes`, `ListedTypes`).

*RecursionTheorems.* The sums of the community modules and the loops of
`MachineReports` and `PathStore` are recursive functions, which are chosen
among all that satisfy their equation; nothing is known of them until one is
shown to exist. The library's induction theorems cannot be instantiated here, so
each fact is proved by its smallest counterexample: a set of naturals has a
least element (`LeastNatural`) and a collection of subsets of a finite set has a
smallest one (`SmallestSubset`). `LoopExists` then gives loops their values round
by round, `SummingExists` and `SummingUnique` give sums theirs, and the usual
facts follow: an element taken out first, unions, monotonicity, division by a
key, renaming.

Only model-checked: the two liveness properties (`EventuallySettled`,
`EventuallyAllCounted`), which are beyond the prover. Every other property of a
passing run is also a theorem.

## Not modelled

- The JSON of transcript lines and the rule that names a row's actor: a line is
  what it contributes (an id, a directory, a session). The fallback to a
  session's cwd stores nothing: it is one of the paths that `BuildEvents` may
  choose.
- `last_seen_at` and the `label` of a scan root, which are written beside the
  host name; `source_type`, which has one value; the order of a breakdown's
  rows.
- A JWT's own expiry (the tables' keys expire, the issuer's keys rotate) and
  the JSON of a key set; a deployment without `oauth` settings (`configured()`);
  a callback without a code; the HTML of a failed login.
- Configuration, migrations, logging, request ids, the embedded console and
  API documentation (`spa.go`, the generated handlers), which keep no state of
  interest. Of the generated code the SQL statements are modelled where they
  are used. `Config.Validate` and the flags only choose constants.
- A commit that fails is taken as rolled back, which `InsertBatch` leaves to the
  SQLite driver. Two overlapping writers of the state file are exact; when a
  third writes over what they left, the file is taken as whole. The console's
  timestamps are compared as hours, not as the text SQLite stores.
- The web console (`web/src`), the smoke test, the client registration and
  `internal/tableisolation` (a linter of queries): clients and tools, without
  state of their own.

## Plan

The project was written in this order: ingestion, delivery with its ledger,
path store, keys; the proofs of these; actor resolution, owner session and
their composition with its proofs; console, pricing, machine reports; the git
root cache and the proofs of the path store; sums and loops, with the proofs
that rest on them (the console's figures, the rows' attribution, the majority).

Left to do: a theorem that says how far overlapping invocations of `PathStore`
can overcount, beside the one that says they lose nothing; key files under
invocations that overlap (`KeyLifecycle`), of which only `RotationKills` is known.
