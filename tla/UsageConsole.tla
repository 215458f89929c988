---------------------------- MODULE UsageConsole ----------------------------
(***************************************************************************)
(* The console's read side (internal/domain/usage/summary.go, service.go,  *)
(* repo.go, internal/transport/bff/usage_handler.go) beside the ingestion  *)
(* of UsageIngest.  A console request is one or more queries, and batches  *)
(* commit between them.  Times are hours.                                  *)
(***************************************************************************)
EXTENDS UsageIngest, Pricing, Integers, Sequences, FiniteSetsExt

CONSTANTS
  HostnameOf,   \* machines.hostname of each install (MachineReports lets it change)
  NoName,       \* no machines row, or not looked up yet
  Times,        \* bound on what the clock shows
  FirstWeekday, \* time.Weekday of day 0
  MonthStarts,  \* days that start a month
  YearStarts,   \* days that start a year
  Year2000,     \* the lifetime window's start
  Turn,         \* of each id: [created, actor, model, usage]
  NoFilter,
  Query         \* bound on what the console asks: [window, group, filter]

ASSUME NoNameAssumption == \A m \in Install : HostnameOf[m] # NoName
(* Day 0 starts a year, 2000 or later, and the clock is at least a week on. *)
ASSUME TimesAssumption == Times \subseteq Nat /\ Times # {} /\ \A t \in Times : t >= 7 * 24
ASSUME CalendarAssumption ==
  /\ FirstWeekday \in 0..6
  /\ MonthStarts \subseteq Nat /\ YearStarts \subseteq MonthStarts /\ 0 \in YearStarts
  /\ Year2000 \in Int /\ Year2000 <= 0
(* Token counts are counts; a turn may be stamped at any time. *)
ASSUME TurnAssumption ==
  \A id \in Id :
    /\ Turn[id].created \in Int
    /\ \A kind \in {"input", "output", "write", "read"} : Turn[id].usage[kind] \in Nat

VARIABLES
  clock,
  view  \* the console request being answered

consoleVars == <<clock, view>>
vars == <<serverVars, consoleVars>>

-----------------------------------------------------------------------------
(* Windows. *)

(* Seeded fault: the table is computed from its longest row up. *)
WindowsDescending == <<"lifetime", "year", "month", "week", "today", "24h", "5h">>

Windows == <<"5h", "24h", "today", "week", "month", "year", "lifetime">>

Day(t) == t \div 24

(* time.Weekday counts from Sunday; weeks start on Monday. *)
daysSinceMonday(d) == (((d + FirstWeekday) % 7) + 6) % 7

LastOf(days, d) == Max({e \in days : e <= d})

(* Every window ends at now, exclusive. *)
WindowStart(w, now) ==
  CASE w = "5h"       -> now - 5
    [] w = "24h"      -> now - 24
    [] w = "today"    -> 24 * Day(now)
    [] w = "week"     -> 24 * (Day(now) - daysSinceMonday(Day(now)))
    [] w = "month"    -> 24 * LastOf(MonthStarts, Day(now))
    [] w = "year"     -> 24 * LastOf(YearStarts, Day(now))
    [] w = "lifetime" -> Year2000

-----------------------------------------------------------------------------
(* Queries. *)

GroupBys == {"actor", "path", "machine"}

(* A filter names a machine, a scan root of a machine, both, or neither; a *)
(* scan root without ":" is malformed and matches nothing.                 *)
Filter == [machine : Install \cup {NoFilter},
           scanRoot : (Install \X ScanRoot) \cup {NoFilter, "malformed"}]
Unfiltered == [machine |-> NoFilter, scanRoot |-> NoFilter]

ASSUME FilterAssumption ==
  /\ NoFilter \notin Install \cup (Install \X ScanRoot) \cup {"malformed"}
  /\ "malformed" \notin Install \X ScanRoot

ASSUME QueryAssumption ==
  \A q \in Query :
    /\ \E i \in DOMAIN Windows : q.window = Windows[i]
    /\ q.group \in GroupBys /\ q.filter \in Filter

(* Seeded fault: a scan root is matched by its path alone. *)
MatchesPath(f, id) ==
  /\ f.machine = NoFilter \/ usageEvents[id].machine = f.machine
  /\ f.scanRoot # "malformed"
  /\ f.scanRoot # NoFilter => usageEvents[id].root = f.scanRoot[2]

Matches(f, id) ==
  /\ f.machine = NoFilter \/ usageEvents[id].machine = f.machine
  /\ f.scanRoot # "malformed"
  /\ f.scanRoot # NoFilter => <<usageEvents[id].machine, usageEvents[id].root>> = f.scanRoot

(* created_at is compared as SQLite stores timestamps; here, as hours. *)
ListEventsInWindow(w, f, now) ==
  {id \in Stored : /\ WindowStart(w, now) <= Turn[id].created /\ Turn[id].created < now
                   /\ Matches(f, id)}

TokensOf == [id \in Id |-> tokensFor(Turn[id].usage)]

(* IngestBatch computes the cost of a turn when it stores it. *)
CostOf == [id \in Id |-> CostForUsage(Turn[id].model, Turn[id].usage)]

Totals(ids) ==
  [turns  |-> Cardinality(ids),
   tokens |-> SumFunctionOnSet(TokensOf, ids),
   cost   |-> SumFunctionOnSet(CostOf, ids)]

(* Seeded fault: one path is one row, whichever machines collected it. *)
keyForPathAlone(g, id) ==
  CASE g = "machine" -> <<usageEvents[id].machine>>
    [] g = "path"    -> <<usageEvents[CHOOSE o \in Stored : usageEvents[o].path = usageEvents[id].path].machine,
                          usageEvents[id].path>>
    [] g = "actor"   -> <<usageEvents[id].machine, Turn[id].actor>>

keyFor(g, id) ==
  CASE g = "machine" -> <<usageEvents[id].machine>>
    [] g = "path"    -> <<usageEvents[id].machine, usageEvents[id].path>>
    [] g = "actor"   -> <<usageEvents[id].machine, Turn[id].actor>>

(* A session that never left its directory is no path of its own. *)
excludedFromBreakdown(g, id) == g = "path" /\ usageEvents[id].path = Turn[id].actor

(* The breakdown's order, by cost and then key, is left out. *)
Breakdown(ids, g) ==
  LET counted == {id \in ids : ~excludedFromBreakdown(g, id)}
  IN {[key |-> k, totals |-> Totals({id \in counted : keyFor(g, id) = k}), name |-> NoName] :
        k \in {keyFor(g, id) : id \in counted}}

ReportingInstalls(ids) == Cardinality({usageEvents[id].machine : id \in ids})

(* lifetime_cost and lifetime_tokens, collected_paths and collected_actors. *)
Lifetime(ids) ==
  [cost   |-> Totals(ids).cost,
   tokens |-> Totals(ids).tokens,
   paths  |-> Cardinality({usageEvents[id].path : id \in ids}),
   actors |-> Cardinality({Turn[id].actor : id \in ids})]

(* The join of machines and usage_events of ListMachineSummaries. *)
MachineSummaries ==
  {[key |-> <<m>>, totals |-> Lifetime({id \in Stored : usageEvents[id].machine = m}),
    name |-> HostnameOf[m]] : m \in machines}

(* A row without a machines row stays labelled with its install id. *)
WithHostnames(rows) ==
  {IF row.key[1] \in machines THEN [row EXCEPT !.name = HostnameOf[row.key[1]]] ELSE row : row \in rows}

-----------------------------------------------------------------------------
(* A console request: one is enough, for requests only read. *)

NoView == [at |-> "idle", op |-> "none", now |-> 0, group |-> "actor", filter |-> Unfiltered,
           totals |-> Totals({}), installs |-> 0, rows |-> {}, table |-> <<>>]

Show(v) ==
  /\ view' = v
  /\ UNCHANGED <<serverVars, clock>>

(* GetUsageSummary: the events first, *)
Summary(q) ==
  /\ view.at = "idle"
  /\ LET ids == ListEventsInWindow(q.window, q.filter, clock)
         rows == Breakdown(ids, q.group)
     IN Show([NoView EXCEPT !.at = IF rows = {} THEN "done" ELSE "hostnames",
                            !.op = "summary", !.group = q.group,
                            !.totals = Totals(ids), !.installs = ReportingInstalls(ids),
                            !.rows = rows])

(* then the host names, for the rows that there are. *)
MachineHostnames ==
  /\ view.at = "hostnames"
  /\ Show([view EXCEPT !.at = "done", !.rows = WithHostnames(@)])

(* GetUsageScanRoots reads the scan roots, then the host names. *)
ScanRoots ==
  /\ view.at = "idle"
  /\ Show([NoView EXCEPT !.at = IF scanRoots = {} THEN "done" ELSE "hostnames",
                         !.op = "roots",
                         !.rows = {[key |-> k, totals |-> Totals({}), name |-> NoName] : k \in scanRoots}])

(* GetMachines is one query. *)
GetMachines ==
  /\ view.at = "idle"
  /\ Show([NoView EXCEPT !.at = "done", !.op = "machines", !.rows = MachineSummaries])

(* GetUsageWindows: one now, and a query for each row of the table. *)
BeginWindows(f) ==
  /\ view.at = "idle"
  /\ Show([NoView EXCEPT !.at = "windows", !.op = "windows", !.now = clock, !.filter = f])

NextWindow ==
  /\ view.at = "windows"
  /\ LET n == Len(view.table) + 1
         ids == ListEventsInWindow(Windows[n], view.filter, view.now)
     IN Show([view EXCEPT !.at = IF n = Len(Windows) THEN "done" ELSE "windows",
                          !.table = Append(@, Totals(ids))])

(* Seeded fault: what was read so far is answered. *)
FailPartly ==
  /\ view.at \in {"hostnames", "windows"}
  /\ Show([view EXCEPT !.at = "failed"])

(* A query meets the lock of a committing transaction, or fails: 500. *)
ReadFails ==
  /\ view.at \in {"hostnames", "windows"}
  /\ Show([NoView EXCEPT !.at = "failed"])

EndView == view.at \in {"done", "failed"} /\ Show(NoView)

Console ==
  \/ \E q \in Query : Summary(q) \/ BeginWindows(q.filter)
  \/ MachineHostnames \/ ScanRoots \/ GetMachines \/ NextWindow \/ ReadFails \/ EndView

-----------------------------------------------------------------------------
(* Ingestion goes on meanwhile.  Reads hold no lock between queries. *)

Ingest ==
  /\ \/ \E h \in Handler, q \in Request : WellFormed(q) /\ Accept(h, q)
     \/ \E h \in Handler : Serve(h) \/ Finish(h)
  /\ UNCHANGED consoleVars

RestartServer ==
  /\ Restart
  /\ view' = NoView
  /\ UNCHANGED clock

Tick ==
  /\ clock' \in {t \in Times : t > clock}
  /\ UNCHANGED <<serverVars, view>>

InitConsole ==
  /\ Init
  /\ clock = Min(Times)
  /\ view = NoView

NextConsole ==
  Ingest \/ RestartServer \/ Console \/ Tick

SpecConsole == InitConsole /\ [][NextConsole]_vars

-----------------------------------------------------------------------------
Figured == [turns : Nat, tokens : Nat, cost : Nat]
LifetimeFigured == [cost : Nat, tokens : Nat, paths : Nat, actors : Nat]

(* The columns of a row: the machine page has its own. *)
RowTypeOK(row, op) ==
  /\ row.key[1] \in Install
  /\ row.name \in {HostnameOf[row.key[1]], NoName}
  /\ row.totals \in IF op = "machines" THEN LifetimeFigured ELSE Figured

ConsoleTypeOK ==
  /\ clock \in Times
  /\ view.at \in {"idle", "hostnames", "windows", "done", "failed"}
  /\ view.op \in {"none", "summary", "roots", "machines", "windows"}
  /\ view.group \in GroupBys /\ view.filter \in Filter
  /\ view.totals \in Figured /\ view.installs \in Nat
  /\ \A row \in view.rows : RowTypeOK(row, view.op)
  /\ view.table \in Seq(Figured) /\ Len(view.table) <= Len(Windows)
  /\ view.at = "windows" => view.now \in Times
  \* an error is answered with nothing else
  /\ view.at = "failed" => view.rows = {} /\ view.table = <<>>

AtMost(t, u) == t.turns <= u.turns /\ t.tokens <= u.tokens /\ t.cost <= u.cost

(* The pairs of ranges of which the second contains the first at all times. *)
Nested == {<<"5h", "24h">>, <<"24h", "lifetime">>, <<"today", "week">>, <<"today", "month">>,
             <<"month", "year">>, <<"year", "lifetime">>, <<"week", "lifetime">>}

(* Service.Windows makes seven queries for one table, and batches commit
   between them.  No row is nevertheless less than a row whose range it always
   contains: these are read shortest first, and events are only added.  (The
   exception, 24h and today, is in the order the table is read in.) *)
WindowsNest ==
  \A i, j \in 1..Len(view.table) :
    <<Windows[i], Windows[j]>> \in Nested => AtMost(view.table[i], view.table[j])

(* "Never show a blank label" (service.go): every row of a finished summary,
   scan root list or machine list has its machine's host name, although the
   host names are a second query: the machine's row is there before its
   events and scan roots are, and the host names are read after them. *)
EveryRowNamed ==
  view.at = "done" => \A row \in view.rows : row.name = HostnameOf[row.key[1]]

(* What a row may count: turns of the machine it names and, by its group, of
   the actor or the directory it names. *)
TurnsOf(group, key) ==
  {id \in Stored :
     /\ usageEvents[id].machine = key[1]
     /\ group = "actor" => Turn[id].actor = key[2]
     /\ group = "path" => usageEvents[id].path = key[2] /\ key[2] # Turn[id].actor}

(* What no row may count: group_by=path shows no session whose path is its
   actor's name. *)
LeftOut(group) == {id \in Stored : group = "path" /\ usageEvents[id].path = Turn[id].actor}

(* A breakdown and the totals beside it are of the same turns: its rows and
   some turns that group_by=path leaves out add up to the totals, and have the
   reporting installs between them.  No row has more than the turns of its own
   machine, directory or actor, however their names collide (keyFor). *)
BreakdownAddsUp ==
  view.op = "summary" =>
    \E out \in SUBSET LeftOut(view.group) :
      /\ \A f \in {"turns", "tokens", "cost"} :
           SumFunction([row \in view.rows |-> row.totals[f]]) + Totals(out)[f] = view.totals[f]
      /\ view.installs =
           Cardinality({row.key[1] : row \in view.rows} \cup {usageEvents[id].machine : id \in out})
      /\ \A row \in view.rows : AtMost(row.totals, Totals(TurnsOf(view.group, row.key)))

Sum(totals) ==
  [f \in {"turns", "tokens", "cost"} |-> SumFunction([i \in DOMAIN totals |-> totals[i][f]])]

(* The console's figures agree with each other whatever has been stored so
   far: the filters its dropdowns offer, machines and scan roots, each divide
   the totals without loss or overlap, and the machine page has more than the
   lifetime row only by events stamped in the future or before 2000. *)
FiguresAgree ==
  view.at = "idle" =>
  LET lifetime(f) == Totals(ListEventsInWindow("lifetime", f, clock))
      byMachine == [m \in machines |-> lifetime([Unfiltered EXCEPT !.machine = m])]
      byRoot == [s \in scanRoots |-> lifetime([Unfiltered EXCEPT !.scanRoot = s])]
      page(f) == SumFunction([row \in MachineSummaries |-> row.totals[f]])
      odd == {id \in Stored : Turn[id].created >= clock \/ Turn[id].created < Year2000}
  IN /\ Sum(byMachine) = lifetime(Unfiltered)
     /\ Sum(byRoot) = lifetime(Unfiltered)
     /\ \A f \in {"cost", "tokens"} : page(f) = lifetime(Unfiltered)[f] + Totals(odd)[f]
     /\ \A m \in machines : byMachine[m].tokens > 0 => byMachine[m].cost > 0
=============================================================================
