------------------------- MODULE UsageConsoleProofs -------------------------
(***************************************************************************)
(* Proofs about UsageConsole, for every calendar, clock, set of turns and  *)
(* set of queries: the console beside the ingestion is still the ingestion *)
(* of UsageIngest, no row of its answers is without a name, and its        *)
(* figures add up within an answer and between answers.                    *)
(***************************************************************************)
EXTENDS UsageConsole, UsageIngestProofs, RecursionTheorems

USE DEF vars, consoleVars, tables, serverVars

(* Records keep their fields. *)
HasFields(v, fields) == DOMAIN v = fields /\ v = [f \in fields |-> v[f]]

(* What a turn costs. *)
LEMMA Prices ==
  ASSUME NEW model
  PROVE  \A kind \in {"input", "output", "write", "read"} : RateOf(model)[kind] \in Nat \ {0}
<1>1. modelFamily(model) \in {"fable", "opus", "opus_legacy", "sonnet", "haiku", "haiku_legacy"}
  BY DEF modelFamily
<1>2. RateOf(model) = pricingTable[modelFamily(model)]
  BY <1>1 DEF RateOf, pricingTable
<1> QED
  BY <1>1, <1>2 DEF pricingTable, rate

LEMMA Positive ==
  ASSUME NEW m \in Nat, NEW n \in Nat \ {0}
  PROVE  m * n \in Nat /\ (m > 0 => m * n > 0)
OBVIOUS

LEMMA Costs ==
  ASSUME NEW id \in Id
  PROVE  /\ tokensFor(Turn[id].usage) \in Nat
         /\ CostForUsage(Turn[id].model, Turn[id].usage) \in Nat
         /\ tokensFor(Turn[id].usage) > 0 => CostForUsage(Turn[id].model, Turn[id].usage) > 0
<1> DEFINE u == Turn[id].usage
           r == RateOf(Turn[id].model)
<1>1. u.input \in Nat /\ u.output \in Nat /\ u.write \in Nat /\ u.read \in Nat
  BY TurnAssumption
<1>2. r.input \in Nat \ {0} /\ r.output \in Nat \ {0} /\ r.write \in Nat \ {0} /\ r.read \in Nat \ {0}
  BY Prices
<1>3. CostForUsage(Turn[id].model, u) = u.input * r.input + u.output * r.output + u.read * r.read + u.write * r.write
  BY DEF CostForUsage
<1>4. tokensFor(u) = u.input + u.output + u.read + u.write
  BY DEF tokensFor
<1> HIDE DEF u, r
<1> DEFINE a == u.input * r.input
           b == u.output * r.output
           c == u.read * r.read
           d == u.write * r.write
<1>5. /\ a \in Nat /\ (u.input > 0 => a > 0) /\ b \in Nat /\ (u.output > 0 => b > 0)
      /\ c \in Nat /\ (u.read > 0 => c > 0) /\ d \in Nat /\ (u.write > 0 => d > 0)
  BY <1>1, <1>2, Positive
<1>6. CostForUsage(Turn[id].model, u) = a + b + c + d
  BY <1>3
<1> HIDE DEF a, b, c, d
<1>7. tokensFor(u) \in Nat /\ a + b + c + d \in Nat /\ (tokensFor(u) > 0 => a + b + c + d > 0)
  BY <1>1, <1>4, <1>5
<1> QED
  BY <1>6, <1>7 DEF u

(* The figures of a set of turns are sums over it. *)
Figures == {"turns", "tokens", "cost"}

Figure == [turns |-> [id \in Id |-> 1], tokens |-> TokensOf, cost |-> CostOf]

LEMMA FigureNat == \A f \in Figures, id \in Id : Figure[f][id] \in Nat
BY Costs DEF Figures, Figure, TokensOf, CostOf

LEMMA TotalsAreSums ==
  ASSUME NEW ids \in SUBSET Id
  PROVE  /\ HasFields(Totals(ids), Figures)
         /\ \A f \in Figures : Totals(ids)[f] = SumFunctionOnSet(Figure[f], ids) /\ Totals(ids)[f] \in Nat
<1>1. IsFiniteSet(ids)
  BY IdAssumption, FS_Subset
<1>2. Totals(ids).turns = SumFunctionOnSet(Figure.turns, ids)
  <2>1. \A id \in ids : Figure.turns[id] = 1
    BY DEF Figure
  <2> QED
    BY <1>1, <2>1, SumOfOnes DEF Totals
<1>3. Totals(ids).tokens = SumFunctionOnSet(Figure.tokens, ids)
  BY DEF Totals, Figure
<1>4. Totals(ids).cost = SumFunctionOnSet(Figure.cost, ids)
  BY DEF Totals, Figure
<1>5. ASSUME NEW f \in Figures PROVE SumFunctionOnSet(Figure[f], ids) \in Nat
  BY <1>1, FigureNat, SumNat
<1>6. HasFields(Totals(ids), Figures)
  BY DEF HasFields, Totals, Figures
<1> QED
  BY <1>2, <1>3, <1>4, <1>5, <1>6 DEF Figures

LEMMA TotalsSplit ==
  ASSUME NEW ids \in SUBSET Id, NEW part \in SUBSET ids, NEW f \in Figures
  PROVE  Totals(ids)[f] = Totals(part)[f] + Totals(ids \ part)[f]
<1>1. PICK rest : rest = ids \ part
  OBVIOUS
<1>2. IsFiniteSet(part) /\ IsFiniteSet(rest)
  BY <1>1, IdAssumption, FS_Subset
<1>3. part \cap rest = {} /\ part \cup rest = ids /\ rest \in SUBSET Id
  BY <1>1
<1>4. \A id \in part \cup rest : Figure[f][id] \in Nat
  BY <1>3, FigureNat
<1>5. SumFunctionOnSet(Figure[f], ids) = SumFunctionOnSet(Figure[f], part) + SumFunctionOnSet(Figure[f], rest)
  BY <1>2, <1>3, <1>4, SumUnion
<1> QED
  BY <1>1, <1>3, <1>5, TotalsAreSums

LEMMA TotalsMonotone ==
  ASSUME NEW more \in SUBSET Id, NEW ids \in SUBSET more
  PROVE  AtMost(Totals(ids), Totals(more))
<1>1. IsFiniteSet(more)
  BY IdAssumption, FS_Subset
<1>2. ASSUME NEW f \in Figures PROVE Totals(ids)[f] <= Totals(more)[f]
  <2>1. SumFunctionOnSet(Figure[f], ids) <= SumFunctionOnSet(Figure[f], more)
    BY <1>1, FigureNat, SumMonotone
  <2> QED
    BY <2>1, TotalsAreSums
<1> QED
  BY <1>2 DEF AtMost, Figures

-----------------------------------------------------------------------------
(* Ranges. *)
LEMMA StartIn ==
  ASSUME NEW days \in SUBSET Nat, 0 \in days, NEW d \in Nat
  PROVE  /\ LastOf(days, d) \in days /\ LastOf(days, d) <= d
         /\ \A e \in days : e <= d => e <= LastOf(days, d)
<1> DEFINE past == {e \in days : e <= d}
<1>1. past \in SUBSET Nat /\ past # {} /\ \A e \in past : e <= d
  <2>1. 0 \in past
    OBVIOUS
  <2>2. past \in SUBSET Nat
    OBVIOUS
  <2> QED
    BY <2>1, <2>2
<1>2. Max(past) \in past /\ \A e \in past : e <= Max(past)
  <2> HIDE DEF past
  <2> QED
    BY <1>1, GreatestNatural
<1> QED
  BY <1>2 DEF LastOf

LEMMA RangesNest ==
  ASSUME NEW now \in Times, NEW p \in Nested
  PROVE  /\ WindowStart(p[2], now) <= WindowStart(p[1], now)
         /\ WindowStart(p[1], now) \in Int /\ WindowStart(p[2], now) \in Int
<1> DEFINE d == Day(now)
           month == LastOf(MonthStarts, d)
           year == LastOf(YearStarts, d)
           back == daysSinceMonday(d)
<1>1. now \in Nat /\ now >= 7 * 24 /\ Year2000 \in Int /\ Year2000 <= 0
  BY TimesAssumption, CalendarAssumption
<1>2. d \in Nat /\ 24 * d <= now /\ now < 24 * d + 24
  BY <1>1 DEF Day
<1>3. back \in 0..6
  BY <1>2, CalendarAssumption DEF daysSinceMonday
<1>4. month \in Nat /\ month <= d /\ year \in Nat /\ year <= month
  <2>1. MonthStarts \in SUBSET Nat /\ YearStarts \in SUBSET Nat /\ 0 \in MonthStarts /\ 0 \in YearStarts
        /\ YearStarts \subseteq MonthStarts
    BY CalendarAssumption
  <2>2. month \in Nat /\ month <= d /\ \A e \in MonthStarts : e <= d => e <= month
    BY <1>2, <2>1, StartIn
  <2>3. year \in YearStarts /\ year <= d
    BY <1>2, <2>1, StartIn
  <2> QED
    BY <2>1, <2>2, <2>3
<1>5. /\ WindowStart("5h", now) = now - 5 /\ WindowStart("24h", now) = now - 24
      /\ WindowStart("today", now) = 24 * d /\ WindowStart("week", now) = 24 * (d - back)
      /\ WindowStart("month", now) = 24 * month /\ WindowStart("year", now) = 24 * year
      /\ WindowStart("lifetime", now) = Year2000
  BY DEF WindowStart
<1> HIDE DEF d, month, year, back
<1> QED
  BY <1>1, <1>2, <1>3, <1>4, <1>5 DEF Nested

-----------------------------------------------------------------------------
(* The server does not notice the console. *)
LEMMA ConsoleOnlyReads == [NextConsole]_vars => [Next]_serverVars
<1> SUFFICES ASSUME [NextConsole]_vars PROVE [Next]_serverVars
  OBVIOUS
<1>1. CASE Ingest
  BY <1>1 DEF Ingest, Next
<1>2. CASE RestartServer
  BY <1>2 DEF RestartServer, Next
<1>3. CASE Console
  <2>1. ASSUME NEW STATE v, Show(v) PROVE UNCHANGED serverVars
    BY <2>1 DEF Show
  <2> QED
    BY <1>3, <2>1 DEF Console, Summary, BeginWindows, MachineHostnames, ScanRoots, GetMachines,
                      NextWindow, ReadFails, EndView
<1>4. CASE Tick \/ UNCHANGED vars
  BY <1>4 DEF Tick
<1> QED
  BY <1>1, <1>2, <1>3, <1>4 DEF NextConsole

(* A stored event keeps its row, its machine and its scan root (WriteOnce of
   the ingestion), whatever the console asks meanwhile. *)
THEOREM ConsoleKeepsRows == SpecConsole => WriteOnce /\ []IngestInv
<1>1. SpecConsole => Spec
  BY ConsoleOnlyReads, PTL DEF SpecConsole, InitConsole, Spec
<1> QED
  BY <1>1, RowsNeverChange, IngestInvariant, PTL

-----------------------------------------------------------------------------
(* Every row is named. *)
ViewFields == {"at", "op", "now", "group", "filter", "totals", "installs", "rows", "table"}
RowFields == {"key", "totals", "name"}

RootsHaveMachines == \A k \in scanRoots : k[1] \in machines

(* Rows that wait for their names are of machines that have one. *)
NamesKnown ==
  /\ HasFields(view, ViewFields)
  /\ \A row \in view.rows : HasFields(row, RowFields)
  /\ view.at = "hostnames" => \A row \in view.rows : row.key[1] \in machines
  /\ view.at = "windows" => view.rows = {}
  /\ EveryRowNamed

LEMMA RootStep ==
  ASSUME IngestInv, RootsHaveMachines, [Next]_serverVars
  PROVE  RootsHaveMachines' /\ machines \subseteq machines'
<1>1. ASSUME NEW h \in Handler, NEW s \in ScanRoot, UpsertScanRoot(h, s)
      PROVE  RootsHaveMachines' /\ machines \subseteq machines'
  <2>1. hreq[h].install \in machines
    BY <1>1 DEF UpsertScanRoot, IngestInv, Labelled
  <2> QED
    BY <1>1, <2>1 DEF UpsertScanRoot, RootsHaveMachines
<1>2. ASSUME NEW h \in Handler, UpsertMachine(h) PROVE RootsHaveMachines' /\ machines \subseteq machines'
  BY <1>2 DEF UpsertMachine, RootsHaveMachines
<1>3. ASSUME UNCHANGED <<machines, scanRoots>> PROVE RootsHaveMachines' /\ machines \subseteq machines'
  BY <1>3 DEF RootsHaveMachines
<1>4. ASSUME NEW h \in Handler, NEW q, Accept(h, q) PROVE UNCHANGED <<machines, scanRoots>>
  BY <1>4 DEF Accept
<1>5. ASSUME NEW h \in Handler,
             IngestNothing(h) \/ InsertBatch(h) \/ Commit(h) \/ Fail(h) \/ Finish(h)
      PROVE  UNCHANGED <<machines, scanRoots>>
  BY <1>5 DEF IngestNothing, InsertBatch, Commit, Fail, Finish
<1>6. CASE Restart \/ UNCHANGED serverVars
  BY <1>3, <1>6 DEF Restart
<1> QED
  BY <1>1, <1>2, <1>3, <1>4, <1>5, <1>6 DEF Next, Serve

LEMMA NoViewFields == HasFields(NoView, ViewFields) /\ NoView.rows = {} /\ NoView.at = "idle"
BY DEF HasFields, ViewFields, NoView

(* The rows of a breakdown are of machines of stored events. *)
LEMMA BreakdownRows ==
  ASSUME IngestInv, NEW g \in GroupBys, NEW ids \in SUBSET Stored, NEW row \in Breakdown(ids, g)
  PROVE  HasFields(row, RowFields) /\ row.key[1] \in machines
<1> DEFINE counted == {id \in ids : ~excludedFromBreakdown(g, id)}
           rowOf(k) == [key |-> k, totals |-> Totals({id \in counted : keyFor(g, id) = k}), name |-> NoName]
<1>1. row \in {rowOf(k) : k \in {keyFor(g, id) : id \in counted}}
  BY DEF Breakdown
<1>2. PICK k \in {keyFor(g, id) : id \in counted} : row = rowOf(k)
  BY <1>1
<1>3. PICK id \in ids : k = keyFor(g, id)
  OBVIOUS
<1>4. k[1] = usageEvents[id].machine
  BY <1>3 DEF GroupBys, keyFor
<1>5. usageEvents[id].machine \in machines
  BY DEF IngestInv, EventsHaveLabels
<1> QED
  BY <1>2, <1>4, <1>5 DEF HasFields, RowFields

LEMMA NamesInduction ==
  /\ InitConsole => NamesKnown /\ RootsHaveMachines
  /\ IngestInv /\ NamesKnown /\ RootsHaveMachines /\ [NextConsole]_vars
       => (NamesKnown /\ RootsHaveMachines)'
<1>1. InitConsole => NamesKnown /\ RootsHaveMachines
  BY NoViewFields DEF InitConsole, Init, NamesKnown, RootsHaveMachines, EveryRowNamed
<1>2. ASSUME IngestInv, NamesKnown, RootsHaveMachines, [NextConsole]_vars
      PROVE  (NamesKnown /\ RootsHaveMachines)'
  <2>1. RootsHaveMachines' /\ machines \subseteq machines'
    BY <1>2, ConsoleOnlyReads, RootStep
  <2> SUFFICES NamesKnown'
    BY <2>1
  <2>2. ASSUME UNCHANGED view PROVE NamesKnown'
    BY <1>2, <2>1, <2>2 DEF NamesKnown, EveryRowNamed
  <2>3. ASSUME NEW STATE v, Show(v), HasFields(v, ViewFields), \A row \in v.rows : HasFields(row, RowFields),
               v.at = "hostnames" => \A row \in v.rows : row.key[1] \in machines,
               v.at = "windows" => v.rows = {},
               v.at = "done" => \A row \in v.rows : row.name = HostnameOf[row.key[1]]
        PROVE  NamesKnown'
    BY <2>3 DEF Show, NamesKnown, EveryRowNamed
  <2>4. ASSUME NEW q \in Query, Summary(q) PROVE NamesKnown'
    <3> DEFINE ids == ListEventsInWindow(q.window, q.filter, clock)
               rows == Breakdown(ids, q.group)
               v == [NoView EXCEPT !.at = IF rows = {} THEN "done" ELSE "hostnames",
                                   !.op = "summary", !.group = q.group,
                                   !.totals = Totals(ids), !.installs = ReportingInstalls(ids),
                                   !.rows = rows]
    <3>1. Show(v)
      BY <2>4 DEF Summary
    <3>2. ids \subseteq Stored
      BY DEF ListEventsInWindow
    <3>3. \A row \in rows : HasFields(row, RowFields) /\ row.key[1] \in machines
      <4> HIDE DEF ids
      <4> QED
        BY <1>2, <3>2, BreakdownRows, QueryAssumption
    <3> HIDE DEF ids, rows
    <3>4. HasFields(v, ViewFields) /\ v.rows = rows /\ v.at = (IF rows = {} THEN "done" ELSE "hostnames")
      BY NoViewFields DEF HasFields, ViewFields
    <3> HIDE DEF v
    <3> QED
      BY <2>3, <3>1, <3>3, <3>4
  <2>5. CASE MachineHostnames
    <3> DEFINE rows == WithHostnames(view.rows)
               v == [view EXCEPT !.at = "done", !.rows = rows]
    <3>1. Show(v) /\ view.at = "hostnames"
      BY <2>5 DEF MachineHostnames
    <3>2. \A row \in rows : HasFields(row, RowFields) /\ row.name = HostnameOf[row.key[1]]
      <4> SUFFICES ASSUME NEW row \in rows
                   PROVE  HasFields(row, RowFields) /\ row.name = HostnameOf[row.key[1]]
        OBVIOUS
      <4>1. PICK old \in view.rows : row = IF old.key[1] \in machines
                                             THEN [old EXCEPT !.name = HostnameOf[old.key[1]]] ELSE old
        BY DEF WithHostnames
      <4>2. old.key[1] \in machines /\ HasFields(old, RowFields)
        BY <1>2, <3>1 DEF NamesKnown
      <4> QED
        BY <4>1, <4>2 DEF HasFields, RowFields
    <3> HIDE DEF rows
    <3>3. HasFields(v, ViewFields) /\ v.rows = rows /\ v.at = "done"
      BY <1>2 DEF HasFields, ViewFields, NamesKnown
    <3> HIDE DEF v
    <3> QED
      BY <2>3, <3>1, <3>2, <3>3
  <2>6. CASE ScanRoots
    <3> DEFINE rows == {[key |-> k, totals |-> Totals({}), name |-> NoName] : k \in scanRoots}
               v == [NoView EXCEPT !.at = IF scanRoots = {} THEN "done" ELSE "hostnames",
                                   !.op = "roots", !.rows = rows]
    <3>1. Show(v)
      BY <2>6 DEF ScanRoots
    <3>2. ASSUME NEW row \in rows PROVE HasFields(row, RowFields) /\ row.key[1] \in machines
      <4>1. PICK k \in scanRoots : row = [key |-> k, totals |-> Totals({}), name |-> NoName]
        OBVIOUS
      <4> QED
        BY <1>2, <4>1 DEF HasFields, RowFields, RootsHaveMachines
    <3>3. scanRoots = {} => rows = {}
      OBVIOUS
    <3> HIDE DEF rows
    <3>4. HasFields(v, ViewFields) /\ v.rows = rows /\ v.at = (IF scanRoots = {} THEN "done" ELSE "hostnames")
      BY NoViewFields DEF HasFields, ViewFields
    <3> HIDE DEF v
    <3> QED
      BY <2>3, <3>1, <3>2, <3>3, <3>4
  <2>7. CASE GetMachines
    <3> DEFINE v == [NoView EXCEPT !.at = "done", !.op = "machines", !.rows = MachineSummaries]
    <3>1. Show(v)
      BY <2>7 DEF GetMachines
    <3>2. ASSUME NEW row \in MachineSummaries
          PROVE  HasFields(row, RowFields) /\ row.name = HostnameOf[row.key[1]]
      <4>1. PICK m \in machines : row = [key |-> <<m>>, name |-> HostnameOf[m],
              totals |-> Lifetime({id \in Stored : usageEvents[id].machine = m})]
        BY DEF MachineSummaries
      <4> QED
        BY <4>1 DEF HasFields, RowFields
    <3>3. HasFields(v, ViewFields) /\ v.rows = MachineSummaries /\ v.at = "done"
      BY NoViewFields DEF HasFields, ViewFields
    <3> HIDE DEF v
    <3> QED
      BY <2>3, <3>1, <3>2, <3>3
  <2>8. ASSUME NEW q \in Query, BeginWindows(q.filter) PROVE NamesKnown'
    <3> DEFINE v == [NoView EXCEPT !.at = "windows", !.op = "windows", !.now = clock, !.filter = q.filter]
    <3>1. Show(v)
      BY <2>8 DEF BeginWindows
    <3>2. HasFields(v, ViewFields) /\ v.rows = {} /\ v.at = "windows"
      BY NoViewFields DEF HasFields, ViewFields
    <3> HIDE DEF v
    <3> QED
      BY <2>3, <3>1, <3>2
  <2>9. CASE NextWindow
    <3> DEFINE t == Append(view.table,
                           Totals(ListEventsInWindow(Windows[Len(view.table) + 1], view.filter, view.now)))
               at == IF Len(view.table) + 1 = Len(Windows) THEN "done" ELSE "windows"
               v == [view EXCEPT !.at = at, !.table = t]
    <3>1. Show(v) /\ view.at = "windows"
      BY <2>9 DEF NextWindow
    <3>2. at \in {"done", "windows"}
      OBVIOUS
    <3> HIDE DEF t, at
    <3>3. HasFields(v, ViewFields) /\ v.rows = view.rows /\ v.at = at
      BY <1>2 DEF HasFields, ViewFields, NamesKnown
    <3> HIDE DEF v
    <3> QED
      BY <1>2, <2>3, <3>1, <3>2, <3>3 DEF NamesKnown
  <2>10. CASE ReadFails
    <3> DEFINE v == [NoView EXCEPT !.at = "failed"]
    <3>1. Show(v)
      BY <2>10 DEF ReadFails
    <3>2. HasFields(v, ViewFields) /\ v.rows = {} /\ v.at = "failed"
      BY NoViewFields DEF HasFields, ViewFields
    <3> HIDE DEF v
    <3> QED
      BY <2>3, <3>1, <3>2
  <2>11. ASSUME view' = NoView PROVE NamesKnown'
    BY <2>11, NoViewFields DEF NamesKnown, EveryRowNamed
  <2>12. CASE EndView \/ RestartServer
    BY <2>11, <2>12 DEF EndView, Show, RestartServer
  <2>13. CASE Ingest \/ Tick \/ UNCHANGED vars
    BY <2>2, <2>13 DEF Ingest, Tick
  <2> QED
    BY <1>2, <2>1, <2>4, <2>5, <2>6, <2>7, <2>8, <2>9, <2>10, <2>12, <2>13 DEF NextConsole, Console
<1> QED
  BY <1>1, <1>2

\* The property UsageConsole!EveryRowNamed: every row the console shows carries
\* the hostname of its machine (attachMachineHostnames), whatever batches are
\* committed between the grouped query and the lookup of the hostnames.
THEOREM RowsAreNamed == SpecConsole => []EveryRowNamed
<1>1. SpecConsole => []IngestInv
  BY ConsoleKeepsRows
<1>2. NamesKnown => EveryRowNamed
  BY DEF NamesKnown
<1> QED
  BY <1>1, <1>2, NamesInduction, PTL DEF SpecConsole

-----------------------------------------------------------------------------
(* What a step does to the console's request. *)
NoTable == view.table = <<>> /\ view.filter = Unfiltered

NoTotals == view'.totals = Totals({}) /\ view'.installs = 0

Summarised(q) ==
  LET ids == ListEventsInWindow(q.window, q.filter, clock)
  IN /\ view'.at \in {"hostnames", "done"} /\ view'.op = "summary" /\ view'.group = q.group
     /\ view'.totals = Totals(ids) /\ view'.installs = ReportingInstalls(ids)
     /\ view'.rows = Breakdown(ids, q.group)

Began(q) ==
  /\ view'.at = "windows" /\ view'.op = "windows" /\ view'.group = "actor" /\ view'.rows = {}
  /\ view'.now = clock /\ view'.filter = q.filter /\ view'.table = <<>> /\ NoTotals

Listed ==
  /\ view'.at \in {"hostnames", "done"} /\ view'.group = "actor" /\ NoTotals
  /\ \/ /\ view'.op = "roots"
        /\ view'.rows = {[key |-> k, totals |-> Totals({}), name |-> NoName] : k \in scanRoots}
     \/ view'.op = "machines" /\ view'.rows = MachineSummaries

RowsNamed ==
  /\ view.at = "hostnames" /\ view'.at = "done" /\ view'.rows = WithHostnames(view.rows)
  /\ \A f \in ViewFields \ {"at", "rows"} : view'[f] = view[f]

RowAdded ==
  /\ view.at = "windows"
  /\ view'.at = IF Len(view.table) + 1 = Len(Windows) THEN "done" ELSE "windows"
  /\ view'.table = Append(view.table, Totals(ListEventsInWindow(Windows[Len(view.table) + 1],
                                                               view.filter, view.now)))
  /\ \A f \in ViewFields \ {"at", "table"} : view'[f] = view[f]

Cleared ==
  /\ view'.at \in {"idle", "failed"} /\ view'.op = "none" /\ view'.group = "actor" /\ view'.rows = {}
  /\ NoTotals

LEMMA ViewStep ==
  ASSUME HasFields(view, ViewFields), [NextConsole]_vars
  PROVE  \/ view' = view
         \/ Cleared /\ NoTable'
         \/ Listed /\ NoTable' /\ UNCHANGED machines
         \/ (\E q \in Query : Summarised(q)) /\ NoTable' /\ UNCHANGED <<machines, usageEvents>>
         \/ (\E q \in Query : Began(q)) /\ UNCHANGED usageEvents
         \/ RowsNamed /\ UNCHANGED usageEvents
         \/ RowAdded /\ UNCHANGED usageEvents
<1> USE DEF HasFields, ViewFields
<1>1. ASSUME NEW q \in Query, Summary(q)
      PROVE  Summarised(q) /\ NoTable' /\ UNCHANGED <<machines, usageEvents>>
  BY <1>1 DEF Summary, Show, NoView, Summarised, NoTable
<1>2. ASSUME MachineHostnames PROVE RowsNamed /\ UNCHANGED usageEvents
  BY <1>2 DEF MachineHostnames, Show, RowsNamed
<1>3. ASSUME ScanRoots PROVE Listed /\ NoTable' /\ UNCHANGED machines
  BY <1>3 DEF ScanRoots, Show, NoView, Listed, NoTable, NoTotals
<1>4. ASSUME GetMachines PROVE Listed /\ NoTable' /\ UNCHANGED machines
  BY <1>4 DEF GetMachines, Show, NoView, Listed, NoTable, NoTotals
<1>5. ASSUME NEW q \in Query, BeginWindows(q.filter) PROVE Began(q) /\ UNCHANGED usageEvents
  BY <1>5 DEF BeginWindows, Show, NoView, Began, NoTotals
<1>6. ASSUME NextWindow PROVE RowAdded /\ UNCHANGED usageEvents
  BY <1>6 DEF NextWindow, Show, RowAdded
<1>7. ASSUME view' = NoView \/ view' = [NoView EXCEPT !.at = "failed"] PROVE Cleared /\ NoTable'
  BY <1>7 DEF NoView, Cleared, NoTable, NoTotals
<1>8. CASE ReadFails \/ EndView \/ RestartServer
  BY <1>7, <1>8 DEF ReadFails, EndView, RestartServer, Show
<1>9. CASE Ingest \/ Tick \/ UNCHANGED vars
  BY <1>9 DEF Ingest, Tick
<1> QED
  BY <1>1, <1>2, <1>3, <1>4, <1>5, <1>6, <1>8, <1>9 DEF NextConsole, Console

-----------------------------------------------------------------------------
(* The table of ranges. *)
LEMMA TotalsFigured == \A ids \in SUBSET Id : Totals(ids) \in Figured
<1> TAKE ids \in SUBSET Id
<1>1. Totals(ids).turns \in Nat /\ Totals(ids).tokens \in Nat /\ Totals(ids).cost \in Nat
  BY TotalsAreSums DEF Figures
<1> QED
  BY <1>1 DEF Totals, Figured

(* The events of a range, of which a later query finds no fewer. *)
ListedIn(events, w, f, now) ==
  {id \in Named(events) :
     /\ WindowStart(w, now) <= Turn[id].created /\ Turn[id].created < now
     /\ f.machine = NoFilter \/ events[id].machine = f.machine
     /\ f.scanRoot # "malformed"
     /\ f.scanRoot # NoFilter => <<events[id].machine, events[id].root>> = f.scanRoot}

LEMMA ListedInWindow == \A w, f, now : ListEventsInWindow(w, f, now) = ListedIn(usageEvents, w, f, now)
BY DEF ListEventsInWindow, ListedIn, Matches, Stored

LEMMA ListedGrows ==
  ASSUME NEW events \in Batch, NEW more \in Batch, NEW w, NEW f, NEW now,
         \A id \in Named(events) : more[id] = events[id]
  PROVE  ListedIn(events, w, f, now) \subseteq ListedIn(more, w, f, now)
BY DEF ListedIn, Named

LEMMA ListedNests ==
  ASSUME NEW events \in Batch, NEW p \in Nested, NEW f, NEW now \in Times
  PROVE  ListedIn(events, p[1], f, now) \subseteq ListedIn(events, p[2], f, now)
<1> SUFFICES ASSUME NEW id \in ListedIn(events, p[1], f, now)
             PROVE  WindowStart(p[2], now) <= Turn[id].created
  BY DEF ListedIn
<1>1. WindowStart(p[1], now) <= Turn[id].created /\ id \in Id
  BY DEF ListedIn, Named
<1> QED
  BY <1>1, RangesNest, TurnAssumption

(* Each row of the table was, when its query ran, the totals of its range:
   those are still of events the range has. *)
TableInv ==
  /\ view.at = "windows" => Len(view.table) < Len(Windows)
  /\ view.table \in Seq(Figured) /\ Len(view.table) <= Len(Windows)
  /\ view.table # <<>> => view.now \in Times
  /\ view.at = "windows" => view.now \in Times
  /\ \A i \in 1..Len(view.table) :
       \E ids \in SUBSET ListedIn(usageEvents, Windows[i], view.filter, view.now) :
         view.table[i] = Totals(ids)
  /\ WindowsNest

LEMMA WindowsOrder ==
  /\ Len(Windows) = 7
  /\ \A i, j \in 1..7 : <<Windows[i], Windows[j]>> \in Nested => i < j
BY DEF Windows, Nested

LEMMA TableStep ==
  ASSUME usageEvents \in Batch, (usageEvents \in Batch)', clock \in Times,
         \A id \in Named(usageEvents) : usageEvents'[id] = usageEvents[id],
         HasFields(view, ViewFields), TableInv, [NextConsole]_vars
  PROVE  TableInv'
<1> DEFINE was(i) == ListedIn(usageEvents, Windows[i], view.filter, view.now)
           is(i) == ListedIn(usageEvents', Windows[i], view.filter, view.now)
<1>1. \A i : was(i) \subseteq is(i)
  BY ListedGrows
<1>2. CASE view' = view
  <2> HIDE DEF was, is
  <2>1. ASSUME NEW i \in 1..Len(view.table) PROVE \E ids \in SUBSET is(i) : view.table[i] = Totals(ids)
    BY <1>1 DEF was, TableInv
  <2> QED
    BY <1>2, <2>1 DEF is, TableInv, WindowsNest
<1>3. CASE NoTable' /\ view'.at # "windows"
  BY <1>3, WindowsOrder DEF NoTable, TableInv, WindowsNest
<1>4. ASSUME NEW q \in Query, Began(q) PROVE TableInv'
  BY <1>4, WindowsOrder DEF Began, TableInv, WindowsNest
<1>5. CASE RowsNamed /\ UNCHANGED usageEvents
  BY <1>5 DEF RowsNamed, TableInv, WindowsNest, ViewFields
<1>6. CASE RowAdded /\ UNCHANGED usageEvents
  <2>0. PICK n : n = Len(view.table) + 1
    OBVIOUS
  <2> DEFINE t == Totals(was(n))
  <2>1. /\ view.at = "windows" /\ view'.table = Append(view.table, t)
        /\ view'.at = IF n = Len(Windows) THEN "done" ELSE "windows"
        /\ view'.now = view.now /\ view'.filter = view.filter
    BY <1>6, <2>0, ListedInWindow DEF RowAdded, ViewFields
  <2>2. was(n) \in SUBSET Id /\ t \in Figured
    BY TotalsFigured DEF ListedIn, Named
  <2>3. view.table \in Seq(Figured) /\ Len(view.table) \in Nat /\ n \in 1..7 /\ view.now \in Times
    BY <2>0, <2>1, WindowsOrder DEF TableInv
  <2> HIDE DEF was, t
  <2>4. /\ Len(view'.table) = n /\ view'.table[n] = t /\ view'.table \in Seq(Figured)
        /\ \A i \in 1..Len(view.table) : view'.table[i] = view.table[i]
    BY <2>0, <2>1, <2>2, <2>3
  <2>5. ASSUME NEW i \in 1..n PROVE \E ids \in SUBSET was(i) : view'.table[i] = Totals(ids)
    <3>1. CASE i = n
      BY <2>4, <3>1 DEF t
    <3>2. CASE i # n
      <4>1. i \in 1..Len(view.table)
        BY <2>0, <2>3, <3>2
      <4> QED
        BY <2>4, <4>1 DEF TableInv, was
    <3> QED
      BY <3>1, <3>2
  <2>6. ASSUME NEW i \in 1..n, NEW j \in 1..n, <<Windows[i], Windows[j]>> \in Nested
        PROVE  AtMost(view'.table[i], view'.table[j])
    <3>1. i \in 1..7 /\ j \in 1..7
      BY <2>3
    <3>2. i < j
      BY <2>6, <3>1, WindowsOrder
    <3>3. i \in 1..Len(view.table) /\ (j # n => j \in 1..Len(view.table))
      BY <2>0, <2>3, <3>1, <3>2
    <3>4. CASE j = n
      <4>1. PICK ids \in SUBSET was(i) : view'.table[i] = Totals(ids)
        BY <2>5
      <4>2. was(i) \subseteq was(n)
        BY <2>3, <2>6, <3>4, ListedNests DEF was
      <4> QED
        BY <2>2, <2>4, <3>4, <4>1, <4>2, TotalsMonotone DEF t
    <3>5. CASE j # n
      BY <2>4, <2>6, <3>3, <3>5 DEF TableInv, WindowsNest
    <3> QED
      BY <3>4, <3>5
  <2>7. \A i \in 1..Len(view'.table) :
          \E ids \in SUBSET ListedIn(usageEvents', Windows[i], view'.filter, view'.now) : view'.table[i] = Totals(ids)
    BY <1>1, <2>1, <2>4, <2>5
  <2>8. WindowsNest'
    BY <2>4, <2>6 DEF WindowsNest
  <2>9. Len(view'.table) <= Len(Windows) /\ (view'.at = "windows" => Len(view'.table) < Len(Windows))
    BY <2>0, <2>1, <2>3, <2>4, WindowsOrder
  <2> QED
    BY <1>6, <2>1, <2>3, <2>4, <2>7, <2>8, <2>9 DEF TableInv
<1> QED
  BY <1>2, <1>3, <1>4, <1>5, <1>6, ViewStep DEF Cleared, Listed, Summarised

-----------------------------------------------------------------------------
(* Breakdowns. *)

(* Figures that are split by a key add up to the figures of the whole. *)
LEMMA FigureDivides ==
  ASSUME NEW ids \in SUBSET Id, NEW K, IsFiniteSet(K), NEW key, \A id \in ids : key[id] \in K,
         NEW f \in Figures, NEW F, DOMAIN F = K,
         \A k \in K : F[k] = Totals({id \in ids : key[id] = k})[f]
  PROVE  SumFunction(F) = Totals(ids)[f]
<1>1. IsFiniteSet(ids) /\ \A id \in ids : Figure[f][id] \in Nat
  BY IdAssumption, FS_Subset, FigureNat
<1>2. ASSUME NEW k \in K PROVE F[k] = SumFunctionOnSet(Figure[f], {id \in ids : key[id] = k})
  <2> DEFINE of == {id \in ids : key[id] = k}
  <2>1. F[k] = Totals(of)[f] /\ of \in SUBSET Id
    OBVIOUS
  <2> HIDE DEF of
  <2>2. Totals(of)[f] = SumFunctionOnSet(Figure[f], of)
    BY <2>1, TotalsAreSums
  <2> QED
    BY <2>1, <2>2 DEF of
<1>3. SumFunctionOnSet(F, K) = SumFunctionOnSet(Figure[f], ids)
  BY <1>1, <1>2, SumByKey
<1> QED
  BY <1>3, TotalsAreSums DEF SumFunction

LEMMA Divides ==
  ASSUME NEW ids \in SUBSET Id, NEW K, IsFiniteSet(K), NEW key, \A id \in ids : key[id] \in K,
         NEW part, DOMAIN part = K, \A k \in K : part[k] = Totals({id \in ids : key[id] = k})
  PROVE  Sum(part) = Totals(ids)
<1>1. ASSUME NEW f \in Figures PROVE SumFunction([k \in DOMAIN part |-> part[k][f]]) = Totals(ids)[f]
  <2> DEFINE F == [k \in DOMAIN part |-> part[k][f]]
  <2>1. DOMAIN F = K /\ \A k \in K : F[k] = Totals({id \in ids : key[id] = k})[f]
    OBVIOUS
  <2> HIDE DEF F
  <2>2. SumFunction(F) = Totals(ids)[f]
    BY <2>1, FigureDivides
  <2> QED
    BY <2>2 DEF F
<1>2. HasFields(Totals(ids), Figures)
  BY TotalsAreSums
<1> QED
  BY <1>1, <1>2 DEF Sum, HasFields, Figures

(* The figures and the installs of a set of rows that are told apart by
   their keys. *)
RowFigures(rows) == [f \in Figures |-> SumFunction([row \in rows |-> row.totals[f]])]

RowInstalls(rows) == {row.key[1] : row \in rows}

Keyed(rows) ==
  /\ IsFiniteSet(rows)
  /\ \A row \in rows : \A f \in Figures : row.totals[f] \in Nat
  /\ \A r, s \in rows : r.key = s.key => r = s

(* TurnsOf, LeftOut and BreakdownAddsUp of a table of events. *)
TurnsIn(events, group, key) ==
  {id \in Named(events) :
     /\ events[id].machine = key[1]
     /\ group = "actor" => Turn[id].actor = key[2]
     /\ group = "path" => events[id].path = key[2] /\ key[2] # Turn[id].actor}

LeftIn(events, group) == {id \in Named(events) : group = "path" /\ events[id].path = Turn[id].actor}

MachinesIn(events, ids) == {events[id].machine : id \in ids}

RowsWithin(events, rows, group) == \A row \in rows : AtMost(row.totals, Totals(TurnsIn(events, group, row.key)))

AccountsFor(events, rows, group, totals, installs) ==
  \E out \in SUBSET LeftIn(events, group) :
    /\ \A f \in Figures : RowFigures(rows)[f] + Totals(out)[f] = totals[f]
    /\ installs = Cardinality(RowInstalls(rows) \cup MachinesIn(events, out))
    /\ RowsWithin(events, rows, group)

Accounted == AccountsFor(usageEvents, view.rows, view.group, view.totals, view.installs)

BreakdownInv == view.op = "summary" => Keyed(view.rows) /\ Accounted

LEMMA AddsUp == Accounted /\ view.op = "summary" => BreakdownAddsUp
<1> SUFFICES ASSUME Accounted, view.op = "summary" PROVE BreakdownAddsUp
  OBVIOUS
<1>1. PICK out \in SUBSET LeftIn(usageEvents, view.group) :
        /\ \A f \in Figures : RowFigures(view.rows)[f] + Totals(out)[f] = view.totals[f]
        /\ view.installs = Cardinality(RowInstalls(view.rows) \cup MachinesIn(usageEvents, out))
        /\ RowsWithin(usageEvents, view.rows, view.group)
  BY DEF Accounted, AccountsFor
<1>2. out \in SUBSET LeftOut(view.group)
  BY <1>1 DEF LeftIn, LeftOut, Stored
<1>3. \A f \in {"turns", "tokens", "cost"} :
        SumFunction([row \in view.rows |-> row.totals[f]]) + Totals(out)[f] = view.totals[f]
  BY <1>1 DEF Figures, RowFigures
<1>4. view.installs =
        Cardinality({row.key[1] : row \in view.rows} \cup {usageEvents[id].machine : id \in out})
  BY <1>1 DEF RowInstalls, MachinesIn
<1>5. \A row \in view.rows : AtMost(row.totals, Totals(TurnsOf(view.group, row.key)))
  <2>1. \A key : TurnsOf(view.group, key) = TurnsIn(usageEvents, view.group, key)
    BY DEF TurnsOf, TurnsIn, Stored
  <2> QED
    BY <1>1, <2>1 DEF RowsWithin
<1> QED
  BY <1>2, <1>3, <1>4, <1>5 DEF BreakdownAddsUp

(* What an answer accounts for is still there when more is stored. *)
LEMMA StaysAccounted ==
  ASSUME NEW events \in Batch, NEW more \in Batch, \A id \in Named(events) : more[id] = events[id],
         NEW rows, Keyed(rows), NEW group, NEW totals, NEW installs,
         AccountsFor(events, rows, group, totals, installs)
  PROVE  AccountsFor(more, rows, group, totals, installs)
<1>1. PICK out \in SUBSET LeftIn(events, group) :
        /\ \A f \in Figures : RowFigures(rows)[f] + Totals(out)[f] = totals[f]
        /\ installs = Cardinality(RowInstalls(rows) \cup MachinesIn(events, out))
        /\ RowsWithin(events, rows, group)
  BY DEF AccountsFor
<1>2. out \subseteq Named(events) /\ out \in SUBSET LeftIn(more, group)
  BY <1>1 DEF LeftIn, Named
<1>3. MachinesIn(more, out) = MachinesIn(events, out)
  BY <1>2 DEF MachinesIn
<1>4. RowsWithin(more, rows, group)
  <2> SUFFICES ASSUME NEW row \in rows PROVE AtMost(row.totals, Totals(TurnsIn(more, group, row.key)))
    BY DEF RowsWithin
  <2>1. PICK old, new : old = TurnsIn(events, group, row.key) /\ new = TurnsIn(more, group, row.key)
    OBVIOUS
  <2>2. old \in SUBSET new /\ new \in SUBSET Id /\ old \in SUBSET Id
    BY <2>1 DEF TurnsIn, Named
  <2>3. AtMost(Totals(old), Totals(new)) /\ AtMost(row.totals, Totals(old))
    BY <1>1, <2>1, <2>2, TotalsMonotone DEF RowsWithin
  <2>4. \A f \in Figures : row.totals[f] \in Nat /\ Totals(old)[f] \in Nat /\ Totals(new)[f] \in Nat
    BY <2>2, TotalsAreSums DEF Keyed
  <2> QED
    BY <2>1, <2>3, <2>4 DEF AtMost, Figures
<1> QED
  BY <1>1, <1>2, <1>3, <1>4 DEF AccountsFor

LEMMA FiguresOfRows ==
  ASSUME NEW rows, NEW f \in Figures
  PROVE  RowFigures(rows)[f] = Sum([row \in rows |-> row.totals])[f]
<1> DEFINE part == [row \in rows |-> row.totals]
<1>1. Sum(part)[f] = SumFunction([i \in DOMAIN part |-> part[i][f]])
  BY DEF Sum, Figures
<1>2. [i \in DOMAIN part |-> part[i][f]] = [row \in rows |-> row.totals[f]]
  OBVIOUS
<1> QED
  BY <1>1, <1>2 DEF RowFigures

LEMMA BreakdownParts ==
  ASSUME IngestInv, NEW g \in GroupBys, NEW ids \in SUBSET Stored, NEW rows, rows = Breakdown(ids, g)
  PROVE  Keyed(rows) /\ AccountsFor(usageEvents, rows, g, Totals(ids), ReportingInstalls(ids))
<1> DEFINE counted == {id \in ids : ~excludedFromBreakdown(g, id)}
           rowOf(k) == [key |-> k, totals |-> Totals({id \in counted : keyFor(g, id) = k}), name |-> NoName]
           key == [id \in Id |-> rowOf(keyFor(g, id))]
<1>1. ids \in SUBSET Id /\ counted \in SUBSET ids /\ counted \in SUBSET Id
  BY DEF Stored, Named
<1>2. rows = {key[id] : id \in counted}
  <2>1. rows = {rowOf(k) : k \in {keyFor(g, id) : id \in counted}}
    BY DEF Breakdown
  <2> QED
    BY <1>1, <2>1
<1>3. IsFiniteSet(rows)
  <2>1. IsFiniteSet(counted)
    BY <1>1, IdAssumption, FS_Subset
  <2> HIDE DEF counted, key
  <2> QED
    BY <1>2, <2>1, FiniteImage
<1>4. ASSUME NEW row \in rows
      PROVE  /\ row = rowOf(row.key)
             /\ row.totals = Totals({id \in counted : key[id] = row})
             /\ \E id \in counted : row.key = keyFor(g, id)
  <2>1. PICK id \in counted : row = key[id]
    BY <1>2
  <2>2. row = rowOf(keyFor(g, id))
    BY <1>1, <2>1
  <2>3. row.key = keyFor(g, id) /\ row = rowOf(row.key)
    BY <2>2
  <2>4. \A i \in counted : key[i] = row <=> keyFor(g, i) = row.key
    <3> TAKE i \in counted
    <3>1. key[i] = rowOf(keyFor(g, i)) /\ key[i].key = keyFor(g, i)
      BY <1>1
    <3> QED
      BY <2>3, <3>1
  <2>5. {i \in counted : key[i] = row} = {i \in counted : keyFor(g, i) = row.key}
    BY <2>4
  <2> HIDE DEF key, counted
  <2>6. row.totals = Totals({i \in counted : keyFor(g, i) = row.key})
    BY <2>3
  <2> QED
    BY <2>3, <2>5, <2>6
<1>5. \A row \in rows : \A f \in Figures : row.totals[f] \in Nat
  <2> TAKE row \in rows
  <2> DEFINE of == {id \in counted : key[id] = row}
  <2>1. row.totals = Totals(of) /\ of \in SUBSET Id
    BY <1>1, <1>4
  <2> HIDE DEF of
  <2> QED
    BY <2>1, TotalsAreSums
<1>6. \A r, s \in rows : r.key = s.key => r = s
  <2> HIDE DEF rowOf
  <2> QED
    BY <1>4
<1>7. Sum([row \in rows |-> row.totals]) = Totals(counted)
  <2> DEFINE part == [row \in rows |-> row.totals]
  <2>1. DOMAIN part = rows /\ \A row \in rows : part[row] = Totals({id \in counted : key[id] = row})
    BY <1>4
  <2>2. \A id \in counted : key[id] \in rows
    BY <1>2
  <2> HIDE DEF part, counted, key
  <2>3. Sum(part) = Totals(counted)
    BY <1>1, <1>3, <2>1, <2>2, Divides
  <2> QED
    BY <2>3 DEF part
<1>8. \A f \in Figures : RowFigures(rows)[f] + Totals(ids \ counted)[f] = Totals(ids)[f]
  <2>1. \A f \in Figures : RowFigures(rows)[f] = Totals(counted)[f]
    BY <1>7, FiguresOfRows
  <2> HIDE DEF counted
  <2> QED
    BY <1>1, <2>1, TotalsSplit
<1>9. ids \ counted \in SUBSET LeftIn(usageEvents, g)
  BY <1>1 DEF excludedFromBreakdown, LeftIn, Stored
<1>10. RowInstalls(rows) \cup MachinesIn(usageEvents, ids \ counted) = {usageEvents[id].machine : id \in ids}
  <2>1. \A id \in ids : keyFor(g, id)[1] = usageEvents[id].machine
    BY DEF keyFor, GroupBys
  <2>2. ASSUME NEW id \in counted PROVE key[id] \in rows /\ key[id].key[1] = usageEvents[id].machine
    BY <1>1, <1>2, <2>1, <2>2
  <2>3. \A row \in rows : \E id \in counted : row.key[1] = usageEvents[id].machine
    BY <1>1, <1>4, <2>1
  <2> HIDE DEF key, counted
  <2>4. RowInstalls(rows) = {usageEvents[id].machine : id \in counted}
    BY <2>2, <2>3 DEF RowInstalls
  <2> QED
    BY <1>1, <2>4 DEF MachinesIn
<1>11. RowsWithin(usageEvents, rows, g)
  <2> SUFFICES ASSUME NEW row \in rows
               PROVE  AtMost(row.totals, Totals(TurnsIn(usageEvents, g, row.key)))
    BY DEF RowsWithin
  <2> DEFINE of == {id \in counted : keyFor(g, id) = row.key}
  <2>1. row.totals = Totals(of)
    <3>1. row = rowOf(row.key)
      BY <1>4
    <3> QED
      BY <3>1
  <2>2. PICK turns : turns = TurnsIn(usageEvents, g, row.key)
    OBVIOUS
  <2>3. \A id \in of : id \in turns
    BY <1>1, <2>2 DEF TurnsIn, Stored, keyFor, GroupBys, excludedFromBreakdown
  <2>4. turns \in SUBSET Id
    BY <2>2 DEF TurnsIn, Named
  <2> HIDE DEF of
  <2> QED
    BY <2>1, <2>2, <2>3, <2>4, TotalsMonotone
<1>12. Keyed(rows)
  BY <1>3, <1>5, <1>6 DEF Keyed
<1> HIDE DEF counted, key, rowOf
<1> QED
  BY <1>8, <1>9, <1>10, <1>11, <1>12 DEF AccountsFor, ReportingInstalls

(* Naming the rows changes no figure. *)
LEMMA NamingKeepsSums ==
  ASSUME NEW rows, Keyed(rows), \A row \in rows : HasFields(row, RowFields),
         NEW named, named = WithHostnames(rows)
  PROVE  /\ Keyed(named)
         /\ \A f \in Figures : RowFigures(named)[f] = RowFigures(rows)[f]
         /\ RowInstalls(named) = RowInstalls(rows)
         /\ \A events, group : RowsWithin(events, rows, group) => RowsWithin(events, named, group)
<1> DEFINE name == [row \in rows |->
                      IF row.key[1] \in machines THEN [row EXCEPT !.name = HostnameOf[row.key[1]]] ELSE row]
<1>1. named = {name[row] : row \in rows}
  BY DEF WithHostnames
<1>2. \A row \in rows : name[row].key = row.key /\ name[row].totals = row.totals
  BY DEF HasFields, RowFields
<1> HIDE DEF name
<1>3. IsFiniteSet(named)
  BY <1>1, FiniteImage DEF Keyed
<1>4. \A row \in named : \E r \in rows : row = name[r] /\ row.key = r.key /\ row.totals = r.totals
  BY <1>1, <1>2
<1>5. Keyed(named)
  BY <1>3, <1>4 DEF Keyed
<1>6. ASSUME NEW f \in Figures PROVE RowFigures(named)[f] = RowFigures(rows)[f]
  <2> DEFINE F == [row \in named |-> row.totals[f]]
             G == [row \in rows |-> row.totals[f]]
  <2>1. DOMAIN F = named /\ DOMAIN G = rows /\ \A row \in rows : G[row] \in Nat /\ name[row] \in named
    BY <1>1 DEF Keyed
  <2>2. ASSUME NEW row \in named
        PROVE  \E r \in rows : F[row] = G[r] /\ name[r] = row /\ \A s \in rows : name[s] = row => s = r
    <3>1. PICK r \in rows : row = name[r] /\ row.key = r.key /\ row.totals = r.totals
      BY <1>4
    <3>2. \A s \in rows : name[s] = row => s = r
      BY <1>2, <3>1 DEF Keyed
    <3> QED
      BY <3>1, <3>2
  <2> HIDE DEF F, G
  <2>3. SumFunctionOnSet(F, named) = SumFunctionOnSet(G, rows)
    BY <1>3, <2>1, <2>2, SumBijection DEF Keyed
  <2>4. RowFigures(named)[f] = SumFunction(F) /\ RowFigures(rows)[f] = SumFunction(G)
    BY DEF RowFigures, F, G
  <2> QED
    BY <2>1, <2>3, <2>4 DEF SumFunction
<1>7. RowInstalls(named) = RowInstalls(rows)
  BY <1>1, <1>2 DEF RowInstalls
<1>8. \A events, group : RowsWithin(events, rows, group) => RowsWithin(events, named, group)
  BY <1>4 DEF RowsWithin
<1> QED
  BY <1>5, <1>6, <1>7, <1>8

LEMMA BreakdownStep ==
  ASSUME IngestInv, usageEvents' \in Batch, \A id \in Named(usageEvents) : usageEvents'[id] = usageEvents[id],
         NamesKnown, BreakdownInv, [NextConsole]_vars
  PROVE  BreakdownInv'
<1> DEFINE Answer == {"op", "group", "totals", "installs", "rows"}
<1>1. CASE \A f \in Answer : view'[f] = view[f]
  <2> SUFFICES ASSUME view.op = "summary" PROVE Keyed(view.rows) /\ Accounted'
    BY <1>1 DEF BreakdownInv
  <2>1. Keyed(view.rows) /\ usageEvents \in Batch
    BY DEF BreakdownInv, IngestInv, TypeOK
  <2>2. PICK events, more, rows, group, totals, installs :
          /\ events = usageEvents /\ more = usageEvents' /\ rows = view.rows /\ group = view.group
          /\ totals = view.totals /\ installs = view.installs
    OBVIOUS
  <2>3. AccountsFor(events, rows, group, totals, installs)
    BY <2>2 DEF BreakdownInv, Accounted
  <2>4. AccountsFor(more, rows, group, totals, installs)
    BY <2>1, <2>2, <2>3, StaysAccounted
  <2> QED
    BY <1>1, <2>1, <2>2, <2>4 DEF Accounted
<1>2. CASE Cleared \/ Listed \/ \E q \in Query : Began(q)
  BY <1>2 DEF Cleared, Listed, Began, BreakdownInv
<1>3. ASSUME NEW q \in Query, Summarised(q), UNCHANGED usageEvents PROVE BreakdownInv'
  <2>0. PICK ids, rows : ids = ListEventsInWindow(q.window, q.filter, clock) /\ rows = Breakdown(ids, q.group)
    OBVIOUS
  <2>1. /\ view'.group = q.group /\ view'.totals = Totals(ids)
        /\ view'.installs = ReportingInstalls(ids) /\ view'.rows = rows
    BY <1>3, <2>0 DEF Summarised
  <2>2. ids \in SUBSET Stored /\ q.group \in GroupBys
    BY <2>0, QueryAssumption DEF ListEventsInWindow
  <2>3. Keyed(rows) /\ AccountsFor(usageEvents, rows, q.group, Totals(ids), ReportingInstalls(ids))
    BY <2>0, <2>2, BreakdownParts
  <2> QED
    BY <1>3, <2>1, <2>3 DEF BreakdownInv, Accounted
<1>4. CASE RowsNamed /\ UNCHANGED usageEvents
  <2>1. /\ view'.rows = WithHostnames(view.rows) /\ view'.op = view.op /\ view'.group = view.group
        /\ view'.totals = view.totals /\ view'.installs = view.installs
    BY <1>4 DEF RowsNamed, ViewFields
  <2> SUFFICES ASSUME view.op = "summary" PROVE BreakdownInv'
    BY <2>1 DEF BreakdownInv
  <2>2. PICK rows, named : rows = view.rows /\ named = WithHostnames(rows)
    OBVIOUS
  <2>3. Keyed(rows) /\ AccountsFor(usageEvents, rows, view.group, view.totals, view.installs)
    BY <2>2 DEF BreakdownInv, Accounted
  <2>4. /\ Keyed(named) /\ RowInstalls(named) = RowInstalls(rows)
        /\ \A f \in Figures : RowFigures(named)[f] = RowFigures(rows)[f]
        /\ \A events, group : RowsWithin(events, rows, group) => RowsWithin(events, named, group)
    BY <2>2, <2>3, NamingKeepsSums DEF NamesKnown
  <2>5. AccountsFor(usageEvents, named, view.group, view.totals, view.installs)
    BY <2>3, <2>4 DEF AccountsFor
  <2> QED
    BY <1>4, <2>1, <2>2, <2>4, <2>5 DEF BreakdownInv, Accounted
<1>5. view' = view \/ RowAdded => \A f \in Answer : view'[f] = view[f]
  BY DEF RowAdded, ViewFields
<1> QED
  BY <1>1, <1>2, <1>3, <1>4, <1>5, ViewStep DEF NamesKnown

-----------------------------------------------------------------------------
(* The console's figures against each other. *)
FiniteTables == IsFiniteSet(machines) /\ IsFiniteSet(scanRoots)

LEMMA TablesStayFinite == ASSUME FiniteTables, [Next]_serverVars PROVE FiniteTables'
<1>1. ASSUME NEW x, machines' = machines \cup {x}, UNCHANGED scanRoots PROVE FiniteTables'
  BY <1>1, FS_AddElement DEF FiniteTables
<1>2. ASSUME NEW x, scanRoots' = scanRoots \cup {x}, UNCHANGED machines PROVE FiniteTables'
  BY <1>2, FS_AddElement DEF FiniteTables
<1>3. ASSUME UNCHANGED <<machines, scanRoots>> PROVE FiniteTables'
  BY <1>3 DEF FiniteTables
<1>4. ASSUME NEW h \in Handler, NEW q, Accept(h, q) PROVE UNCHANGED <<machines, scanRoots>>
  BY <1>4 DEF Accept
<1>5. ASSUME NEW h \in Handler, Serve(h) \/ Finish(h) PROVE FiniteTables'
  <2>1. CASE UpsertMachine(h)
    BY <1>1, <2>1 DEF UpsertMachine
  <2>2. CASE \E s \in ScanRoot : UpsertScanRoot(h, s)
    BY <1>2, <2>2 DEF UpsertScanRoot
  <2>3. CASE IngestNothing(h) \/ InsertBatch(h) \/ Commit(h) \/ Fail(h) \/ Finish(h)
    BY <1>3, <2>3 DEF IngestNothing, InsertBatch, Commit, Fail, Finish
  <2> QED
    BY <1>5, <2>1, <2>2, <2>3 DEF Serve
<1> QED
  BY <1>3, <1>4, <1>5 DEF Next, Restart

LEMMA FiguresFollow ==
  ASSUME IngestInv, FiniteTables, clock \in Times
  PROVE  FiguresAgree
<1> DEFINE of(f) == ListEventsInWindow("lifetime", f, clock)
           all == of(Unfiltered)
           byMachine == [m \in machines |-> Totals(of([Unfiltered EXCEPT !.machine = m]))]
           byRoot == [s \in scanRoots |-> Totals(of([Unfiltered EXCEPT !.scanRoot = s]))]
           page(f) == SumFunction([row \in MachineSummaries |-> row.totals[f]])
           odd == {id \in Stored : Turn[id].created >= clock \/ Turn[id].created < Year2000}
<1>1. /\ machines \subseteq Install /\ scanRoots \subseteq Install \X ScanRoot /\ Stored \in SUBSET Id
      /\ IsFiniteSet(Stored)
  BY IdAssumption, FS_Subset DEF IngestInv, TypeOK, Stored, Named
<1>2. ASSUME NEW id \in Stored
      PROVE  /\ usageEvents[id].machine \in machines
             /\ <<usageEvents[id].machine, usageEvents[id].root>> \in scanRoots
  BY DEF IngestInv, EventsHaveLabels
<1>3. NoFilter \notin machines /\ NoFilter \notin scanRoots /\ "malformed" \notin scanRoots
      /\ NoFilter # "malformed"
  BY <1>1, FilterAssumption
<1>4. all = {id \in Stored : Year2000 <= Turn[id].created /\ Turn[id].created < clock}
  BY <1>3 DEF ListEventsInWindow, Matches, Unfiltered, WindowStart
<1>5. all \in SUBSET Stored /\ all \in SUBSET Id
  BY <1>1, <1>4
<1>6. \A m \in machines : of([Unfiltered EXCEPT !.machine = m]) = {id \in all : usageEvents[id].machine = m}
  BY <1>3, <1>4 DEF ListEventsInWindow, Matches, Unfiltered, WindowStart
<1>7. \A s \in scanRoots : of([Unfiltered EXCEPT !.scanRoot = s]) =
        {id \in all : <<usageEvents[id].machine, usageEvents[id].root>> = s}
  BY <1>3, <1>4 DEF ListEventsInWindow, Matches, Unfiltered, WindowStart
<1> HIDE DEF of, all
<1>8. Sum(byMachine) = Totals(all)
  <2> DEFINE key == [id \in Id |-> usageEvents[id].machine]
  <2>1. \A id \in all : key[id] \in machines
    BY <1>2, <1>5
  <2>2. ASSUME NEW m \in machines PROVE byMachine[m] = Totals({id \in all : key[id] = m})
    <3>1. {id \in all : key[id] = m} = {id \in all : usageEvents[id].machine = m}
      BY <1>5
    <3> QED
      BY <1>6, <3>1
  <2>3. DOMAIN byMachine = machines
    OBVIOUS
  <2> HIDE DEF key, byMachine
  <2> QED
    BY <1>5, <2>1, <2>2, <2>3, Divides DEF FiniteTables
<1>9. Sum(byRoot) = Totals(all)
  <2> DEFINE key == [id \in Id |-> <<usageEvents[id].machine, usageEvents[id].root>>]
  <2>1. \A id \in all : key[id] \in scanRoots
    BY <1>2, <1>5
  <2>2. ASSUME NEW s \in scanRoots PROVE byRoot[s] = Totals({id \in all : key[id] = s})
    <3>1. {id \in all : key[id] = s} = {id \in all : <<usageEvents[id].machine, usageEvents[id].root>> = s}
      BY <1>5
    <3> QED
      BY <1>7, <3>1
  <2>3. DOMAIN byRoot = scanRoots
    OBVIOUS
  <2> HIDE DEF key, byRoot
  <2> QED
    BY <1>5, <2>1, <2>2, <2>3, Divides DEF FiniteTables
<1>10. ASSUME NEW f \in {"cost", "tokens"} PROVE page(f) = Totals(Stored)[f]
  <2> DEFINE rowOf(m) == [key |-> <<m>>, totals |-> Lifetime({id \in Stored : usageEvents[id].machine = m}),
                          name |-> HostnameOf[m]]
             F == [r \in MachineSummaries |-> r.totals[f]]
             row == [m \in machines |-> rowOf(m)]
             key == [id \in Id |-> row[usageEvents[id].machine]]
  <2>1. MachineSummaries = {row[m] : m \in machines}
    BY DEF MachineSummaries
  <2>2. \A id \in Stored : key[id] \in MachineSummaries
    BY <1>1, <1>2, <2>1
  <2>3. ASSUME NEW r \in MachineSummaries PROVE F[r] = Totals({id \in Stored : key[id] = r})[f]
    <3>1. PICK m \in machines : r = row[m]
      BY <2>1
    <3>2. \A n \in machines : row[n] = row[m] <=> n = m
      <4>1. \A n \in machines : row[n].key[1] = n
        OBVIOUS
      <4> QED
        BY <4>1
    <3>3. {id \in Stored : key[id] = r} = {id \in Stored : usageEvents[id].machine = m}
      <4> HIDE DEF row
      <4> QED
        BY <1>1, <1>2, <3>1, <3>2
    <3>4. r.totals = Lifetime({id \in Stored : usageEvents[id].machine = m})
      BY <3>1
    <3>5. \A ids : Lifetime(ids)[f] = Totals(ids)[f]
      BY DEF Lifetime
    <3> HIDE DEF row, key
    <3> QED
      BY <3>3, <3>4, <3>5
  <2>4. DOMAIN F = MachineSummaries /\ f \in Figures
    BY DEF Figures
  <2>5. IsFiniteSet(MachineSummaries)
    <3> HIDE DEF row
    <3> QED
      BY <2>1, FiniteImage DEF FiniteTables
  <2> HIDE DEF key, F
  <2>6. SumFunction(F) = Totals(Stored)[f]
    BY <1>1, <2>2, <2>3, <2>4, <2>5, FigureDivides
  <2> QED
    BY <2>6 DEF F
<1>11. ASSUME NEW f \in {"cost", "tokens"} PROVE Totals(Stored)[f] = Totals(all)[f] + Totals(odd)[f]
  <2>1. odd = Stored \ all
    <3>1. \A id \in Stored : Turn[id].created \in Int /\ Year2000 \in Int /\ clock \in Int
      BY <1>1, TurnAssumption, CalendarAssumption, TimesAssumption
    <3> QED
      BY <1>4, <3>1
  <2> HIDE DEF odd
  <2> QED
    BY <1>1, <1>5, <2>1, TotalsSplit DEF Figures
<1>12. ASSUME NEW m \in machines, byMachine[m].tokens > 0 PROVE byMachine[m].cost > 0
  <2> DEFINE ids == {id \in all : usageEvents[id].machine = m}
  <2>1. byMachine[m] = Totals(ids) /\ ids \in SUBSET Id
    BY <1>5, <1>6
  <2> HIDE DEF ids
  <2>2. IsFiniteSet(ids)
    BY <2>1, IdAssumption, FS_Subset
  <2>3. SumFunctionOnSet(Figure.tokens, ids) > 0
    BY <1>12, <2>1, TotalsAreSums DEF Figures
  <2>4. PICK t, c : t = Figure.tokens /\ c = Figure.cost
    OBVIOUS
  <2>5. (\A id \in ids : t[id] \in Nat) /\ \A id \in ids : c[id] \in Nat /\ (t[id] > 0 => c[id] > 0)
    BY <2>1, <2>4, Costs DEF Figure, TokensOf, CostOf
  <2>6. SumFunctionOnSet(c, ids) > 0
    BY <2>2, <2>3, <2>4, <2>5, SumPositive
  <2> QED
    BY <2>1, <2>4, <2>6, TotalsAreSums DEF Figures
<1> HIDE DEF byMachine, byRoot, page, odd
<1> QED
  BY <1>8, <1>9, <1>10, <1>11, <1>12 DEF FiguresAgree, of, all, byMachine, byRoot, page, odd

-----------------------------------------------------------------------------
(* What the console asked is what it may ask, and an error says nothing else. *)
QueryInv ==
  /\ clock \in Times
  /\ view.at \in {"idle", "hostnames", "windows", "done", "failed"}
  /\ view.op \in {"none", "summary", "roots", "machines", "windows"}
  /\ view.group \in GroupBys /\ view.filter \in Filter
  /\ view.totals \in Figured /\ view.installs \in Nat
  /\ \A row \in view.rows : RowTypeOK(row, view.op)
  /\ view.at = "failed" => view.rows = {} /\ view.table = <<>>

(* The columns of every kind of row. *)
LEMMA CountOf ==
  ASSUME NEW ids \in SUBSET Id, NEW f
  PROVE  Cardinality({f[id] : id \in ids}) \in Nat
BY IdAssumption, FS_Subset, FiniteImage, FS_CardinalityType

LEMMA BreakdownTypes ==
  ASSUME IngestInv, NEW g \in GroupBys, NEW ids \in SUBSET Stored, NEW row \in Breakdown(ids, g)
  PROVE  RowTypeOK(row, "summary")
<1> DEFINE counted == {id \in ids : ~excludedFromBreakdown(g, id)}
           of(k) == {id \in counted : keyFor(g, id) = k}
           rowOf(k) == [key |-> k, totals |-> Totals(of(k)), name |-> NoName]
<1>1. row \in {rowOf(k) : k \in {keyFor(g, id) : id \in counted}}
  BY DEF Breakdown
<1>2. PICK k : row = rowOf(k)
  BY <1>1
<1>3. of(k) \in SUBSET Id
  BY DEF Stored, Named
<1>4. row.key[1] \in Install
  BY BreakdownRows DEF IngestInv, TypeOK
<1> HIDE DEF of
<1> QED
  BY <1>2, <1>3, <1>4, TotalsFigured DEF RowTypeOK

LEMMA ListedTypes ==
  ASSUME IngestInv
  PROVE  /\ \A k \in scanRoots : RowTypeOK([key |-> k, totals |-> Totals({}), name |-> NoName], "roots")
         /\ \A row \in MachineSummaries : RowTypeOK(row, "machines")
<1>1. machines \subseteq Install /\ scanRoots \subseteq Install \X ScanRoot /\ Stored \in SUBSET Id
  BY DEF IngestInv, TypeOK, Stored, Named
<1>2. ASSUME NEW k \in scanRoots
      PROVE  RowTypeOK([key |-> k, totals |-> Totals({}), name |-> NoName], "roots")
  <2>1. Totals({}) \in Figured /\ k[1] \in Install
    BY <1>1, TotalsFigured
  <2> QED
    BY <2>1 DEF RowTypeOK
<1>3. ASSUME NEW row \in MachineSummaries PROVE RowTypeOK(row, "machines")
  <2>1. PICK m \in machines : row = [key |-> <<m>>, name |-> HostnameOf[m],
          totals |-> Lifetime({id \in Stored : usageEvents[id].machine = m})]
    BY DEF MachineSummaries
  <2>2. PICK ids : ids = {id \in Stored : usageEvents[id].machine = m}
    OBVIOUS
  <2>3. ids \in SUBSET Id
    BY <1>1, <2>2
  <2>4. PICK p, a : p = [id \in Id |-> usageEvents[id].path] /\ a = [id \in Id |-> Turn[id].actor]
    OBVIOUS
  <2>5. /\ {p[id] : id \in ids} = {usageEvents[id].path : id \in ids}
        /\ {a[id] : id \in ids} = {Turn[id].actor : id \in ids}
    BY <2>3, <2>4
  <2>6. /\ Cardinality({usageEvents[id].path : id \in ids}) \in Nat
        /\ Cardinality({Turn[id].actor : id \in ids}) \in Nat
    <3>1. Cardinality({p[id] : id \in ids}) \in Nat
      BY <2>3, CountOf
    <3>2. Cardinality({a[id] : id \in ids}) \in Nat
      BY <2>3, CountOf
    <3> QED
      BY <2>5, <3>1, <3>2
  <2>7. Lifetime(ids) \in LifetimeFigured
    BY <2>3, <2>6, TotalsFigured DEF Lifetime, LifetimeFigured, Figured
  <2> QED
    BY <1>1, <2>1, <2>2, <2>7 DEF RowTypeOK
<1> QED
  BY <1>2, <1>3

LEMMA NamedTypes ==
  ASSUME NEW rows, \A row \in rows : HasFields(row, RowFields), NEW op,
         \A row \in rows : RowTypeOK(row, op), NEW row \in WithHostnames(rows)
  PROVE  RowTypeOK(row, op)
<1>1. PICK old \in rows : row = IF old.key[1] \in machines
                                  THEN [old EXCEPT !.name = HostnameOf[old.key[1]]] ELSE old
  BY DEF WithHostnames
<1>2. HasFields(old, RowFields) /\ RowTypeOK(old, op)
  OBVIOUS
<1>3. row.key = old.key /\ row.totals = old.totals /\ row.name \in {old.name, HostnameOf[old.key[1]]}
  BY <1>1, <1>2 DEF HasFields, RowFields
<1> QED
  BY <1>2, <1>3 DEF RowTypeOK

LEMMA QueryStep ==
  ASSUME IngestInv, QueryInv, NamesKnown, [NextConsole]_vars
  PROVE  QueryInv'
<1>1. clock' \in Times
  BY DEF QueryInv, NextConsole, Ingest, RestartServer, Console, Tick, Show, Summary, BeginWindows,
         MachineHostnames, ScanRoots, GetMachines, NextWindow, ReadFails, EndView
<1>2. Unfiltered \in Filter /\ "actor" \in GroupBys
  BY DEF Unfiltered, Filter, GroupBys
<1>3. \A q \in Query : q.group \in GroupBys /\ q.filter \in Filter
  BY QueryAssumption
<1>4. CASE view' = view
  BY <1>1, <1>4 DEF QueryInv
<1>5. Totals({}) \in Figured /\ 0 \in Nat
  BY TotalsFigured
<1>6. CASE NoTable' /\ (Cleared \/ Listed)
  <2>1. \A row \in view'.rows : RowTypeOK(row, view'.op)
    BY <1>6, ListedTypes DEF Cleared, Listed
  <2> QED
    BY <1>1, <1>2, <1>5, <1>6, <2>1 DEF QueryInv, NoTable, Cleared, Listed, NoTotals
<1>7. ASSUME NEW q \in Query, Summarised(q), NoTable' PROVE QueryInv'
  <2>1. PICK ids : ids = ListEventsInWindow(q.window, q.filter, clock)
    OBVIOUS
  <2>2. /\ view'.at \in {"hostnames", "done"} /\ view'.op = "summary" /\ view'.group = q.group
        /\ view'.totals = Totals(ids) /\ view'.installs = ReportingInstalls(ids)
        /\ view'.rows = Breakdown(ids, q.group)
    BY <1>7, <2>1 DEF Summarised
  <2>3. ids \in SUBSET Stored /\ ids \in SUBSET Id
    BY <2>1 DEF ListEventsInWindow, Stored, Named
  <2>4. Totals(ids) \in Figured /\ \A row \in view'.rows : RowTypeOK(row, "summary")
    BY <1>3, <2>2, <2>3, TotalsFigured, BreakdownTypes
  <2>5. PICK m : m = [id \in Id |-> usageEvents[id].machine]
    OBVIOUS
  <2>6. {m[id] : id \in ids} = {usageEvents[id].machine : id \in ids}
    BY <2>3, <2>5
  <2>7. ReportingInstalls(ids) \in Nat
    BY <2>3, <2>6, CountOf DEF ReportingInstalls
  <2> QED
    BY <1>1, <1>2, <1>3, <1>7, <2>2, <2>4, <2>7 DEF QueryInv, NoTable
<1>8. CASE \E q \in Query : Began(q)
  BY <1>1, <1>2, <1>3, <1>5, <1>8 DEF QueryInv, Began, NoTotals
<1>9. CASE RowsNamed
  <2>1. \A row \in view'.rows : RowTypeOK(row, view.op)
    BY <1>9, NamedTypes DEF RowsNamed, QueryInv, NamesKnown
  <2> QED
    BY <1>1, <1>9, <2>1 DEF QueryInv, RowsNamed, ViewFields
<1>10. CASE RowAdded
  BY <1>1, <1>10 DEF QueryInv, RowAdded, ViewFields
<1> QED
  BY <1>4, <1>6, <1>7, <1>8, <1>9, <1>10, ViewStep DEF NamesKnown

(* The console's inductive invariant, over that of the ingestion. *)
ConsoleInv ==
  /\ NamesKnown /\ RootsHaveMachines /\ FiniteTables
  /\ QueryInv /\ TableInv /\ BreakdownInv

LEMMA ConsoleStart == InitConsole => ConsoleInv
<1> SUFFICES ASSUME InitConsole PROVE ConsoleInv
  OBVIOUS
<1>1. NamesKnown /\ RootsHaveMachines
  BY NamesInduction
<1>2. FiniteTables
  BY FS_EmptySet DEF InitConsole, Init, FiniteTables
<1>3. /\ view.at = "idle" /\ view.op = "none" /\ view.group = "actor" /\ view.filter = Unfiltered
      /\ view.table = <<>> /\ view.rows = {} /\ view.totals = Totals({}) /\ view.installs = 0
  BY DEF InitConsole, NoView
<1>4. clock \in Times
  <2>1. PICK t \in Times : \A u \in Times : t <= u
    BY TimesAssumption, LeastNatural
  <2> QED
    BY <2>1 DEF InitConsole, Min
<1>5. QueryInv
  BY <1>3, <1>4, TotalsFigured DEF QueryInv, GroupBys, Unfiltered, Filter
<1>6. TableInv
  BY <1>3, WindowsOrder DEF TableInv, WindowsNest
<1>7. BreakdownInv
  BY <1>3 DEF BreakdownInv
<1> QED
  BY <1>1, <1>2, <1>5, <1>6, <1>7 DEF ConsoleInv

(* Every batch that is committed and every query keep the console's invariant. *)
THEOREM ConsoleInvariant == SpecConsole => []ConsoleInv
<1>1. SpecConsole => []IngestInv
  BY ConsoleKeepsRows
<1>2. IngestInv /\ IngestInv' /\ ConsoleInv /\ [NextConsole]_vars => ConsoleInv'
  <2> SUFFICES ASSUME IngestInv, IngestInv', ConsoleInv, [NextConsole]_vars PROVE ConsoleInv'
    OBVIOUS
  <2> USE DEF ConsoleInv
  <2>1. (NamesKnown /\ RootsHaveMachines)'
    BY NamesInduction
  <2>2. FiniteTables'
    BY ConsoleOnlyReads, TablesStayFinite
  <2>3. usageEvents' \in Batch /\ \A id \in Named(usageEvents) : usageEvents'[id] = usageEvents[id]
    BY ConsoleOnlyReads, StepKeepsRows DEF IngestInv, TypeOK, Stored
  <2>4. TableInv'
    BY <2>3, TableStep DEF IngestInv, TypeOK, NamesKnown, QueryInv
  <2>5. BreakdownInv'
    BY <2>3, BreakdownStep
  <2> QED
    BY <2>1, <2>2, <2>4, <2>5, QueryStep
<1> QED
  BY <1>1, <1>2, ConsoleStart, PTL DEF SpecConsole

\* The properties UsageIngest!TypeOK and UsageConsole!ConsoleTypeOK: beside the
\* console the ingestion keeps its types; a request has the types of the BFF's
\* parameters, every row of an answer the columns of its page, each a natural
\* number, and a request that failed shows no rows and no table.
THEOREM ConsoleTypeCorrect == SpecConsole => [](TypeOK /\ ConsoleTypeOK)
<1>1. IngestInv /\ ConsoleInv => TypeOK /\ ConsoleTypeOK
  BY DEF IngestInv, ConsoleInv, QueryInv, TableInv, ConsoleTypeOK
<1> QED
  BY <1>1, ConsoleKeepsRows, ConsoleInvariant, PTL

\* The property UsageConsole!WindowsNest: in a table of ranges (Service.Windows)
\* no row is less than a row whose range it contains, although every row is
\* a query of its own and batches are committed between them.
THEOREM RangesContainRanges == SpecConsole => []WindowsNest
<1>1. ConsoleInv => WindowsNest
  BY DEF ConsoleInv, TableInv
<1> QED
  BY <1>1, ConsoleInvariant, PTL

\* The property UsageConsole!BreakdownAddsUp: the rows of a breakdown
\* (Aggregate) and the turns group_by=path leaves out sum to the totals beside
\* it and have its reporting installs between them, and no row has more than
\* the turns of its own machine, directory or actor (keyFor), for every set of
\* stored turns, every filter and every way to group them.
THEOREM BreakdownsAddUp == SpecConsole => []BreakdownAddsUp
<1>1. ConsoleInv => BreakdownAddsUp
  BY AddsUp DEF ConsoleInv, BreakdownInv, BreakdownAddsUp
<1> QED
  BY <1>1, ConsoleInvariant, PTL

\* The property UsageConsole!FiguresAgree: the filters by machine and by scan
\* root each divide the totals, the machine page has all that is stored, and
\* nothing that has tokens is free.
THEOREM FiguresAlwaysAgree == SpecConsole => []FiguresAgree
<1>1. IngestInv /\ ConsoleInv => FiguresAgree
  BY FiguresFollow DEF ConsoleInv, QueryInv
<1> QED
  BY <1>1, ConsoleKeepsRows, ConsoleInvariant, PTL
=============================================================================
