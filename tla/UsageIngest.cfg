SPECIFICATION SpecConsole
CONSTANTS
  Handler = {h1, h2}
  Install = {i1, i2}
  ScanRoot = {s1}
  Path = {"p", "q"}
  a = a
  b = b
  Id = {a, b}
  NoRow = NoRow
  NoRequest = NoRequest
  NoHandler = NoHandler
  HostnameOf <- MCHostnameOf
  NoName = NoName
  Times = {723, 842}
  FirstWeekday = 1
  MonthStarts <- MCMonthStarts
  YearStarts = {0}
  Year2000 = 0
  Turn <- MCTurn
  NoFilter = NoFilter
  Query <- MCQuery
CONSTRAINTS OneWriterBesideConsole OtherPathInSummaries
SYMMETRY Symmetry
INVARIANTS
  TypeOK
  ConsoleTypeOK
  EventsHaveLabels
  CreatedMeansStored
  InsertedOnce
  WindowsNest
  EveryRowNamed
  BreakdownAddsUp
  FiguresAgree
PROPERTY WriteOnce
