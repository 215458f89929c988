SPECIFICATION SpecReports
CONSTANTS
  Handler = {h1, h2}
  Install = {i1, i2}
  s1 = s1
  s2 = s2
  ScanRoot = {s1, s2}
  Path = {"p"}
  Id = {a}
  NoRow = NoRow
  NoRequest = NoRequest
  NoHandler = NoHandler
  Run = {r1, r2}
  Hostnames <- MCHostnames
  NoName = NoName
  NoInstall = NoInstall
  File <- MCFile
  MaxWrites = 2
CONSTRAINTS
  FirstRunsApart
  ReadersBesideRequests
SYMMETRY Symmetry
INVARIANTS
  ReportsTypeOK
  OneMachineRow
  LabelCatchesUp
  RowsAreAttributed
