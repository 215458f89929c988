SPECIFICATION CSpec
CONSTANTS
  Handler = {h1, h2}
  Install = {i1}
  ScanRoot = {s1}
  Path = {p1, p2}
  Id = {a, b}
  NoRow = NoRow
  NoRequest = NoRequest
  NoHandler = NoHandler
  Run = {r1, r2}
  NoRun = NoRun
  LocalInstall = i1
  CrashDuringSave = TRUE
CONSTRAINTS
  OneReads
  OnePathEach
SYMMETRY Symmetry
INVARIANTS
  CTypeOK
  SentImpliesStored
PROPERTY LedgerSpec
