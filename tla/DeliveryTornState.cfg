SPECIFICATION CSpec
CONSTANTS
  Handler = {h1}
  Install = {i1}
  ScanRoot = {s1}
  Path = {p1}
  Id = {a}
  NoRow = NoRow
  NoRequest = NoRequest
  NoHandler = NoHandler
  Run = {r1}
  NoRun = NoRun
  LocalInstall = i1
  CrashDuringSave = TRUE
INVARIANT StateFileLoadable
