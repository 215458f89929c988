SPECIFICATION FairSpec
CONSTANTS
  Handler = {h1, h2}
  Install = {i1}
  ScanRoot = {s1}
  Path = {p1}
  Id = {a, b}
  NoRow = NoRow
  NoRequest = NoRequest
  NoHandler = NoHandler
  Run = {r1}
  NoRun = NoRun
  LocalInstall = i1
  CrashDuringSave = FALSE
PROPERTIES
  NoResend
  EventuallySettled
