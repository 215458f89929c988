SPECIFICATION Spec
CONSTANTS
  Run = {r1}
  File = {f1}
  Session = {s1}
  Dir = {1, 2}
  Trees <- MCTrees
  NoRepo = NoRepo
  Unknown = Unknown
  Other = Other
  Bare = Bare
  Malformed = Malformed
  NoFile = NoFile
  MaxLines = 2
  MaxTotal = 2
  MaxMoves = 0
  SplitFailures = TRUE
INVARIANT NoDoubleCount
