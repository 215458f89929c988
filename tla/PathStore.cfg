SPECIFICATION FairSpec
CONSTANTS
  Run = {r1}
  File = {f1,f2}
  Session = {s1,s2}
  Dir = {1, 2}
  Trees <- MCTrees
  NoRepo = NoRepo
  Unknown = Unknown
  Other = Other
  Bare = Bare
  Malformed = Malformed
  NoFile = NoFile
  MaxLines = 2
  MaxTotal = 3
  MaxMoves = 1
  SplitFailures = FALSE
CONSTRAINTS
  OneNaming
  FewLines
INVARIANTS
  TypeOK
  VotesMatchOffsets
  MajorityIsDeterministic
PROPERTIES
  CachedForEver
  EventuallyAllCounted
