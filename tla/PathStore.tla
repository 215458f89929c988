----------------------------- MODULE PathStore -----------------------------
(***************************************************************************)
(* The collector's path attribution: every invocation scans the lines of   *)
(* each transcript past that file's stored offset for touched directories, *)
(* adds their git roots to the session's running votes, and stores the new *)
(* offset; a directory's root is looked up in git once and then cached.    *)
(* Votes, offsets and cache are separate transactions of one SQLite file;  *)
(* transcripts grow while they are read and working trees move;            *)
(* invocations fail, die or overlap.                                       *)
(***************************************************************************)
EXTENDS Naturals, Sequences, FiniteSets, Functions

CONSTANTS
  Run,            \* collector invocations that may overlap
  File,           \* transcript files
  Session,        \* session ids
  Dir,            \* directories: naturals, for the order that breaks ties
  Trees,          \* the layouts of working trees over them
  NoRepo,         \* not inside a working tree
  Unknown,        \* no cached root, and no vote
  Other,          \* a line that touches no path outside scratch space
  Bare,           \* a line without a session id
  Malformed,      \* what a reader sees of a line that is still being written
  NoFile,         \* no file in hand
  MaxLines,       \* bound on the lines of a transcript
  MaxTotal,       \* bound on the lines of all transcripts
  MaxMoves,       \* bound on changes of the working trees
  SplitFailures   \* TRUE: an invocation may fail between votes and offset

Line == Dir \cup {Other, Bare}

(* Git's layout of the directories: each has a top level, or none; the top
   level of a top level is itself. *)
IsTree(t) ==
  /\ t \in [Dir -> Dir \cup {NoRepo}]
  /\ \A d \in Dir : t[d] # NoRepo => t[t[d]] = t[d]

ASSUME DirAssumption == Dir \subseteq Nat /\ IsFiniteSet(Dir)
ASSUME TreeAssumption == \A t \in Trees : IsTree(t)
ASSUME MarkerAssumption ==
  {Other, Bare, Malformed, NoRepo, Unknown} \cap Dir = {} /\ Malformed \notin Line \cup {Unknown}
ASSUME FileAssumption == IsFiniteSet(File) /\ NoFile \notin File
ASSUME BoundAssumption == MaxLines \in Nat /\ MaxMoves \in Nat
ASSUME SwitchAssumption == SplitFailures \in BOOLEAN

VARIABLES
  sessionOf,   \* the session each transcript belongs to (a subagent's: its parent's)
  transcript,  \* the lines of each file
  partial,     \* files whose last line is not complete yet
  toplevel,    \* where git finds each directory's top level now
  moves,       \* bound: changes of the working trees
  lineOffset,  \* session_scan_progress
  voteCount,   \* session_path_votes
  gitRootCache,\* git_root_cache
  ballot,      \* history: what each line last voted for; Malformed if passed over half written
  pc,          \* where each invocation is
  left,        \* files it has not read yet
  file,        \* the file in hand
  lines,       \* the lines it read from it
  startLine,   \* the offset it read for it
  entries      \* GitRootCache: what it was seeded with, and learned

worldVars == <<sessionOf, transcript, partial, toplevel, moves>>
storeVars == <<lineOffset, voteCount, gitRootCache, ballot>>
runVars == <<pc, left, file, lines, startLine, entries>>
vars == <<worldVars, storeVars, runVars>>

NothingKnown == [d \in Dir |-> Unknown]

Init ==
  /\ sessionOf \in [File -> Session]
  /\ transcript = [f \in File |-> <<>>]
  /\ partial = {}
  /\ toplevel \in Trees
  /\ moves = 0
  /\ lineOffset = [f \in File |-> 0]
  /\ voteCount = [s \in Session |-> [g \in Dir |-> 0]]
  /\ gitRootCache = NothingKnown
  /\ ballot = [f \in File |-> [i \in 1..MaxLines |-> Unknown]]
  /\ pc = [r \in Run |-> "idle"]
  /\ left = [r \in Run |-> {}]
  /\ file = [r \in Run |-> NoFile]
  /\ lines = [r \in Run |-> <<>>]
  /\ startLine = [r \in Run |-> 0]
  /\ entries = [r \in Run |-> NothingKnown]

(* ReadTranscriptLines: an unterminated last line counts as a line. *)
ReadLines(f) ==
  [i \in DOMAIN transcript[f] |->
     IF f \in partial /\ i = Len(transcript[f]) THEN Malformed ELSE transcript[f][i]]

(* firstSessionID finds one. *)
NamesSession(ls) == \E i \in DOMAIN ls : ls[i] \notin {Bare, Malformed}

(* Seeded fault: git is asked every time. *)
AskGitAgain(r, d) == IF toplevel[d] # NoRepo THEN toplevel[d] ELSE Unknown

(* CachedGitRootResolver: git's errors are not cached. *)
CachedRoot(r, d) == IF entries[r][d] # Unknown THEN entries[r][d]
                    ELSE IF toplevel[d] # NoRepo THEN toplevel[d] ELSE Unknown

(* A directory that git cannot place votes as itself. *)
RootOf(r, d) == IF CachedRoot(r, d) # Unknown THEN CachedRoot(r, d) ELSE d

(* TallyGitRoots over ExtractTouchedPaths of the lines past `from`. *)
Tally(r, from) ==
  [g \in Dir |-> Cardinality({i \in DOMAIN lines[r] :
     i > from /\ lines[r][i] \in Dir /\ RootOf(r, lines[r][i]) = g})]

Learned(r, from) ==
  [d \in Dir |-> IF \E i \in DOMAIN lines[r] : i > from /\ lines[r][i] = d
                   THEN CachedRoot(r, d) ELSE entries[r][d]]

Ballots(r, from) ==
  [i \in 1..MaxLines |->
     IF i \notin DOMAIN lines[r] \/ i <= from THEN ballot[file[r]][i]
     ELSE IF lines[r][i] = Malformed THEN Malformed
     ELSE IF lines[r][i] \in Dir THEN RootOf(r, lines[r][i])
     ELSE Unknown]

LineCount == FoldFunction(LAMBDA ls, n : Len(ls) + n, 0, transcript)

(* Claude Code appends a line, or the first part of one. *)
AppendLine(f, l) ==
  /\ f \notin partial
  /\ Len(transcript[f]) < MaxLines /\ LineCount < MaxTotal
  /\ transcript' = [transcript EXCEPT ![f] = Append(@, l)]
  /\ partial' \in {partial, partial \cup {f}}
  /\ UNCHANGED <<sessionOf, toplevel, moves, storeVars, runVars>>

CompleteLine(f) ==
  /\ f \in partial
  /\ partial' = partial \ {f}
  /\ UNCHANGED <<sessionOf, transcript, toplevel, moves, storeVars, runVars>>

(* git init, or a repository that moves, appears or goes. *)
MoveTrees ==
  /\ moves < MaxMoves
  /\ moves' = moves + 1
  /\ toplevel' \in Trees \ {toplevel}
  /\ UNCHANGED <<sessionOf, transcript, partial, storeVars, runVars>>

(* The cache is seeded with AllGitRoots. *)
BeginScan(r) ==
  /\ pc[r] = "idle"
  /\ pc' = [pc EXCEPT ![r] = "file"]
  /\ left' = [left EXCEPT ![r] = File]
  /\ entries' = [entries EXCEPT ![r] = gitRootCache]
  /\ UNCHANGED <<worldVars, storeVars, file, lines, startLine>>

(* Seeded fault: a file without any session id is scanned like the others. *)
ReadAnyFile(r, f) ==
  /\ pc[r] = "file"
  /\ f \in left[r]
  /\ left' = [left EXCEPT ![r] = @ \ {f}]
  /\ pc' = [pc EXCEPT ![r] = "offset"]
  /\ file' = [file EXCEPT ![r] = f]
  /\ lines' = [lines EXCEPT ![r] = ReadLines(f)]
  /\ UNCHANGED <<worldVars, storeVars, startLine, entries>>

(* Seeded fault: a file without any session id ends the scan. *)
StopAtUnnamed(r, f) ==
  /\ pc[r] = "file"
  /\ f \in left[r]
  /\ IF NamesSession(ReadLines(f))
       THEN /\ pc' = [pc EXCEPT ![r] = "offset"]
            /\ file' = [file EXCEPT ![r] = f]
            /\ lines' = [lines EXCEPT ![r] = ReadLines(f)]
            /\ left' = [left EXCEPT ![r] = @ \ {f}]
       ELSE left' = [left EXCEPT ![r] = {}] /\ UNCHANGED <<pc, file, lines>>
  /\ UNCHANGED <<worldVars, storeVars, startLine, entries>>

(* A file without any session id is skipped. *)
ReadFile(r, f) ==
  /\ pc[r] = "file"
  /\ f \in left[r]
  /\ left' = [left EXCEPT ![r] = @ \ {f}]
  /\ IF NamesSession(ReadLines(f))
       THEN /\ pc' = [pc EXCEPT ![r] = "offset"]
            /\ file' = [file EXCEPT ![r] = f]
            /\ lines' = [lines EXCEPT ![r] = ReadLines(f)]
       ELSE UNCHANGED <<pc, file, lines>>
  /\ UNCHANGED <<worldVars, storeVars, startLine, entries>>

(* An offset past the end of the file is clamped to it. *)
ScanOffset(r) ==
  /\ pc[r] = "offset"
  /\ pc' = [pc EXCEPT ![r] = "votes"]
  /\ startLine' = [startLine EXCEPT ![r] =
       IF lineOffset[file[r]] > Len(lines[r]) THEN Len(lines[r]) ELSE lineOffset[file[r]]]
  /\ UNCHANGED <<worldVars, storeVars, left, file, lines, entries>>

(* One transaction.  With nothing to add it is not even opened. *)
AddVotes(r) ==
  /\ pc[r] = "votes"
  /\ pc' = [pc EXCEPT ![r] = "mark"]
  /\ voteCount' = [voteCount EXCEPT ![sessionOf[file[r]]] =
       [g \in Dir |-> @[g] + Tally(r, startLine[r])[g]]]
  /\ entries' = [entries EXCEPT ![r] = Learned(r, startLine[r])]
  /\ ballot' = [ballot EXCEPT ![file[r]] = Ballots(r, startLine[r])]
  /\ UNCHANGED <<worldVars, lineOffset, gitRootCache, left, file, lines, startLine>>

LetGo(r) ==
  /\ file' = [file EXCEPT ![r] = NoFile]
  /\ lines' = [lines EXCEPT ![r] = <<>>]
  /\ startLine' = [startLine EXCEPT ![r] = 0]

(* Seeded fault: the offset is the file's length now, not the length read. *)
SetOffsetToEnd(r) ==
  /\ pc[r] = "mark"
  /\ pc' = [pc EXCEPT ![r] = "file"]
  /\ lineOffset' = [lineOffset EXCEPT ![file[r]] = Len(transcript[file[r]])]
  /\ LetGo(r)
  /\ UNCHANGED <<worldVars, voteCount, gitRootCache, ballot, left, entries>>

(* A second transaction. *)
SetScanOffset(r) ==
  /\ pc[r] = "mark"
  /\ pc' = [pc EXCEPT ![r] = "file"]
  /\ lineOffset' = [lineOffset EXCEPT ![file[r]] = Len(lines[r])]
  /\ LetGo(r)
  /\ UNCHANGED <<worldVars, voteCount, gitRootCache, ballot, left, entries>>

(* SaveGitRoots.  Then every session is resolved from its votes, which
   stores nothing, and the invocation goes on to send. *)
EndScan(r) ==
  /\ pc[r] = "file"
  /\ left[r] = {}
  /\ pc' = [pc EXCEPT ![r] = "idle"]
  /\ gitRootCache' = [d \in Dir |-> IF entries[r][d] # Unknown THEN entries[r][d] ELSE gitRootCache[d]]
  /\ entries' = [entries EXCEPT ![r] = NothingKnown]
  /\ UNCHANGED <<worldVars, lineOffset, voteCount, ballot, left, file, lines, startLine>>

(* Any error (a busy database among them), or the end of the process. *)
AbortScan(r) ==
  /\ pc[r] \notin {"idle"} \cup (IF SplitFailures THEN {} ELSE {"mark"})
  /\ pc' = [pc EXCEPT ![r] = "idle"]
  /\ left' = [left EXCEPT ![r] = {}]
  /\ LetGo(r)
  /\ entries' = [entries EXCEPT ![r] = NothingKnown]
  /\ UNCHANGED <<worldVars, storeVars>>

ScanStep(r) ==
  \/ \E f \in File : ReadFile(r, f)
  \/ ScanOffset(r)
  \/ AddVotes(r)
  \/ SetScanOffset(r)
  \/ EndScan(r)

Next ==
  \/ MoveTrees
  \/ \E f \in File : CompleteLine(f) \/ \E l \in Line : AppendLine(f, l)
  \/ \E r \in Run : BeginScan(r) \/ ScanStep(r) \/ AbortScan(r)

Spec == Init /\ [][Next]_vars

(* An abort after the last file ends in the same state as EndScan. *)
Failure == \E r \in Run : AbortScan(r) /\ ~EndScan(r)

(* Fairness.  The collector is started again and again, a started one      *)
(* takes its next step, lines get finished, and failures stop at some      *)
(* point.                                                                  *)
FairSpec ==
  /\ Spec
  /\ \A r \in Run : WF_vars(BeginScan(r)) /\ WF_vars(ScanStep(r))
  /\ \A f \in File : WF_vars(CompleteLine(f))
  /\ <>[][~Failure]_vars

-----------------------------------------------------------------------------
(* MajorityGitRoot: the loop, along one order of the map's iteration. *)

(* Seeded fault: a tie goes to whichever root comes last. *)
LastOfTies(best, g, counts) == counts[g] >= best.count

Better(best, g, counts) ==
  \/ counts[g] > best.count
  \/ counts[g] = best.count /\ counts[g] > 0 /\ g < best.root

MajorityGitRoot(counts, order) ==
  LET best[i \in 0..Len(order)] ==
        IF i = 0
          THEN [root |-> 0, count |-> 0]
          ELSE IF Better(best[i - 1], order[i], counts)
                 THEN [root |-> order[i], count |-> counts[order[i]]]
                 ELSE best[i - 1]
  IN best[Len(order)]

IterationOrders == Bijection(1..Cardinality(Dir), Dir)

(* The smallest of the roots with the most votes. *)
IsMajority(best, counts) ==
  IF \A g \in Dir : counts[g] = 0
    THEN best.count = 0
    ELSE /\ best.root \in Dir
         /\ best.count = counts[best.root]
         /\ \A g \in Dir : counts[g] <= best.count
         /\ \A g \in Dir : counts[g] = best.count => best.root <= g

-----------------------------------------------------------------------------
TypeOK ==
  /\ sessionOf \in [File -> Session]
  /\ transcript \in [File -> Seq(Line)]
  /\ \A f \in File : Len(transcript[f]) <= MaxLines
  /\ partial \subseteq File
  /\ toplevel \in Trees /\ moves \in 0..MaxMoves
  /\ lineOffset \in [File -> Nat]
  /\ voteCount \in [Session -> [Dir -> Nat]]
  /\ gitRootCache \in [Dir -> Dir \cup {Unknown}]
  /\ ballot \in [File -> [1..MaxLines -> Dir \cup {Malformed, Unknown}]]
  /\ pc \in [Run -> {"idle", "file", "offset", "votes", "mark"}]
  /\ left \in [Run -> SUBSET File]
  /\ file \in [Run -> File \cup {NoFile}]
  /\ startLine \in [Run -> Nat]
  /\ entries \in [Run -> [Dir -> Dir \cup {Unknown}]]
  /\ \A r \in Run :
       pc[r] \in {"offset", "votes", "mark"} => file[r] \in File /\ NamesSession(lines[r])

(* The lines of a session's files, up to a bound per file. *)
LinesOf(s, upto) ==
  {x \in File \X (1..MaxLines) : sessionOf[x[1]] = s /\ x[2] <= upto[x[1]]}

Touching(X) == {x \in X : transcript[x[1]][x[2]] \in Dir}

VotingFor(X, g) == {x \in X : ballot[x[1]][x[2]] = g}

Counted(r, f) == pc[r] = "mark" /\ file[r] = f

(* How far each file's votes have been added. *)
AddedUpTo ==
  [f \in File |->
     IF \E r \in Run : Counted(r, f)
       THEN Len(lines[CHOOSE r \in Run : Counted(r, f)])
       ELSE lineOffset[f]]

(* Every one of these lines has voted, for one root, if it touches a
   directory and was whole when its turn came; the others have not, and
   there are no votes but these. *)
ExactlyCounted(s, X) ==
  /\ \A x \in X :
       \/ ballot[x[1]][x[2]] = Malformed
       \/ ballot[x[1]][x[2]] \in Dir <=> x \in Touching(X)
  /\ \A g \in Dir : voteCount[s][g] = Cardinality(VotingFor(X, g))

(* The stored votes of a session are exactly the votes of the lines before
   its files' offsets (and of the file whose offset is about to be stored):
   nothing is counted twice and nothing skipped, although files grow while
   they are read (AddVotes increments instead of recounting). *)
VotesMatchOffsets == \A s \in Session : ExactlyCounted(s, LinesOf(s, AddedUpTo))

AllLines == [f \in File |-> Len(transcript[f])]

(* A line is never counted twice: a run only re-parses genuinely new lines
   (PathStore's own comment). *)
NoDoubleCount ==
  \A s \in Session : FoldFunction(+, 0, voteCount[s]) <= Cardinality(Touching(LinesOf(s, AllLines)))

(* The path of a session does not depend on the order in which Go happens to
   iterate over the votes, and is the smallest root with the most of them
   (MajorityGitRoot's tie-break). *)
MajorityIsDeterministic ==
  \A s \in Session, order \in IterationOrders :
    IsMajority(MajorityGitRoot(voteCount[s], order), voteCount[s])

(* For invocations one after another, a directory's first stored root is the
   one it keeps, and the one its lines vote for in every later run, wherever
   its repository has gone since (git_root_cache: never resolved twice). *)
CachedForEver ==
  [][\A d \in Dir : gitRootCache[d] # Unknown =>
       /\ gitRootCache'[d] = gitRootCache[d]
       /\ \A r \in Run : \A i \in DOMAIN lines[r] :
            AddVotes(r) /\ i > startLine[r] /\ lines[r][i] = d
              => ballot'[file[r]][i] = gitRootCache[d]]_vars

(* When transcripts stop growing every line of a file that names its session
   has voted (or was passed over half written), and the votes stay. *)
EventuallyAllCounted ==
  <>[](\A s \in Session : ExactlyCounted(s, LinesOf(s,
         [f \in File |-> IF NamesSession(transcript[f]) THEN Len(transcript[f]) ELSE 0])))
=============================================================================
