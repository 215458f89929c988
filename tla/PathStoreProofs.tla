-------------------------- MODULE PathStoreProofs --------------------------
(***************************************************************************)
(* Proofs about PathStore, for every set of transcripts, sessions and      *)
(* directories, every layout of working trees and every bound: types, that *)
(* no vote is ever lost, the majority, and, for invocations that run one   *)
(* after another and do not fail between the two transactions, that the    *)
(* votes are those of the lines passed, none of them counted twice, and    *)
(* that a stored root is final.                                            *)
(***************************************************************************)
EXTENDS PathStore, RecursionTheorems

USE DEF worldVars, storeVars, runVars, vars

(* What a reader holds of a transcript has a line for each of its lines. *)
LEMMA ReadLinesType ==
  ASSUME TypeOK, NEW f \in File
  PROVE  /\ ReadLines(f) \in Seq(Line \cup {Malformed})
         /\ Len(ReadLines(f)) = Len(transcript[f])
         /\ \A i \in 1..Len(transcript[f]) : ReadLines(f)[i] \in {Malformed, transcript[f][i]}
<1>1. transcript[f] \in Seq(Line) /\ Len(transcript[f]) \in Nat
  BY DEF TypeOK
<1>2. DOMAIN transcript[f] = 1..Len(transcript[f])
  BY <1>1
<1>3. \A i \in 1..Len(transcript[f]) : transcript[f][i] \in Line
  BY <1>1
<1> QED
  BY <1>1, <1>2, <1>3 DEF ReadLines

(* A directory's root, cached or not, is a directory. *)
LEMMA RootOfType ==
  ASSUME TypeOK, NEW r \in Run, NEW d \in Dir
  PROVE  RootOf(r, d) \in Dir /\ CachedRoot(r, d) \in Dir \cup {Unknown}
<1>1. entries[r][d] \in Dir \cup {Unknown} /\ toplevel[d] \in Dir \cup {NoRepo}
  BY TreeAssumption DEF TypeOK, IsTree
<1> QED
  BY <1>1 DEF RootOf, CachedRoot

LinesOK ==
  /\ lines \in [Run -> Seq(Line \cup {Malformed})]
  /\ \A r \in Run : Len(lines[r]) <= MaxLines

(* The lines that vote for a root are finitely many. *)
Voters(r, from, g) ==
  {i \in DOMAIN lines[r] : i > from /\ lines[r][i] \in Dir /\ RootOf(r, lines[r][i]) = g}

LEMMA VotersFinite ==
  ASSUME LinesOK, NEW r \in Run, NEW from, NEW g \in Dir
  PROVE  /\ IsFiniteSet(Voters(r, from, g))
         /\ Voters(r, from, g) \subseteq 1..Len(lines[r])
         /\ Tally(r, from)[g] = Cardinality(Voters(r, from, g))
         /\ Tally(r, from)[g] \in Nat
<1>1. Len(lines[r]) \in Nat /\ DOMAIN lines[r] = 1..Len(lines[r])
  BY DEF LinesOK
<1>2. Voters(r, from, g) \in SUBSET (1..Len(lines[r]))
  BY <1>1 DEF Voters
<1>3. IsFiniteSet(1..Len(lines[r]))
  BY <1>1, FS_Interval
<1>4. IsFiniteSet(Voters(r, from, g))
  BY <1>2, <1>3, FS_Subset
<1>5. Tally(r, from)[g] = Cardinality(Voters(r, from, g))
  BY DEF Tally, Voters
<1> QED
  BY <1>2, <1>4, <1>5, FS_CardinalityType

Typed == TypeOK /\ LinesOK

LEMMA AddVotesType ==
  ASSUME Typed, NEW r \in Run, AddVotes(r)
  PROVE  Typed'
<1> USE DEF Typed
<1>1. file[r] \in File /\ sessionOf[file[r]] \in Session
  BY DEF TypeOK, AddVotes
<1>2. \A g \in Dir : Tally(r, startLine[r])[g] \in Nat
  BY VotersFinite
<1>3. voteCount' \in [Session -> [Dir -> Nat]]
  BY <1>1, <1>2 DEF TypeOK, AddVotes
<1>4. Learned(r, startLine[r]) \in [Dir -> Dir \cup {Unknown}]
  BY RootOfType DEF Learned, TypeOK
<1>5. Ballots(r, startLine[r]) \in [1..MaxLines -> Dir \cup {Malformed, Unknown}]
  <2> SUFFICES ASSUME NEW i \in 1..MaxLines
               PROVE  Ballots(r, startLine[r])[i] \in Dir \cup {Malformed, Unknown}
    BY DEF Ballots
  <2>1. ballot \in [File -> [1..MaxLines -> Dir \cup {Malformed, Unknown}]]
    BY DEF TypeOK
  <2>2. ballot[file[r]][i] \in Dir \cup {Malformed, Unknown}
    BY <1>1, <2>1
  <2> QED
    BY <2>2, RootOfType DEF Ballots
<1>6. entries' \in [Run -> [Dir -> Dir \cup {Unknown}]]
  BY <1>4 DEF TypeOK, AddVotes
<1>7. ballot' \in [File -> [1..MaxLines -> Dir \cup {Malformed, Unknown}]]
  BY <1>1, <1>5 DEF TypeOK, AddVotes
<1>8. pc' \in [Run -> {"idle", "file", "offset", "votes", "mark"}]
  BY DEF TypeOK, AddVotes
<1>9. \A q \in Run : pc'[q] \in {"offset", "votes", "mark"} => file'[q] \in File /\ NamesSession(lines'[q])
  BY DEF TypeOK, AddVotes
<1>10. LinesOK'
  BY DEF LinesOK, AddVotes
<1> QED
  BY <1>3, <1>6, <1>7, <1>8, <1>9, <1>10 DEF TypeOK, AddVotes, NamesSession

LEMMA TypedInduction == (Init => Typed) /\ (Typed /\ [Next]_vars => Typed')
<1> USE BoundAssumption, FileAssumption DEF Typed
<1>1. Init => Typed
  <2> SUFFICES ASSUME Init PROVE Typed
    OBVIOUS
  <2>1. <<>> \in Seq(Line) /\ <<>> \in Seq(Line \cup {Malformed}) /\ Len(<<>>) = 0
    OBVIOUS
  <2>2. TypeOK
    BY <2>1 DEF Init, TypeOK, NothingKnown
  <2> QED
    BY <2>1, <2>2 DEF Init, LinesOK
<1>2. Typed /\ [Next]_vars => Typed'
  <2> SUFFICES ASSUME Typed, [Next]_vars PROVE Typed'
    OBVIOUS
  <2>1. ASSUME NEW f \in File, NEW l \in Line, AppendLine(f, l) PROVE Typed'
    <3>1. Append(transcript[f], l) \in Seq(Line) /\ Len(Append(transcript[f], l)) = Len(transcript[f]) + 1
      BY <2>1 DEF TypeOK
    <3>2. transcript' \in [File -> Seq(Line)] /\ \A g \in File : Len(transcript'[g]) <= MaxLines
      BY <2>1, <3>1 DEF TypeOK, AppendLine
    <3>3. partial' \subseteq File
      BY <2>1 DEF TypeOK, AppendLine
    <3> QED
      BY <2>1, <3>2, <3>3 DEF AppendLine, TypeOK, LinesOK, NamesSession
  <2>2. ASSUME NEW f \in File, CompleteLine(f) PROVE Typed'
    BY <2>2 DEF CompleteLine, TypeOK, LinesOK, NamesSession
  <2>3. CASE MoveTrees
    BY <2>3 DEF MoveTrees, TypeOK, LinesOK, NamesSession
  <2>4. ASSUME NEW r \in Run, BeginScan(r) PROVE Typed'
    BY <2>4 DEF BeginScan, TypeOK, LinesOK, NamesSession
  <2>5. ASSUME NEW r \in Run, NEW f \in File, ReadFile(r, f) PROVE Typed'
    <3>1. CASE NamesSession(ReadLines(f))
      <4>1. ReadLines(f) \in Seq(Line \cup {Malformed}) /\ Len(ReadLines(f)) <= MaxLines
        BY ReadLinesType DEF TypeOK
      <4>2. /\ lines' = [lines EXCEPT ![r] = ReadLines(f)] /\ file' = [file EXCEPT ![r] = f]
            /\ pc' = [pc EXCEPT ![r] = "offset"] /\ left' = [left EXCEPT ![r] = @ \ {f}]
        BY <2>5, <3>1 DEF ReadFile
      <4>3. LinesOK'
        BY <4>1, <4>2 DEF LinesOK
      <4>4. \A q \in Run : pc'[q] \in {"offset", "votes", "mark"} => file'[q] \in File /\ NamesSession(lines'[q])
        BY <3>1, <4>2 DEF TypeOK, LinesOK
      <4> QED
        BY <2>5, <4>2, <4>3, <4>4 DEF ReadFile, TypeOK, NamesSession
    <3>2. CASE ~NamesSession(ReadLines(f))
      BY <2>5, <3>2 DEF ReadFile, TypeOK, LinesOK, NamesSession
    <3> QED
      BY <3>1, <3>2
  <2>6. ASSUME NEW r \in Run, ScanOffset(r) PROVE Typed'
    <3>1. Len(lines[r]) \in Nat /\ file[r] \in File
      BY <2>6 DEF TypeOK, LinesOK, ScanOffset
    <3>2. startLine' \in [Run -> Nat]
      BY <2>6, <3>1 DEF ScanOffset, TypeOK
    <3>3. \A q \in Run : pc'[q] \in {"offset", "votes", "mark"} => file'[q] \in File /\ NamesSession(lines'[q])
      BY <2>6 DEF ScanOffset, TypeOK
    <3> QED
      BY <2>6, <3>2, <3>3 DEF ScanOffset, TypeOK, LinesOK, NamesSession
  <2>7. ASSUME NEW r \in Run, AddVotes(r) PROVE Typed'
    BY <2>7, AddVotesType
  <2>8. ASSUME NEW r \in Run, LetGo(r) PROVE /\ file' \in [Run -> File \cup {NoFile}]
                                             /\ startLine' \in [Run -> Nat]
                                             /\ LinesOK'
    BY <2>8 DEF LetGo, TypeOK, LinesOK
  <2>9. ASSUME NEW r \in Run, SetScanOffset(r) PROVE Typed'
    <3>1. LetGo(r) /\ Len(lines[r]) \in Nat /\ file[r] \in File
      BY <2>9 DEF SetScanOffset, TypeOK, LinesOK
    <3>2. lineOffset' \in [File -> Nat]
      BY <2>9, <3>1 DEF SetScanOffset, TypeOK
    <3>3. \A q \in Run : pc'[q] \in {"offset", "votes", "mark"} => file'[q] \in File /\ NamesSession(lines'[q])
      BY <2>9 DEF SetScanOffset, LetGo, TypeOK
    <3> QED
      BY <2>8, <2>9, <3>1, <3>2, <3>3 DEF SetScanOffset, TypeOK, NamesSession
  <2>10. ASSUME NEW r \in Run, EndScan(r) PROVE Typed'
    <3>1. /\ gitRootCache' \in [Dir -> Dir \cup {Unknown}]
          /\ entries' \in [Run -> [Dir -> Dir \cup {Unknown}]]
      BY <2>10 DEF EndScan, TypeOK, NothingKnown
    <3>2. /\ pc' \in [Run -> {"idle", "file", "offset", "votes", "mark"}]
          /\ \A q \in Run : pc'[q] \in {"offset", "votes", "mark"} => file'[q] \in File /\ NamesSession(lines'[q])
      BY <2>10 DEF EndScan, TypeOK
    <3> QED
      BY <2>10, <3>1, <3>2 DEF EndScan, TypeOK, LinesOK
  <2>11. ASSUME NEW r \in Run, AbortScan(r) PROVE Typed'
    <3>1. \A q \in Run : pc'[q] \in {"offset", "votes", "mark"} => file'[q] \in File /\ NamesSession(lines'[q])
      BY <2>11 DEF AbortScan, LetGo, TypeOK
    <3> QED
      BY <2>8, <2>11, <3>1 DEF AbortScan, TypeOK, NothingKnown, NamesSession
  <2>12. CASE UNCHANGED vars
    BY <2>12 DEF TypeOK, LinesOK, NamesSession
  <2> QED
    BY <2>1, <2>2, <2>3, <2>4, <2>5, <2>6, <2>7, <2>9, <2>10, <2>11, <2>12 DEF Next, ScanStep
<1> QED
  BY <1>1, <1>2

(* Every variable keeps its type, an invocation past the offset holds a file
   that names its session, and a vote is for a directory; however many
   invocations overlap and wherever they fail. *)
THEOREM TypeCorrect == Spec => []TypeOK
<1>1. Typed => TypeOK
  BY DEF Typed
<1> QED
  BY <1>1, TypedInduction, PTL DEF Spec

(***************************************************************************)
(* One invocation at a time.                                               *)
(***************************************************************************)

(* What is stored is what the invocation at work was seeded with. *)
Seeded ==
  \A r \in Run : pc[r] # "idle" =>
    \A d \in Dir : gitRootCache[d] # Unknown => entries[r][d] = gitRootCache[d]

LEMMA SeededInduction ==
  ASSUME \A q, r \in Run : q = r
  PROVE  (Init => Seeded) /\ (Typed /\ Seeded /\ [Next]_vars => Seeded')
<1>1. Init => Seeded
  BY DEF Init, Seeded
<1>2. Typed /\ Seeded /\ [Next]_vars => Seeded'
  <2> SUFFICES ASSUME Typed, Seeded, [Next]_vars PROVE Seeded'
    OBVIOUS
  <2>1. ASSUME UNCHANGED gitRootCache, UNCHANGED entries, UNCHANGED pc PROVE Seeded'
    BY <2>1 DEF Seeded
  <2>2. ASSUME NEW r \in Run, UNCHANGED gitRootCache, UNCHANGED entries, pc[r] # "idle" PROVE Seeded'
    BY <2>2 DEF Seeded
  <2>3. ASSUME NEW r \in Run, BeginScan(r) PROVE Seeded'
    BY <2>3 DEF BeginScan, Seeded, Typed, TypeOK
  <2>4. ASSUME NEW r \in Run, AddVotes(r) PROVE Seeded'
    <3> SUFFICES ASSUME NEW d \in Dir, gitRootCache[d] # Unknown
                 PROVE  entries'[r][d] = gitRootCache[d]
      BY <2>4 DEF Seeded, AddVotes, storeVars, runVars
    <3>1. entries[r][d] = gitRootCache[d]
      BY <2>4 DEF Seeded, AddVotes
    <3>2. Learned(r, startLine[r])[d] = entries[r][d]
      BY <3>1 DEF Learned, CachedRoot
    <3> QED
      BY <2>4, <3>1, <3>2 DEF AddVotes, Typed, TypeOK
  <2>5. ASSUME NEW r \in Run, EndScan(r) \/ AbortScan(r) PROVE Seeded'
    <3>1. pc'[r] = "idle"
      BY <2>5 DEF EndScan, AbortScan, Typed, TypeOK
    <3> QED
      BY <3>1 DEF Seeded
  <2>6. ASSUME NEW r \in Run, ScanStep(r) PROVE Seeded'
    <3>1. ASSUME NEW f \in File, ReadFile(r, f) PROVE Seeded'
      BY <2>2, <3>1 DEF ReadFile
    <3>2. CASE ScanOffset(r)
      BY <2>2, <3>2 DEF ScanOffset
    <3>3. CASE SetScanOffset(r)
      BY <2>2, <3>3 DEF SetScanOffset
    <3> QED
      BY <2>4, <2>5, <2>6, <3>1, <3>2, <3>3 DEF ScanStep
  <2>7. ASSUME NEW f \in File, CompleteLine(f) \/ \E l \in Line : AppendLine(f, l) PROVE Seeded'
    BY <2>1, <2>7 DEF CompleteLine, AppendLine
  <2>8. CASE MoveTrees
    BY <2>1, <2>8 DEF MoveTrees
  <2>9. CASE UNCHANGED vars
    BY <2>1, <2>9
  <2> QED
    BY <2>3, <2>5, <2>6, <2>7, <2>8, <2>9 DEF Next
<1> QED
  BY <1>1, <1>2

(* A step of an invocation seeded with what is stored changes no stored root,
   and its lines vote for the stored ones. *)
LEMMA StoredRootStays ==
  ASSUME \A q, r \in Run : q = r, Typed, Seeded, [Next]_vars,
         NEW d \in Dir, gitRootCache[d] # Unknown
  PROVE  /\ gitRootCache'[d] = gitRootCache[d]
         /\ \A r \in Run : \A i \in DOMAIN lines[r] :
              AddVotes(r) /\ i > startLine[r] /\ lines[r][i] = d
                => ballot'[file[r]][i] = gitRootCache[d]
<1>1. gitRootCache'[d] = gitRootCache[d]
  <2>1. ASSUME NEW r \in Run, EndScan(r) PROVE gitRootCache'[d] = gitRootCache[d]
    BY <2>1 DEF EndScan, Seeded
  <2>2. ASSUME NEW r \in Run, ScanStep(r), ~EndScan(r) PROVE UNCHANGED gitRootCache
    BY <2>2 DEF ScanStep, ReadFile, ScanOffset, AddVotes, SetScanOffset
  <2>3. ASSUME NEW r \in Run, BeginScan(r) \/ AbortScan(r) PROVE UNCHANGED gitRootCache
    BY <2>3 DEF BeginScan, AbortScan
  <2> QED
    BY <2>1, <2>2, <2>3 DEF Next, CompleteLine, AppendLine, MoveTrees
<1>2. ASSUME NEW r \in Run, NEW i \in DOMAIN lines[r], AddVotes(r), i > startLine[r], lines[r][i] = d
      PROVE  ballot'[file[r]][i] = gitRootCache[d]
  <2>1. entries[r][d] = gitRootCache[d]
    BY <1>2 DEF Seeded, AddVotes
  <2>2. RootOf(r, d) = gitRootCache[d]
    BY <2>1 DEF RootOf, CachedRoot
  <2>3. i \in 1..MaxLines /\ startLine[r] \in Nat /\ d # Malformed
    BY <1>2, MarkerAssumption, BoundAssumption DEF Typed, TypeOK, LinesOK
  <2>4. Ballots(r, startLine[r])[i] = gitRootCache[d]
    BY <1>2, <2>2, <2>3 DEF Ballots
  <2>5. file[r] \in File
    BY <1>2 DEF Typed, TypeOK, AddVotes
  <2> QED
    BY <1>2, <2>4, <2>5 DEF AddVotes, Typed, TypeOK
<1> QED
  BY <1>1, <1>2

(* For invocations one after another, which may fail anywhere, the first
   stored root of a directory is final, and every later line votes for it. *)
THEOREM CachedRootsAreFinal ==
  ASSUME \A q, r \in Run : q = r
  PROVE  Spec => CachedForEver
<1> DEFINE Stays ==
      \A d \in Dir : gitRootCache[d] # Unknown =>
        /\ gitRootCache'[d] = gitRootCache[d]
        /\ \A r \in Run : \A i \in DOMAIN lines[r] :
             AddVotes(r) /\ i > startLine[r] /\ lines[r][i] = d
               => ballot'[file[r]][i] = gitRootCache[d]
<1>1. Typed /\ Seeded /\ [Next]_vars => Stays
  BY StoredRootStays
<1>2. Stays => [Stays]_vars
  OBVIOUS
<1> HIDE DEF Stays
<1>3. Spec => [][Stays]_vars
  BY <1>1, <1>2, TypedInduction, SeededInduction, PTL DEF Spec
<1> QED
  BY <1>3 DEF CachedForEver, Stays

(***************************************************************************)
(* What the votes count.                                                   *)
(***************************************************************************)

Alone == (\A q, r \in Run : q = r) /\ ~SplitFailures

(* What an invocation holds of a file is a prefix of it, no shorter than the
   stored offset, and it starts from that offset. *)
Holds(r) ==
  /\ Len(lines[r]) <= Len(transcript[file[r]])
  /\ lineOffset[file[r]] <= Len(lines[r])
  /\ \A i \in 1..Len(lines[r]) : lines[r][i] \in {Malformed, transcript[file[r]][i]}
  /\ pc[r] = "votes" => startLine[r] = lineOffset[file[r]]

Positions ==
  /\ \A f \in File : lineOffset[f] <= Len(transcript[f])
  /\ \A r \in Run : pc[r] \in {"offset", "votes", "mark"} => Holds(r)

(* A transcript only grows. *)
LEMMA Growth ==
  ASSUME Typed, NEW f \in File, NEW l \in Line, AppendLine(f, l)
  PROVE  \A g \in File :
           /\ Len(transcript[g]) <= Len(transcript'[g])
           /\ \A i \in 1..Len(transcript[g]) : transcript'[g][i] = transcript[g][i]
<1>1. transcript[f] \in Seq(Line)
  BY DEF Typed, TypeOK
<1>2. /\ Len(Append(transcript[f], l)) = Len(transcript[f]) + 1
      /\ \A i \in 1..Len(transcript[f]) : Append(transcript[f], l)[i] = transcript[f][i]
  BY <1>1
<1>3. transcript' = [transcript EXCEPT ![f] = Append(@, l)]
  BY DEF AppendLine
<1> SUFFICES ASSUME NEW g \in File
             PROVE  /\ Len(transcript[g]) <= Len(transcript'[g])
                    /\ \A i \in 1..Len(transcript[g]) : transcript'[g][i] = transcript[g][i]
  OBVIOUS
<1>4. transcript[g] \in Seq(Line) /\ transcript'[g] = IF g = f THEN Append(transcript[f], l) ELSE transcript[g]
  BY <1>3 DEF Typed, TypeOK
<1>5. Len(transcript[g]) \in Nat
  BY <1>4
<1> QED
  BY <1>2, <1>4, <1>5

LEMMA PositionsInduction ==
  ASSUME Alone
  PROVE  (Init => Positions) /\ (Typed /\ Positions /\ [Next]_vars => Positions')
<1>1. Init => Positions
  <2>1. Len(<<>>) = 0
    OBVIOUS
  <2> QED
    BY <2>1 DEF Init, Positions
<1>2. Typed /\ Positions /\ [Next]_vars => Positions'
  <2> SUFFICES ASSUME Typed, Positions, [Next]_vars PROVE Positions'
    OBVIOUS
  <2> USE DEF Positions, Holds
  <2>a. \A f \in File : transcript[f] \in Seq(Line) /\ Len(transcript[f]) \in Nat /\ lineOffset[f] \in Nat
    BY DEF Typed, TypeOK
  <2>b. \A r \in Run : Len(lines[r]) \in Nat
    BY DEF Typed, LinesOK
  <2>c. \A r \in Run : pc[r] \in {"offset", "votes", "mark"} => file[r] \in File
    BY DEF Typed, TypeOK
  <2>1. ASSUME NEW f \in File, NEW l \in Line, AppendLine(f, l) PROVE Positions'
    <3>1. \A g \in File :
            /\ Len(transcript[g]) <= Len(transcript'[g]) /\ Len(transcript'[g]) \in Nat
            /\ \A i \in 1..Len(transcript[g]) : transcript'[g][i] = transcript[g][i]
      <4>1. \A g \in File : Len(transcript'[g]) \in Nat
        <5>1. Typed'
          BY TypedInduction
        <5> QED
          BY <5>1 DEF Typed, TypeOK
      <4> QED
        BY <2>1, <4>1, Growth
    <3>2. UNCHANGED <<lineOffset, pc, file, lines, startLine>>
      BY <2>1 DEF AppendLine
    <3>3. \A g \in File : lineOffset'[g] <= Len(transcript'[g])
      BY <2>a, <3>1, <3>2
    <3>4. ASSUME NEW r \in Run, pc[r] \in {"offset", "votes", "mark"} PROVE Holds(r)'
      <4>1. file[r] \in File
        BY <2>c, <3>4
      <4>2. Holds(r)
        BY <3>4
      <4>3. Len(lines[r]) <= Len(transcript'[file[r]])
        BY <2>a, <2>b, <3>1, <4>1, <4>2
      <4>4. \A i \in 1..Len(lines[r]) : transcript'[file[r]][i] = transcript[file[r]][i]
        BY <2>a, <2>b, <3>1, <4>1, <4>2
      <4> QED
        BY <3>2, <4>2, <4>3, <4>4
    <3> QED
      BY <3>2, <3>3, <3>4
  <2>2. ASSUME UNCHANGED <<transcript, lineOffset, pc, file, lines, startLine>> PROVE Positions'
    BY <2>2
  <2>3. ASSUME NEW r \in Run, UNCHANGED <<transcript, lineOffset>>, pc'[r] \in {"idle", "file"} PROVE Positions'
    BY <2>3 DEF Alone
  <2>4. ASSUME NEW r \in Run, NEW f \in File, ReadFile(r, f) PROVE Positions'
    <3>1. CASE NamesSession(ReadLines(f))
      <4>1. /\ pc' = [pc EXCEPT ![r] = "offset"] /\ file' = [file EXCEPT ![r] = f]
            /\ lines' = [lines EXCEPT ![r] = ReadLines(f)] /\ UNCHANGED <<transcript, lineOffset>>
        BY <2>4, <3>1 DEF ReadFile
      <4>2. pc'[r] = "offset" /\ file'[r] = f /\ lines'[r] = ReadLines(f)
        BY <4>1 DEF Typed, TypeOK, LinesOK
      <4>3. /\ Len(ReadLines(f)) = Len(transcript[f])
            /\ \A i \in 1..Len(transcript[f]) : ReadLines(f)[i] \in {Malformed, transcript[f][i]}
        BY ReadLinesType DEF Typed
      <4>4. Holds(r)'
        BY <2>a, <4>1, <4>2, <4>3
      <4> QED
        BY <4>1, <4>4 DEF Alone
    <3>2. CASE ~NamesSession(ReadLines(f))
      BY <2>2, <2>4, <3>2 DEF ReadFile
    <3> QED
      BY <3>1, <3>2
  <2>5. ASSUME NEW r \in Run, ScanOffset(r) PROVE Positions'
    <3>1. /\ Holds(r) /\ file[r] \in File /\ UNCHANGED <<transcript, lineOffset, file, lines>>
      BY <2>5, <2>c DEF ScanOffset
    <3>2. startLine'[r] = lineOffset[file[r]]
      BY <2>5, <2>a, <2>b, <3>1 DEF ScanOffset, Typed, TypeOK
    <3>3. Holds(r)'
      BY <3>1, <3>2
    <3> QED
      BY <3>1, <3>3 DEF Alone
  <2>6. ASSUME NEW r \in Run, AddVotes(r) PROVE Positions'
    <3>1. /\ Holds(r) /\ UNCHANGED <<transcript, lineOffset, file, lines, startLine>> /\ pc'[r] = "mark"
      BY <2>6 DEF AddVotes, Typed, TypeOK
    <3> QED
      BY <3>1 DEF Alone
  <2>7. ASSUME NEW r \in Run, SetScanOffset(r) PROVE Positions'
    <3>1. /\ pc'[r] = "file" /\ UNCHANGED transcript /\ Holds(r) /\ file[r] \in File
          /\ lineOffset' = [lineOffset EXCEPT ![file[r]] = Len(lines[r])]
      BY <2>7, <2>c DEF SetScanOffset, Typed, TypeOK
    <3>2. \A g \in File : lineOffset'[g] <= Len(transcript'[g])
      BY <3>1 DEF Typed, TypeOK
    <3> QED
      BY <3>1, <3>2 DEF Alone
  <2>8. ASSUME NEW r \in Run, BeginScan(r) \/ EndScan(r) \/ AbortScan(r) PROVE Positions'
    <3>1. pc'[r] \in {"idle", "file"} /\ UNCHANGED <<transcript, lineOffset>>
      BY <2>8 DEF BeginScan, EndScan, AbortScan, Typed, TypeOK
    <3> QED
      BY <2>3, <3>1
  <2>9. ASSUME NEW f \in File, CompleteLine(f) PROVE Positions'
    BY <2>2, <2>9 DEF CompleteLine
  <2>10. CASE MoveTrees
    BY <2>2, <2>10 DEF MoveTrees
  <2>11. CASE UNCHANGED vars
    BY <2>2, <2>11
  <2> HIDE DEF Positions, Holds
  <2> QED
    BY <2>1, <2>4, <2>5, <2>6, <2>7, <2>8, <2>9, <2>10, <2>11 DEF Next, ScanStep
<1> QED
  BY <1>1, <1>2

(* One invocation's count is the only one under way. *)
LEMMA AddedUpToIs ==
  ASSUME Alone, NEW r \in Run, NEW f \in File
  PROVE  AddedUpTo[f] = IF Counted(r, f) THEN Len(lines[r]) ELSE lineOffset[f]
<1>1. CASE Counted(r, f)
  <2>1. (CHOOSE q \in Run : Counted(q, f)) = r
    BY <1>1 DEF Alone
  <2> QED
    BY <1>1, <2>1 DEF AddedUpTo
<1>2. CASE ~Counted(r, f)
  BY <1>2 DEF Alone, AddedUpTo
<1> QED
  BY <1>1, <1>2

(* The lines counted are lines of the transcripts. *)
LEMMA CountedLines ==
  ASSUME Typed, Positions, NEW f \in File
  PROVE  AddedUpTo[f] \in Nat /\ AddedUpTo[f] <= Len(transcript[f])
<1>1. CASE \E r \in Run : Counted(r, f)
  <2>1. PICK r \in Run : Counted(r, f) /\ r = (CHOOSE q \in Run : Counted(q, f))
    BY <1>1
  <2>2. AddedUpTo[f] = Len(lines[r])
    BY <1>1, <2>1 DEF AddedUpTo
  <2> QED
    BY <2>1, <2>2 DEF Counted, Positions, Holds, Typed, LinesOK
<1>2. CASE ~\E r \in Run : Counted(r, f)
  BY <1>2 DEF AddedUpTo, Positions, Typed, TypeOK
<1> QED
  BY <1>1, <1>2

(* Steps that add no votes and move no count keep every vote. *)
LEMMA SameCount ==
  ASSUME VotesMatchOffsets, UNCHANGED <<sessionOf, voteCount, ballot>>, AddedUpTo' = AddedUpTo,
         \A f \in File : \A i \in 1..MaxLines : i <= AddedUpTo[f] => transcript'[f][i] = transcript[f][i]
  PROVE  VotesMatchOffsets'
<1> SUFFICES ASSUME NEW s \in Session PROVE ExactlyCounted(s, LinesOf(s, AddedUpTo))'
  BY DEF VotesMatchOffsets
<1> DEFINE X == LinesOf(s, AddedUpTo)
<1>1. X' = X
  BY DEF LinesOf
<1>2. \A x \in X : x \in Touching(X)' <=> x \in Touching(X)
  BY <1>1 DEF LinesOf, Touching
<1>3. \A g \in Dir : VotingFor(X, g)' = VotingFor(X, g)
  BY <1>1 DEF VotingFor
<1>4. ExactlyCounted(s, X)
  BY DEF VotesMatchOffsets
<1> HIDE DEF X
<1>5. ExactlyCounted(s, X)'
  BY <1>1, <1>2, <1>3, <1>4 DEF ExactlyCounted
<1> QED
  BY <1>5 DEF X

(* As many pairs as second components. *)
LEMMA PairsOf ==
  ASSUME NEW I, IsFiniteSet(I), NEW f
  PROVE  IsFiniteSet({<<f, i>> : i \in I}) /\ Cardinality({<<f, i>> : i \in I}) = Cardinality(I)
<1> DEFINE P == {<<f, i>> : i \in I}
           m == [i \in I |-> <<f, i>>]
<1>1. m \in Bijection(I, P)
  BY DEF Bijection, Injection, Surjection, IsInjective
<1>2. ExistsBijection(I, P)
  BY <1>1 DEF ExistsBijection
<1> QED
  BY <1>2, FS_Bijection

LEMMA AddVotesCounts ==
  ASSUME Alone, Typed, Positions, VotesMatchOffsets, NEW r \in Run, AddVotes(r)
  PROVE  VotesMatchOffsets'
<1> DEFINE f == file[r]
           a == startLine[r]
           b == Len(lines[r])
<1>1. /\ f \in File /\ sessionOf[f] \in Session /\ pc'[r] = "mark"
      /\ a \in Nat /\ b \in Nat /\ b <= MaxLines /\ a <= b /\ b <= Len(transcript[f])
      /\ a = lineOffset[f] /\ MaxLines \in Nat
      /\ UNCHANGED <<sessionOf, transcript, lineOffset, file, lines>>
      /\ DOMAIN lines[r] = 1..b
      /\ \A i \in 1..b : lines[r][i] \in {Malformed, transcript[f][i]}
  BY BoundAssumption DEF AddVotes, Typed, TypeOK, LinesOK, Positions, Holds
<1>2. \A h \in File : /\ AddedUpTo[h] = lineOffset[h]
                      /\ AddedUpTo'[h] = IF h = f THEN b ELSE lineOffset[h]
  <2>1. \A h \in File : AddedUpTo[h] = lineOffset[h]
    BY AddedUpToIs DEF Counted, AddVotes
  <2>2. AddedUpTo' = [h \in File |-> IF h = f THEN b ELSE lineOffset[h]]
    <3> SUFFICES ASSUME NEW h \in File
                 PROVE AddedUpTo'[h] = IF h = f THEN b ELSE lineOffset[h]
      BY DEF AddedUpTo
    <3>1. CASE h = f
      <4>1. Counted(r, h)' /\ (CHOOSE q \in Run : Counted(q, h)') = r
        BY <1>1, <3>1 DEF Counted, Alone
      <4> QED
        BY <1>1, <3>1, <4>1 DEF AddedUpTo
    <3>2. CASE h # f
      BY <1>1, <3>2 DEF Counted, Alone, AddedUpTo
    <3> QED
      BY <3>1, <3>2
  <2> QED
    BY <2>1, <2>2
<1>3. \A h \in File : \A i \in 1..MaxLines :
        ballot'[h][i] = IF h = f /\ i \in 1..b /\ i > a
                          THEN IF lines[r][i] = Malformed THEN Malformed
                               ELSE IF lines[r][i] \in Dir THEN RootOf(r, lines[r][i])
                               ELSE Unknown
                          ELSE ballot[h][i]
  <2>1. ballot' = [ballot EXCEPT ![f] = Ballots(r, a)]
    BY DEF AddVotes
  <2>2. \A i \in 1..MaxLines :
          Ballots(r, a)[i] = IF i \in 1..b /\ i > a
                               THEN IF lines[r][i] = Malformed THEN Malformed
                                    ELSE IF lines[r][i] \in Dir THEN RootOf(r, lines[r][i])
                                    ELSE Unknown
                               ELSE ballot[f][i]
    BY <1>1 DEF Ballots
  <2>3. \A h \in File : ballot'[h] = IF h = f THEN Ballots(r, a) ELSE ballot[h]
    BY <1>1, <2>1 DEF Typed, TypeOK
  <2> QED
    BY <2>2, <2>3
<1>4. \A s \in Session, g \in Dir :
        voteCount'[s][g] = IF s = sessionOf[f] THEN voteCount[s][g] + Cardinality(Voters(r, a, g))
                           ELSE voteCount[s][g]
  <2>1. \A g \in Dir : Tally(r, a)[g] = Cardinality(Voters(r, a, g))
    BY VotersFinite DEF Typed
  <2> QED
    BY <1>1, <2>1 DEF AddVotes, Typed, TypeOK
<1> HIDE DEF f, a, b
<1> SUFFICES ASSUME NEW s \in Session PROVE ExactlyCounted(s, LinesOf(s, AddedUpTo))'
  BY DEF VotesMatchOffsets
<1> DEFINE X == LinesOf(s, AddedUpTo)
           Y == {x \in File \X (1..MaxLines) : sessionOf[x[1]] = s /\ x[2] <= AddedUpTo'[x[1]]}
           New == {x \in Y : x[1] = f /\ x[2] > a}
           Now(Z, g) == {x \in Z : ballot'[x[1]][x[2]] = g}
<1>5. ExactlyCounted(s, X)
  BY DEF VotesMatchOffsets
<1>6. /\ \A x \in Y : x[1] \in File /\ x[2] \in 1..MaxLines /\ x = <<x[1], x[2]>>
      /\ \A x \in X : x[1] \in File /\ x[2] \in 1..MaxLines
  BY DEF LinesOf
<1>7. Y = X \cup New /\ X \cap New = {}
  <2>1. \A x \in File \X (1..MaxLines) :
          /\ x \in X <=> sessionOf[x[1]] = s /\ x[2] <= lineOffset[x[1]]
          /\ x \in Y <=> sessionOf[x[1]] = s /\ x[2] <= (IF x[1] = f THEN b ELSE lineOffset[x[1]])
    BY <1>2 DEF LinesOf
  <2>2. X \subseteq File \X (1..MaxLines) /\ Y \subseteq File \X (1..MaxLines)
    BY DEF LinesOf
  <2>3. ASSUME NEW x \in File \X (1..MaxLines)
        PROVE  /\ x \in Y <=> x \in X \/ x \in New
               /\ ~(x \in X /\ x \in New)
    <3>1. x[2] \in Nat
      BY <1>1
    <3> HIDE DEF X, Y
    <3> QED
      BY <1>1, <2>1, <3>1
  <2> HIDE DEF X, Y
  <2> QED
    BY <2>2, <2>3
<1>8. \A x \in X : ballot'[x[1]][x[2]] = ballot[x[1]][x[2]]
  <2> SUFFICES ASSUME NEW x \in X PROVE ballot'[x[1]][x[2]] = ballot[x[1]][x[2]]
    OBVIOUS
  <2>1. x[1] = f => x[2] <= a
    BY <1>1, <1>2 DEF LinesOf
  <2>2. x[2] \in Nat
    BY <1>1, <1>6
  <2> HIDE DEF X
  <2> QED
    BY <1>1, <1>3, <1>6, <2>1, <2>2
<1>9. \A x \in New : /\ x[1] = f /\ x[2] \in 1..b /\ x[2] > a /\ sessionOf[f] = s
                     /\ ballot'[f][x[2]] = IF lines[r][x[2]] = Malformed THEN Malformed
                                           ELSE IF lines[r][x[2]] \in Dir THEN RootOf(r, lines[r][x[2]])
                                           ELSE Unknown
  <2> SUFFICES ASSUME NEW x \in New
               PROVE  /\ x[1] = f /\ x[2] \in 1..b /\ x[2] > a /\ sessionOf[f] = s
                      /\ ballot'[f][x[2]] = IF lines[r][x[2]] = Malformed THEN Malformed
                                            ELSE IF lines[r][x[2]] \in Dir THEN RootOf(r, lines[r][x[2]])
                                            ELSE Unknown
    OBVIOUS
  <2>1. x[1] = f /\ x[2] \in 1..b /\ x[2] > a /\ sessionOf[f] = s /\ x[2] \in 1..MaxLines
    BY <1>1, <1>2, <1>6
  <2> HIDE DEF New
  <2> QED
    BY <1>1, <1>3, <2>1
<1>10. \A x \in Y : \/ ballot'[x[1]][x[2]] = Malformed
                    \/ ballot'[x[1]][x[2]] \in Dir <=> transcript[x[1]][x[2]] \in Dir
  <2>1. ASSUME NEW x \in X
        PROVE  \/ ballot'[x[1]][x[2]] = Malformed
               \/ ballot'[x[1]][x[2]] \in Dir <=> transcript[x[1]][x[2]] \in Dir
    <3> HIDE DEF X
    <3> QED
      BY <1>5, <1>8 DEF ExactlyCounted, Touching
  <2>2. ASSUME NEW x \in New
        PROVE  \/ ballot'[x[1]][x[2]] = Malformed
               \/ ballot'[x[1]][x[2]] \in Dir <=> transcript[x[1]][x[2]] \in Dir
    <3>1. lines[r][x[2]] \in {Malformed, transcript[f][x[2]]} /\ x[1] = f
      BY <1>1, <1>9
    <3>2. lines[r][x[2]] \in Dir => RootOf(r, lines[r][x[2]]) \in Dir
      BY RootOfType DEF Typed
    <3>3. Unknown \notin Dir
      BY MarkerAssumption
    <3> HIDE DEF New
    <3> QED
      BY <1>9, <3>1, <3>2, <3>3
  <2> HIDE DEF X, Y, New
  <2> QED
    BY <1>7, <2>1, <2>2
<1>11. ASSUME NEW g \in Dir
       PROVE  voteCount'[s][g] = Cardinality(Now(Y, g))
  <2>1. Now(Y, g) = Now(X, g) \cup Now(New, g) /\ Now(X, g) \cap Now(New, g) = {}
    <3> HIDE DEF X, Y, New
    <3> QED
      BY <1>7
  <2>2. Now(X, g) = VotingFor(X, g) /\ voteCount[s][g] = Cardinality(VotingFor(X, g))
    <3> HIDE DEF X
    <3> QED
      BY <1>5, <1>8 DEF VotingFor, ExactlyCounted
  <2>3. voteCount[s][g] \in Nat
    BY DEF Typed, TypeOK
  <2>4. CASE s # sessionOf[f]
    <3>1. Now(New, g) = {}
      <4> HIDE DEF New
      <4> QED
        BY <1>9, <2>4
    <3> HIDE DEF X, Y, New, Now
    <3> QED
      BY <1>4, <2>1, <2>2, <2>4, <3>1
  <2>5. CASE s = sessionOf[f]
    <3> DEFINE V == Voters(r, a, g)
    <3>1. Now(New, g) = {<<f, i>> : i \in V}
      <4>1. ASSUME NEW x \in Now(New, g) PROVE x \in {<<f, i>> : i \in V}
        <5>1. x \in Y /\ x \in New /\ ballot'[x[1]][x[2]] = g
          BY <4>1
        <5>2. x = <<f, x[2]>> /\ x[2] \in 1..b /\ x[2] > a
          BY <1>6, <1>9, <5>1
        <5>3. lines[r][x[2]] \in Dir /\ RootOf(r, lines[r][x[2]]) = g
          <6> HIDE DEF New
          <6> QED
            BY <1>9, <5>1, MarkerAssumption
        <5>4. x[2] \in V
          BY <1>1, <5>2, <5>3 DEF Voters
        <5> QED
          BY <5>2, <5>4
      <4>2. ASSUME NEW i \in V PROVE <<f, i>> \in Now(New, g)
        <5>1. i \in 1..b /\ i > a /\ lines[r][i] \in Dir /\ RootOf(r, lines[r][i]) = g
          BY <1>1 DEF Voters
        <5>2. i \in 1..MaxLines /\ lines[r][i] # Malformed
          BY <1>1, <5>1, MarkerAssumption
        <5>3. ballot'[f][i] = g
          BY <1>1, <1>3, <5>1, <5>2
        <5>4. <<f, i>> \in Y
          BY <1>1, <1>2, <2>5, <5>1, <5>2
        <5> QED
          BY <5>1, <5>3, <5>4
      <4> HIDE DEF V, New, Now
      <4> QED
        BY <4>1, <4>2
    <3>2. IsFiniteSet(V)
      BY VotersFinite DEF Typed
    <3>3. IsFiniteSet(Now(New, g)) /\ Cardinality(Now(New, g)) = Cardinality(V)
      <4> HIDE DEF V, Now, New
      <4>1. /\ IsFiniteSet({<<f, i>> : i \in V})
            /\ Cardinality({<<f, i>> : i \in V}) = Cardinality(V)
        BY <3>2, PairsOf, Zenon
      <4> QED
        BY <3>1, <4>1, Zenon
    <3>4. IsFiniteSet(Now(X, g))
      <4>1. IsFiniteSet(File \X (1..MaxLines))
        <5>1. IsFiniteSet(1..MaxLines)
          BY <1>1, FS_Interval
        <5> QED
          BY <5>1, FS_Product, FileAssumption, Zenon
      <4>2. Now(X, g) \in SUBSET (File \X (1..MaxLines))
        BY DEF LinesOf
      <4> HIDE DEF Now, X
      <4> QED
        BY <4>1, <4>2, FS_Subset
    <3>5. Cardinality(Now(X, g)) \in Nat /\ Cardinality(V) \in Nat
      <4> HIDE DEF Now, X, V
      <4> QED
        BY <3>2, <3>4, FS_CardinalityType
    <3>6. Cardinality(Now(Y, g)) = Cardinality(Now(X, g)) + Cardinality(Now(New, g))
      <4> HIDE DEF Now, X, Y, New, V
      <4>1. Cardinality(Now(X, g) \cap Now(New, g)) = 0
        BY <2>1, FS_EmptySet
      <4>2. Cardinality(Now(X, g) \cup Now(New, g)) =
              Cardinality(Now(X, g)) + Cardinality(Now(New, g)) - Cardinality(Now(X, g) \cap Now(New, g))
        BY <3>3, <3>4, FS_Union
      <4> QED
        BY <2>1, <3>3, <3>5, <4>1, <4>2
    <3> HIDE DEF X, Y, New, Now
    <3> QED
      BY <1>4, <2>2, <2>5, <3>3, <3>6
  <2> QED
    BY <2>4, <2>5
<1> QED
  BY <1>1, <1>10, <1>11 DEF ExactlyCounted, Touching, VotingFor, LinesOf

LEMMA CountInduction ==
  ASSUME Alone, Typed, Positions, VotesMatchOffsets, [Next]_vars
  PROVE  VotesMatchOffsets'
<1>1. \A f \in File : /\ transcript[f] \in Seq(Line) /\ Len(transcript[f]) \in Nat
                      /\ AddedUpTo[f] \in Nat /\ AddedUpTo[f] <= Len(transcript[f])
  BY CountedLines DEF Typed, TypeOK
<1>2. ASSUME NEW f \in File, NEW l \in Line, AppendLine(f, l) PROVE VotesMatchOffsets'
  <2>1. UNCHANGED <<sessionOf, voteCount, ballot>> /\ AddedUpTo' = AddedUpTo
    BY <1>2 DEF AppendLine, AddedUpTo, Counted
  <2>2. \A g \in File : \A i \in 1..Len(transcript[g]) : transcript'[g][i] = transcript[g][i]
    BY <1>2, Growth
  <2>3. \A g \in File : \A i \in 1..MaxLines : i <= AddedUpTo[g] => i \in 1..Len(transcript[g])
    BY <1>1, BoundAssumption
  <2> QED
    BY <2>1, <2>2, <2>3, SameCount
<1>3. ASSUME UNCHANGED <<sessionOf, transcript, voteCount, ballot>>, AddedUpTo' = AddedUpTo
      PROVE  VotesMatchOffsets'
  BY <1>3, SameCount
<1>4. ASSUME UNCHANGED <<lineOffset, pc, file, lines>> PROVE AddedUpTo' = AddedUpTo
  BY <1>4 DEF AddedUpTo, Counted
<1>5. ASSUME NEW r \in Run, UNCHANGED lineOffset, pc[r] # "mark", pc'[r] # "mark"
      PROVE  AddedUpTo' = AddedUpTo
  BY <1>5 DEF AddedUpTo, Counted, Alone
<1>6. ASSUME NEW r \in Run, BeginScan(r) \/ EndScan(r) PROVE VotesMatchOffsets'
  BY <1>3, <1>5, <1>6 DEF BeginScan, EndScan, Typed, TypeOK
<1>7. ASSUME NEW r \in Run, AbortScan(r) PROVE VotesMatchOffsets'
  BY <1>3, <1>5, <1>7 DEF AbortScan, Typed, TypeOK, Alone
<1>8. ASSUME NEW r \in Run, ScanStep(r), ~EndScan(r) PROVE VotesMatchOffsets'
  <2>1. ASSUME NEW f \in File, ReadFile(r, f) PROVE VotesMatchOffsets'
    <3>1. pc[r] # "mark" /\ pc'[r] # "mark"
      BY <2>1 DEF ReadFile, Typed, TypeOK
    <3> QED
      BY <1>3, <1>5, <2>1, <3>1 DEF ReadFile
  <2>2. CASE ScanOffset(r)
    BY <1>3, <1>5, <2>2 DEF ScanOffset, Typed, TypeOK
  <2>3. CASE AddVotes(r)
    BY <2>3, AddVotesCounts
  <2>4. CASE SetScanOffset(r)
    <3>1. file[r] \in File /\ lineOffset' = [lineOffset EXCEPT ![file[r]] = Len(lines[r])] /\ pc'[r] # "mark"
      BY <2>4 DEF SetScanOffset, Typed, TypeOK
    <3>2. ASSUME NEW f \in File PROVE AddedUpTo[f] = lineOffset'[f]
      BY <2>4, <3>1, AddedUpToIs DEF Counted, SetScanOffset, Typed, TypeOK
    <3>3. AddedUpTo' = [f \in File |-> lineOffset'[f]]
      BY <3>1 DEF AddedUpTo, Counted, Alone
    <3>4. AddedUpTo = [f \in File |-> AddedUpTo[f]]
      BY DEF AddedUpTo
    <3> QED
      BY <1>3, <2>4, <3>2, <3>3, <3>4 DEF SetScanOffset
  <2> QED
    BY <1>8, <2>1, <2>2, <2>3, <2>4 DEF ScanStep
<1>9. ASSUME NEW f \in File, CompleteLine(f) PROVE VotesMatchOffsets'
  BY <1>3, <1>4, <1>9 DEF CompleteLine
<1>10. CASE MoveTrees
  BY <1>3, <1>4, <1>10 DEF MoveTrees
<1>11. CASE UNCHANGED vars
  BY <1>3, <1>4, <1>11
<1> QED
  BY <1>2, <1>6, <1>7, <1>8, <1>9, <1>10, <1>11 DEF Next

LEMMA NothingCounted == Init => VotesMatchOffsets
<1> SUFFICES ASSUME Init, NEW s \in Session PROVE ExactlyCounted(s, LinesOf(s, AddedUpTo))
  BY DEF VotesMatchOffsets
<1>1. \A f \in File : AddedUpTo[f] = 0
  BY DEF Init, AddedUpTo, Counted
<1>2. LinesOf(s, AddedUpTo) = {}
  BY <1>1, BoundAssumption DEF LinesOf
<1>3. \A g \in Dir : VotingFor({}, g) = {}
  BY DEF VotingFor
<1> QED
  BY <1>2, <1>3, FS_EmptySet DEF Init, ExactlyCounted

(* For invocations that run one after another and fail anywhere but between
   the two transactions, the stored votes are those of the lines before the
   stored offsets, however files grow while they are read. *)
THEOREM VotesAreOfLinesPassed ==
  ASSUME \A q, r \in Run : q = r, ~SplitFailures
  PROVE  Spec => []VotesMatchOffsets
<1>1. Alone
  BY DEF Alone
<1>2. Init => Typed /\ Positions /\ VotesMatchOffsets
  BY <1>1, TypedInduction, PositionsInduction, NothingCounted
<1>3. Typed /\ Positions /\ VotesMatchOffsets /\ [Next]_vars
        => (Typed /\ Positions /\ VotesMatchOffsets)'
  BY <1>1, TypedInduction, PositionsInduction, CountInduction
<1> QED
  BY <1>2, <1>3, PTL DEF Spec

(* Under the same conditions no line is counted twice: what PathStore says of
   itself fails only where a process fails between the two transactions, or
   where two overlap. *)
THEOREM CountedOnceIfWhole ==
  ASSUME \A q, r \in Run : q = r, ~SplitFailures
  PROVE  Spec => []NoDoubleCount
<1>1. Alone
  BY DEF Alone
<1>2. Typed /\ Positions /\ VotesMatchOffsets => NoDoubleCount
  <2> SUFFICES ASSUME Typed, Positions, VotesMatchOffsets, NEW s \in Session
               PROVE  FoldFunction(+, 0, voteCount[s]) <= Cardinality(Touching(LinesOf(s, AllLines)))
    BY DEF NoDoubleCount
  <2> DEFINE X == LinesOf(s, AddedUpTo)
             T == {x \in X : ballot[x[1]][x[2]] \in Dir}
             All == Touching(LinesOf(s, AllLines))
             votes == voteCount[s]
             key == [x \in T |-> ballot[x[1]][x[2]]]
  <2>1. ExactlyCounted(s, X) /\ votes \in [Dir -> Nat]
    BY DEF VotesMatchOffsets, Typed, TypeOK
  <2>2. FoldFunction(+, 0, votes) = SumFunctionOnSet(votes, Dir)
    BY <2>1 DEF FoldFunction, SumFunctionOnSet
  <2>3. X \subseteq LinesOf(s, AllLines)
    <3>1. \A f \in File : AddedUpTo[f] \in Nat /\ AddedUpTo[f] <= Len(transcript[f]) /\ Len(transcript[f]) \in Nat
      <4>1. \A f \in File : Len(transcript[f]) \in Nat
        BY DEF Typed, TypeOK
      <4> QED
        BY <4>1, CountedLines
    <3> QED
      BY <3>1, BoundAssumption DEF LinesOf, AllLines
  <2>4. T \subseteq All
    BY <2>1, <2>3, MarkerAssumption DEF ExactlyCounted, Touching
  <2>5. IsFiniteSet(All)
    <3>1. IsFiniteSet(1..MaxLines)
      BY BoundAssumption, FS_Interval
    <3>2. IsFiniteSet(File \X (1..MaxLines))
      BY <3>1, FileAssumption, FS_Product
    <3>3. All \in SUBSET (File \X (1..MaxLines))
      BY DEF Touching, LinesOf
    <3> HIDE DEF All
    <3> QED
      BY <3>2, <3>3, FS_Subset
  <2>6. IsFiniteSet(T) /\ Cardinality(T) <= Cardinality(All)
    <3> HIDE DEF All, T
    <3> QED
      BY <2>4, <2>5, FS_Subset
  <2>7. \A g \in Dir : votes[g] = Cardinality({x \in T : key[x] = g})
    <3>1. ASSUME NEW g \in Dir PROVE {x \in T : key[x] = g} = VotingFor(X, g)
      BY DEF VotingFor
    <3> QED
      BY <2>1, <3>1 DEF ExactlyCounted
  <2>8. SumFunctionOnSet(votes, Dir) = Cardinality(T)
    <3>1. \A x \in T : key[x] \in Dir
      OBVIOUS
    <3>2. IsFiniteSet(T) /\ IsFiniteSet(Dir)
      BY <2>6, DirAssumption
    <3> HIDE DEF T, key, votes, X
    <3>3. CountsByKey(votes, T, key, Dir)
      BY <2>7, <3>1 DEF CountsByKey
    <3> QED
      BY <3>2, <3>3, SumOfCounts
  <2> HIDE DEF T, All, votes
  <2> QED
    BY <2>2, <2>6, <2>8 DEF votes, All
<1>3. Init => Typed /\ Positions /\ VotesMatchOffsets
  BY <1>1, TypedInduction, PositionsInduction, NothingCounted
<1>4. Typed /\ Positions /\ VotesMatchOffsets /\ [Next]_vars
        => (Typed /\ Positions /\ VotesMatchOffsets)'
  BY <1>1, TypedInduction, PositionsInduction, CountInduction
<1> QED
  BY <1>2, <1>3, <1>4, PTL DEF Spec

(***************************************************************************)
(* What no overlap and no failure can do: lose a vote.                     *)
(***************************************************************************)

(* The lines of the first n that touch a directory have all had their turn. *)
Passed(f, n) ==
  \A i \in 1..Len(transcript[f]) : i <= n /\ transcript[f][i] \in Dir => ballot[f][i] # Unknown

(* The lines of a session whose last vote was for g. *)
LastVotes(s, g) ==
  {x \in File \X (1..MaxLines) : sessionOf[x[1]] = s /\ ballot[x[1]][x[2]] = g}

(* What each line last voted for is among the stored votes of its session. *)
EveryVoteStored ==
  \A s \in Session, g \in Dir : Cardinality(LastVotes(s, g)) <= voteCount[s][g]

(* Nor is a line behind a stored offset left out. *)
NoVoteLost ==
  /\ \A f \in File : Passed(f, lineOffset[f])
  /\ EveryVoteStored

(* An invocation holds a prefix of a file and has passed what it does not
   count, whatever the others do to the offset. *)
HasPassed(r) ==
  /\ Len(lines[r]) <= Len(transcript[file[r]])
  /\ \A i \in 1..Len(lines[r]) : lines[r][i] \in {Malformed, transcript[file[r]][i]}
  /\ pc[r] = "votes" => startLine[r] <= Len(lines[r]) /\ Passed(file[r], startLine[r])
  /\ pc[r] = "mark" => Passed(file[r], Len(lines[r]))

NoneSkipped ==
  /\ \A f \in File : lineOffset[f] <= Len(transcript[f]) /\ Passed(f, lineOffset[f])
  /\ \A r \in Run : pc[r] \in {"offset", "votes", "mark"} => HasPassed(r)

(* They are finitely many. *)
LEMMA LastVotesFinite ==
  \A s, g : IsFiniteSet(LastVotes(s, g)) /\ Cardinality(LastVotes(s, g)) \in Nat
<1> SUFFICES ASSUME NEW s, NEW g
             PROVE  IsFiniteSet(LastVotes(s, g)) /\ Cardinality(LastVotes(s, g)) \in Nat
  OBVIOUS
<1>1. IsFiniteSet(1..MaxLines)
  BY BoundAssumption, FS_Interval
<1>2. IsFiniteSet(File \X (1..MaxLines))
  BY <1>1, FileAssumption, FS_Product
<1>3. LastVotes(s, g) \in SUBSET (File \X (1..MaxLines))
  BY DEF LastVotes
<1> QED
  BY <1>2, <1>3, FS_Subset, FS_CardinalityType

(* A step that casts no vote keeps what has been passed; transcripts grow
   only at their end. *)
LEMMA StaysPassed ==
  ASSUME Typed, NEW f \in File, NEW n \in Nat, n <= Len(transcript[f]), Passed(f, n),
         \A i \in 1..Len(transcript[f]) : transcript'[f][i] = transcript[f][i],
         \A i \in 1..Len(transcript[f]) : ballot[f][i] # Unknown /\ transcript[f][i] \in Dir => ballot'[f][i] # Unknown,
         Len(transcript'[f]) \in Nat
  PROVE  Passed(f, n)'
<1>1. Len(transcript[f]) \in Nat
  BY DEF Typed, TypeOK
<1> SUFFICES ASSUME NEW i \in 1..Len(transcript'[f]), i <= n, transcript'[f][i] \in Dir
             PROVE  ballot'[f][i] # Unknown
  BY DEF Passed
<1>2. i \in 1..Len(transcript[f])
  BY <1>1
<1> QED
  BY <1>2 DEF Passed

(* What casting the votes of a file's lines does to the ballots. *)
LEMMA BallotsCast ==
  ASSUME Typed, NEW r \in Run, AddVotes(r)
  PROVE  /\ file[r] \in File
         /\ \A h \in File : h # file[r] => ballot'[h] = ballot[h]
         /\ \A i \in 1..MaxLines :
              ballot'[file[r]][i] =
                IF i \in 1..Len(lines[r]) /\ i > startLine[r]
                  THEN IF lines[r][i] = Malformed THEN Malformed
                       ELSE IF lines[r][i] \in Dir THEN RootOf(r, lines[r][i])
                       ELSE Unknown
                  ELSE ballot[file[r]][i]
<1>1. /\ file[r] \in File /\ startLine[r] \in Nat /\ Len(lines[r]) \in Nat
      /\ DOMAIN lines[r] = 1..Len(lines[r])
      /\ ballot' = [ballot EXCEPT ![file[r]] = Ballots(r, startLine[r])]
  BY DEF AddVotes, Typed, TypeOK, LinesOK
<1>2. \A h \in File : ballot'[h] = IF h = file[r] THEN Ballots(r, startLine[r]) ELSE ballot[h]
  BY <1>1 DEF Typed, TypeOK
<1>3. \A i \in 1..MaxLines :
        Ballots(r, startLine[r])[i] =
          IF i \in 1..Len(lines[r]) /\ i > startLine[r]
            THEN IF lines[r][i] = Malformed THEN Malformed
                 ELSE IF lines[r][i] \in Dir THEN RootOf(r, lines[r][i])
                 ELSE Unknown
            ELSE ballot[file[r]][i]
  BY <1>1, BoundAssumption DEF Ballots
<1> QED
  BY <1>1, <1>2, <1>3

(* Casting votes passes every line in hand, and forgets none. *)
LEMMA CastingPasses ==
  ASSUME Typed, NEW r \in Run, AddVotes(r), HasPassed(r)
  PROVE  /\ \A h \in File : \A i \in 1..Len(transcript[h]) :
              ballot[h][i] # Unknown /\ transcript[h][i] \in Dir => ballot'[h][i] # Unknown
         /\ \A i \in 1..Len(lines[r]) : transcript[file[r]][i] \in Dir => ballot'[file[r]][i] # Unknown
<1> DEFINE f == file[r]
<1>1. /\ f \in File /\ pc[r] = "votes" /\ startLine[r] \in Nat /\ Len(lines[r]) \in Nat
      /\ Len(lines[r]) <= Len(transcript[f]) /\ Len(lines[r]) <= MaxLines
      /\ \A h \in File : Len(transcript[h]) \in Nat /\ Len(transcript[h]) <= MaxLines
  BY DEF AddVotes, Typed, TypeOK, LinesOK, HasPassed
<1>2. ASSUME NEW i \in 1..Len(lines[r]), i > startLine[r], transcript[f][i] \in Dir
      PROVE  ballot'[f][i] # Unknown
  <2>1. i \in 1..MaxLines /\ lines[r][i] \in {Malformed, transcript[f][i]}
    BY <1>1, BoundAssumption DEF HasPassed
  <2>2. lines[r][i] \in Dir => RootOf(r, lines[r][i]) \in Dir
    BY RootOfType DEF Typed
  <2>3. ballot'[f][i] = IF lines[r][i] = Malformed THEN Malformed
                        ELSE IF lines[r][i] \in Dir THEN RootOf(r, lines[r][i]) ELSE Unknown
    BY <1>2, <2>1, BallotsCast
  <2> QED
    BY <1>2, <2>1, <2>2, <2>3, MarkerAssumption
<1>3. ASSUME NEW h \in File, NEW i \in 1..Len(transcript[h]),
             ballot[h][i] # Unknown, transcript[h][i] \in Dir
      PROVE  ballot'[h][i] # Unknown
  <2>1. i \in 1..MaxLines
    BY <1>1, BoundAssumption
  <2>2. CASE h # f
    BY <1>3, <2>2, BallotsCast
  <2>3. CASE h = f /\ i \in 1..Len(lines[r]) /\ i > startLine[r]
    BY <1>2, <1>3, <2>3
  <2>4. CASE h = f /\ ~(i \in 1..Len(lines[r]) /\ i > startLine[r])
    <3>1. ballot'[f][i] = ballot[f][i]
      BY <2>1, <2>4, BallotsCast
    <3> QED
      BY <1>3, <2>4, <3>1
  <2> QED
    BY <2>2, <2>3, <2>4
<1>4. ASSUME NEW i \in 1..Len(lines[r]), transcript[f][i] \in Dir
      PROVE  ballot'[f][i] # Unknown
  <2>1. CASE i > startLine[r]
    BY <1>2, <1>4, <2>1
  <2>2. CASE ~(i > startLine[r])
    <3>1. i \in 1..Len(transcript[f]) /\ i <= startLine[r]
      BY <1>1, <2>2
    <3>2. ballot[f][i] # Unknown
      BY <1>1, <1>4, <3>1 DEF HasPassed, Passed
    <3> QED
      BY <1>1, <1>3, <1>4, <3>1, <3>2
  <2> QED
    BY <2>1, <2>2
<1> QED
  BY <1>3, <1>4

LEMMA SkippedInduction ==
  (Init => NoneSkipped) /\ (Typed /\ NoneSkipped /\ [Next]_vars => NoneSkipped')
<1>1. Init => NoneSkipped
  <2>1. Len(<<>>) = 0
    OBVIOUS
  <2> QED
    BY <2>1 DEF Init, NoneSkipped, Passed
<1>2. ASSUME Typed, NoneSkipped, [Next]_vars PROVE NoneSkipped'
  <2>a. /\ \A f \in File : transcript[f] \in Seq(Line) /\ Len(transcript[f]) \in Nat /\ lineOffset[f] \in Nat
        /\ \A r \in Run : /\ Len(lines[r]) \in Nat /\ startLine[r] \in Nat
                          /\ pc[r] \in {"offset", "votes", "mark"} => file[r] \in File
    BY <1>2 DEF Typed, TypeOK, LinesOK
  <2>b. \A f \in File : Len(transcript'[f]) \in Nat
    <3>1. Typed'
      BY <1>2, TypedInduction
    <3> QED
      BY <3>1 DEF Typed, TypeOK
  (* The other invocations, the offsets and the files keep what they have. *)
  <2>1. ASSUME \A f \in File : \A i \in 1..Len(transcript[f]) :
                  /\ transcript'[f][i] = transcript[f][i]
                  /\ ballot[f][i] # Unknown /\ transcript[f][i] \in Dir => ballot'[f][i] # Unknown,
               \A f \in File : Len(transcript[f]) <= Len(transcript'[f])
        PROVE  /\ \A f \in File : lineOffset[f] <= Len(transcript'[f]) /\ (lineOffset' = lineOffset => Passed(f, lineOffset[f])')
               /\ \A q \in Run :
                    /\ UNCHANGED <<pc[q], file[q], lines[q], startLine[q]>>
                    /\ pc[q] \in {"offset", "votes", "mark"}
                    => HasPassed(q)'
    <3>1. ASSUME NEW f \in File
          PROVE  lineOffset[f] <= Len(transcript'[f]) /\ (lineOffset' = lineOffset => Passed(f, lineOffset[f])')
      <4>1. lineOffset[f] <= Len(transcript[f]) /\ Passed(f, lineOffset[f])
        BY <1>2 DEF NoneSkipped
      <4>2. \A n \in Nat : n <= Len(transcript[f]) /\ Passed(f, n) => Passed(f, n)'
        BY <1>2, <2>1, <2>b, StaysPassed
      <4> QED
        BY <2>1, <2>a, <2>b, <4>1, <4>2 DEF Passed
    <3>2. ASSUME NEW q \in Run, UNCHANGED <<pc[q], file[q], lines[q], startLine[q]>>,
                 pc[q] \in {"offset", "votes", "mark"}
          PROVE  HasPassed(q)'
      <4>1. HasPassed(q) /\ file[q] \in File
        BY <1>2, <2>a, <3>2 DEF NoneSkipped
      <4>2. PICK f \in File : f = file[q]
        BY <4>1
      <4>3. \A n \in Nat : n <= Len(transcript[f]) /\ Passed(f, n) => Passed(f, n)'
        BY <1>2, <2>1, <2>b, StaysPassed
      <4>4. /\ Len(lines[q]) <= Len(transcript'[f])
            /\ \A i \in 1..Len(lines[q]) : lines[q][i] \in {Malformed, transcript'[f][i]}
        <5>1. \A i \in 1..Len(lines[q]) : i \in 1..Len(transcript[f])
          BY <2>a, <4>1, <4>2 DEF HasPassed
        <5> QED
          BY <2>1, <2>a, <2>b, <4>1, <4>2, <5>1 DEF HasPassed
      <4>5. PICK n \in Nat : n = startLine[q]
        BY <2>a
      <4>6. PICK m \in Nat : m = Len(lines[q])
        BY <2>a
      <4>7. /\ pc[q] = "votes" => n <= m /\ Passed(f, n)'
            /\ pc[q] = "mark" => Passed(f, m)'
        BY <2>a, <4>1, <4>2, <4>3, <4>5, <4>6 DEF HasPassed
      <4>8. f = file'[q] /\ n = startLine'[q] /\ m = Len(lines'[q])
        BY <3>2, <4>2, <4>5, <4>6
      <4> QED
        BY <3>2, <4>4, <4>5, <4>6, <4>7, <4>8 DEF HasPassed, Passed
    <3> QED
      BY <3>1, <3>2
  <2>2. ASSUME UNCHANGED <<transcript, ballot, lineOffset, pc, file, lines, startLine>>
        PROVE  NoneSkipped'
    <3>1. \A f \in File : Passed(f, lineOffset[f])' <=> Passed(f, lineOffset[f])
      BY <2>2 DEF Passed
    <3>2. \A q \in Run : HasPassed(q)' <=> HasPassed(q)
      BY <2>2 DEF HasPassed, Passed
    <3> QED
      BY <1>2, <2>2, <3>1, <3>2 DEF NoneSkipped
  <2>3. ASSUME NEW f \in File, NEW l \in Line, AppendLine(f, l) PROVE NoneSkipped'
    <3>1. \A g \in File : /\ Len(transcript[g]) <= Len(transcript'[g])
                          /\ \A i \in 1..Len(transcript[g]) : transcript'[g][i] = transcript[g][i]
      BY <1>2, <2>3, Growth
    <3>2. UNCHANGED <<ballot, lineOffset, pc, file, lines, startLine>>
      BY <2>3 DEF AppendLine
    <3> QED
      BY <2>1, <3>1, <3>2 DEF NoneSkipped
  (* A step of one invocation that leaves the stores alone. *)
  <2>4. ASSUME NEW r \in Run, UNCHANGED <<transcript, ballot, lineOffset>>,
               \A q \in Run \ {r} : UNCHANGED <<pc[q], file[q], lines[q], startLine[q]>>,
               pc'[r] \in {"offset", "votes", "mark"} => HasPassed(r)'
        PROVE  NoneSkipped'
    <3>1. \A f \in File : Len(transcript[f]) <= Len(transcript'[f])
      BY <2>4, <2>a
    <3>2. \A q \in Run \ {r} : pc'[q] \in {"offset", "votes", "mark"} => HasPassed(q)'
      BY <2>1, <2>4, <3>1
    <3> QED
      BY <2>1, <2>4, <3>1, <3>2 DEF NoneSkipped
  <2>5. ASSUME NEW r \in Run, BeginScan(r) \/ EndScan(r) PROVE NoneSkipped'
    <3>1. /\ UNCHANGED <<transcript, ballot, lineOffset>> /\ pc'[r] \in {"idle", "file"}
          /\ \A q \in Run \ {r} : UNCHANGED <<pc[q], file[q], lines[q], startLine[q]>>
      BY <1>2, <2>5 DEF BeginScan, EndScan, Typed, TypeOK
    <3> QED
      BY <2>4, <3>1
  <2>6. ASSUME NEW r \in Run, AbortScan(r) PROVE NoneSkipped'
    <3>1. /\ UNCHANGED <<transcript, ballot, lineOffset>> /\ pc'[r] = "idle"
          /\ \A q \in Run \ {r} : UNCHANGED <<pc[q], file[q], lines[q], startLine[q]>>
      BY <1>2, <2>6 DEF AbortScan, LetGo, Typed, TypeOK, LinesOK
    <3> QED
      BY <2>4, <3>1
  <2>7. ASSUME NEW r \in Run, NEW f \in File, ReadFile(r, f) PROVE NoneSkipped'
    <3>1. CASE NamesSession(ReadLines(f))
      <4>1. /\ pc' = [pc EXCEPT ![r] = "offset"] /\ file' = [file EXCEPT ![r] = f]
            /\ lines' = [lines EXCEPT ![r] = ReadLines(f)] /\ UNCHANGED <<transcript, ballot, lineOffset, startLine>>
        BY <2>7, <3>1 DEF ReadFile
      <4>2. /\ pc'[r] = "offset" /\ file'[r] = f /\ lines'[r] = ReadLines(f)
            /\ \A q \in Run \ {r} : UNCHANGED <<pc[q], file[q], lines[q], startLine[q]>>
        BY <1>2, <4>1 DEF Typed, TypeOK, LinesOK
      <4>3. /\ Len(ReadLines(f)) = Len(transcript[f])
            /\ \A i \in 1..Len(transcript[f]) : ReadLines(f)[i] \in {Malformed, transcript[f][i]}
        BY <1>2, ReadLinesType DEF Typed
      <4>4. HasPassed(r)'
        BY <2>a, <4>1, <4>2, <4>3 DEF HasPassed
      <4> QED
        BY <2>4, <4>1, <4>2, <4>4
    <3>2. CASE ~NamesSession(ReadLines(f))
      BY <2>2, <2>7, <3>2 DEF ReadFile
    <3> QED
      BY <3>1, <3>2
  <2>8. ASSUME NEW r \in Run, ScanOffset(r) PROVE NoneSkipped'
    <3>1. /\ HasPassed(r) /\ file[r] \in File /\ UNCHANGED <<transcript, ballot, lineOffset, file, lines>>
          /\ pc'[r] = "votes"
          /\ \A q \in Run \ {r} : UNCHANGED <<pc[q], file[q], lines[q], startLine[q]>>
      BY <1>2, <2>8, <2>a DEF ScanOffset, NoneSkipped, Typed, TypeOK
    <3>2. /\ startLine'[r] <= Len(lines[r]) /\ startLine'[r] \in Nat
          /\ startLine'[r] <= lineOffset[file[r]]
      BY <1>2, <2>8, <2>a, <3>1 DEF ScanOffset, Typed, TypeOK
    <3>3. Passed(file[r], startLine'[r])
      <4>1. Passed(file[r], lineOffset[file[r]])
        BY <1>2, <3>1 DEF NoneSkipped
      <4> QED
        BY <2>a, <3>1, <3>2, <4>1 DEF Passed
    <3>4. HasPassed(r)'
      BY <3>1, <3>2, <3>3 DEF HasPassed, Passed
    <3> QED
      BY <2>4, <3>1, <3>4
  <2>9. ASSUME NEW r \in Run, AddVotes(r) PROVE NoneSkipped'
    <3>1. /\ HasPassed(r) /\ file[r] \in File /\ UNCHANGED <<transcript, lineOffset, file, lines, startLine>>
          /\ pc'[r] = "mark" /\ \A q \in Run \ {r} : UNCHANGED pc[q]
      BY <1>2, <2>9, <2>a DEF AddVotes, NoneSkipped, Typed, TypeOK
    <3>2. /\ \A h \in File : \A i \in 1..Len(transcript[h]) :
               ballot[h][i] # Unknown /\ transcript[h][i] \in Dir => ballot'[h][i] # Unknown
          /\ \A i \in 1..Len(lines[r]) : transcript[file[r]][i] \in Dir => ballot'[file[r]][i] # Unknown
      BY <1>2, <2>9, <3>1, CastingPasses
    <3>3. \A f \in File : Len(transcript[f]) <= Len(transcript'[f]) /\ transcript'[f] = transcript[f]
      BY <2>a, <3>1
    <3>4. \A q \in Run \ {r} : pc'[q] \in {"offset", "votes", "mark"} => HasPassed(q)'
      BY <2>1, <3>1, <3>2, <3>3
    <3>5. Passed(file[r], Len(lines[r]))'
      BY <2>a, <3>1, <3>2 DEF Passed
    <3>6. HasPassed(r)'
      BY <3>1, <3>5 DEF HasPassed
    <3> QED
      BY <2>1, <3>1, <3>2, <3>3, <3>4, <3>6 DEF NoneSkipped
  <2>10. ASSUME NEW r \in Run, SetScanOffset(r) PROVE NoneSkipped'
    <3>1. /\ HasPassed(r) /\ file[r] \in File /\ UNCHANGED <<transcript, ballot>> /\ pc[r] = "mark"
          /\ pc'[r] = "file" /\ \A q \in Run \ {r} : UNCHANGED <<pc[q], file[q], lines[q], startLine[q]>>
          /\ lineOffset' = [lineOffset EXCEPT ![file[r]] = Len(lines[r])]
      BY <1>2, <2>10, <2>a DEF SetScanOffset, LetGo, NoneSkipped, Typed, TypeOK, LinesOK
    <3>2. \A f \in File : Len(transcript[f]) <= Len(transcript'[f])
      BY <2>a, <3>1
    <3>3. \A q \in Run : pc'[q] \in {"offset", "votes", "mark"} => HasPassed(q)'
      BY <2>1, <3>1, <3>2
    <3>4. ASSUME NEW f \in File
          PROVE  lineOffset'[f] <= Len(transcript[f]) /\ Passed(f, lineOffset'[f])
      <4>1. lineOffset'[f] = IF f = file[r] THEN Len(lines[r]) ELSE lineOffset[f]
        BY <1>2, <3>1 DEF Typed, TypeOK
      <4>2. Passed(file[r], Len(lines[r])) /\ Len(lines[r]) <= Len(transcript[file[r]])
        BY <3>1 DEF HasPassed
      <4>3. lineOffset[f] <= Len(transcript[f]) /\ Passed(f, lineOffset[f])
        BY <1>2 DEF NoneSkipped
      <4> QED
        BY <4>1, <4>2, <4>3
    <3>5. \A f \in File : Passed(f, lineOffset[f])'
      BY <3>1, <3>4 DEF Passed
    <3> QED
      BY <3>1, <3>3, <3>4, <3>5 DEF NoneSkipped
  <2>11. ASSUME NEW f \in File, CompleteLine(f) PROVE NoneSkipped'
    BY <2>2, <2>11 DEF CompleteLine
  <2>12. CASE MoveTrees
    BY <2>2, <2>12 DEF MoveTrees
  <2>13. CASE UNCHANGED vars
    BY <2>2, <2>13
  <2> QED
    BY <1>2, <2>3, <2>5, <2>6, <2>7, <2>8, <2>9, <2>10, <2>11, <2>12, <2>13 DEF Next, ScanStep
<1> QED
  BY <1>1, <1>2

(* Casting a vote anew adds at least as much as it changes. *)
LEMMA CastingStores ==
  ASSUME Typed, EveryVoteStored, NEW r \in Run, AddVotes(r)
  PROVE  EveryVoteStored'
<1> SUFFICES ASSUME NEW s \in Session, NEW g \in Dir
             PROVE  Cardinality(LastVotes(s, g)') <= voteCount'[s][g]
  BY DEF EveryVoteStored
<1>1. PICK f \in File : f = file[r]
  BY BallotsCast
<1> DEFINE V == Voters(r, startLine[r], g)
           P == {<<f, i>> : i \in V}
           L == LastVotes(s, g)
           M == LastVotes(s, g)'
<1>2. /\ IsFiniteSet(V) /\ Cardinality(V) \in Nat /\ Tally(r, startLine[r])[g] = Cardinality(V)
  BY VotersFinite DEF Typed
<1>3. IsFiniteSet(P) /\ Cardinality(P) = Cardinality(V)
  <2> HIDE DEF V
  <2> QED
    BY <1>2, PairsOf, Zenon
<1>4. IsFiniteSet(L) /\ Cardinality(L) \in Nat /\ Cardinality(L) <= voteCount[s][g]
  BY LastVotesFinite DEF EveryVoteStored
<1>5. UNCHANGED sessionOf /\ voteCount'[s][g] = IF s = sessionOf[f] THEN voteCount[s][g] + Cardinality(V) ELSE voteCount[s][g]
  BY <1>1, <1>2 DEF AddVotes, Typed, TypeOK
<1>6. ASSUME NEW x \in M PROVE x \in L \/ (x \in P /\ s = sessionOf[f])
  <2>1. /\ x \in File \X (1..MaxLines) /\ sessionOf[x[1]] = s /\ ballot'[x[1]][x[2]] = g
    BY <1>5, <1>6 DEF LastVotes
  <2>2. CASE ballot'[x[1]][x[2]] = ballot[x[1]][x[2]]
    BY <2>1, <2>2 DEF LastVotes
  <2>3. CASE ballot'[x[1]][x[2]] # ballot[x[1]][x[2]]
    <3>1. x[1] = f /\ x[2] \in 1..MaxLines
      BY <1>1, <2>1, <2>3, BallotsCast
    <3>2. /\ x[2] \in 1..Len(lines[r]) /\ x[2] > startLine[r]
          /\ g = IF lines[r][x[2]] = Malformed THEN Malformed
                 ELSE IF lines[r][x[2]] \in Dir THEN RootOf(r, lines[r][x[2]]) ELSE Unknown
      <4>1. ballot'[f][x[2]] =
              IF x[2] \in 1..Len(lines[r]) /\ x[2] > startLine[r]
                THEN IF lines[r][x[2]] = Malformed THEN Malformed
                     ELSE IF lines[r][x[2]] \in Dir THEN RootOf(r, lines[r][x[2]]) ELSE Unknown
                ELSE ballot[f][x[2]]
        BY <1>1, <3>1, BallotsCast
      <4> QED
        BY <2>1, <2>3, <3>1, <4>1
    <3>3. lines[r][x[2]] \in Dir /\ RootOf(r, lines[r][x[2]]) = g
      BY <3>2, MarkerAssumption
    <3>4. x[2] \in V
      <4>1. DOMAIN lines[r] = 1..Len(lines[r])
        BY DEF Typed, LinesOK
      <4> QED
        BY <3>2, <3>3, <4>1 DEF Voters
    <3>5. x = <<f, x[2]>>
      BY <2>1, <3>1
    <3> QED
      BY <2>1, <3>1, <3>4, <3>5
  <2> QED
    BY <2>2, <2>3
<1> HIDE DEF V, P, L, M
<1>7. CASE s = sessionOf[f]
  <2>1. M \in SUBSET (L \cup P)
    BY <1>6
  <2>2. IsFiniteSet(L \cup P) /\ Cardinality(L \cup P) <= Cardinality(L) + Cardinality(P)
    <3>1. /\ IsFiniteSet(L \cup P)
          /\ Cardinality(L \cup P) = Cardinality(L) + Cardinality(P) - Cardinality(L \cap P)
      BY <1>3, <1>4, FS_Union
    <3>2. Cardinality(L \cap P) \in Nat
      <4>1. IsFiniteSet(L \cap P)
        BY <1>3, FS_Subset
      <4> QED
        BY <4>1, FS_CardinalityType
    <3> QED
      BY <1>2, <1>3, <1>4, <3>1, <3>2
  <2>3. Cardinality(M) \in Nat /\ Cardinality(L \cup P) \in Nat /\ Cardinality(M) <= Cardinality(L \cup P)
    BY <2>1, <2>2, FS_Subset, FS_CardinalityType
  <2>4. voteCount[s][g] \in Nat
    BY DEF Typed, TypeOK
  <2>5. Cardinality(M) <= voteCount'[s][g]
    BY <1>2, <1>3, <1>4, <1>5, <1>7, <2>2, <2>3, <2>4
  <2> QED
    BY <2>5 DEF M
<1>8. CASE s # sessionOf[f]
  <2>1. M \in SUBSET L
    BY <1>6, <1>8
  <2>2. Cardinality(M) \in Nat /\ Cardinality(M) <= Cardinality(L)
    BY <1>4, <2>1, FS_Subset, FS_CardinalityType
  <2>3. voteCount[s][g] \in Nat
    BY DEF Typed, TypeOK
  <2>4. Cardinality(M) <= voteCount'[s][g]
    BY <1>4, <1>5, <1>8, <2>2, <2>3
  <2> QED
    BY <2>4 DEF M
<1> QED
  BY <1>7, <1>8

LEMMA StoredInduction ==
  (Init => EveryVoteStored) /\ (Typed /\ EveryVoteStored /\ [Next]_vars => EveryVoteStored')
<1>1. ASSUME Init PROVE EveryVoteStored
  <2> SUFFICES ASSUME NEW s \in Session, NEW g \in Dir
               PROVE  Cardinality(LastVotes(s, g)) <= voteCount[s][g]
    BY DEF EveryVoteStored
  <2>1. LastVotes(s, g) = {}
    BY <1>1, MarkerAssumption DEF Init, LastVotes
  <2>2. voteCount[s][g] = 0
    BY <1>1 DEF Init
  <2> QED
    BY <2>1, <2>2, FS_EmptySet
<1>2. ASSUME Typed, EveryVoteStored, [Next]_vars PROVE EveryVoteStored'
  <2>1. ASSUME UNCHANGED <<sessionOf, ballot, voteCount>> PROVE EveryVoteStored'
    BY <1>2, <2>1 DEF EveryVoteStored, LastVotes
  <2>2. UNCHANGED <<sessionOf, ballot, voteCount>> \/ \E r \in Run : AddVotes(r)
    BY <1>2 DEF Next, ScanStep, MoveTrees, CompleteLine, AppendLine, BeginScan, ReadFile,
                ScanOffset, SetScanOffset, EndScan, AbortScan
  <2> QED
    BY <1>2, <2>1, <2>2, CastingStores
<1> QED
  BY <1>1, <1>2

(* Whatever overlaps and wherever an invocation fails, no vote is lost: a
   line behind a stored offset that touches a directory has voted (or was
   passed over half written), and the root it last voted for has at least as
   many stored votes as lines that last voted for it.  Overlaps and failures
   can only make lines count more than once. *)
THEOREM VotesAreNeverLost == Spec => []NoVoteLost
<1>1. Init => Typed /\ NoneSkipped /\ EveryVoteStored
  BY TypedInduction, SkippedInduction, StoredInduction
<1>2. Typed /\ NoneSkipped /\ EveryVoteStored /\ [Next]_vars => (Typed /\ NoneSkipped /\ EveryVoteStored)'
  BY TypedInduction, SkippedInduction, StoredInduction
<1>3. NoneSkipped /\ EveryVoteStored => NoVoteLost
  BY DEF NoneSkipped, EveryVoteStored, NoVoteLost
<1> QED
  BY <1>1, <1>2, <1>3, PTL DEF Spec

(***************************************************************************)
(* The majority.                                                           *)
(***************************************************************************)

(* An iteration of the map meets every root. *)
LEMMA OrdersList ==
  ASSUME NEW order \in IterationOrders
  PROVE  /\ Len(order) = Cardinality(Dir) /\ Len(order) \in Nat
         /\ \A i \in 1..Len(order) : order[i] \in Dir
         /\ \A g \in Dir : \E i \in 1..Len(order) : order[i] = g
<1>1. Cardinality(Dir) \in Nat
  BY DirAssumption, FS_CardinalityType
<1>2. order \in [1..Cardinality(Dir) -> Dir] /\ \A g \in Dir : \E i \in 1..Cardinality(Dir) : order[i] = g
  BY DEF IterationOrders, Bijection, Injection, Surjection
<1>3. order \in Seq(Dir) /\ Len(order) = Cardinality(Dir)
  BY <1>1, <1>2
<1> QED
  BY <1>1, <1>2, <1>3

Candidate == [root : Nat, count : Nat]

(* The loop's state after each root. *)
Running(best, counts, order) ==
  best = [i \in 0..Len(order) |->
            IF i = 0
              THEN [root |-> 0, count |-> 0]
              ELSE IF Better(best[i - 1], order[i], counts)
                     THEN [root |-> order[i], count |-> counts[order[i]]]
                     ELSE best[i - 1]]

LEMMA MajorityLoops ==
  ASSUME NEW counts \in [Dir -> Nat], NEW order \in IterationOrders
  PROVE  \E best \in [0..Len(order) -> Candidate] :
            /\ Running(best, counts, order)
            /\ MajorityGitRoot(counts, order) = best[Len(order)]
<1> DEFINE n == Len(order)
           z == [root |-> 0, count |-> 0]
           Round(i, b) == IF Better(b, order[i], counts)
                            THEN [root |-> order[i], count |-> counts[order[i]]] ELSE b
           step == [i \in 1..n |-> [b \in Candidate |-> Round(i, b)]]
<1>1. n \in Nat /\ \A i \in 1..n : order[i] \in Dir /\ order[i] \in Nat /\ counts[order[i]] \in Nat
  BY OrdersList, DirAssumption
<1>2. z \in Candidate
  BY DEF Candidate
<1>3. \A i \in 1..n, b \in Candidate : Round(i, b) \in Candidate
  <2>1. \A i \in 1..n : [root |-> order[i], count |-> counts[order[i]]] \in Candidate
    BY <1>1 DEF Candidate
  <2> HIDE DEF n
  <2> QED
    BY <2>1
<1>4. step \in [1..n -> [Candidate -> Candidate]]
  <2> HIDE DEF n, Round
  <2> QED
    BY <1>3
<1>5. PICK g \in [0..n -> Candidate] : Loop(z, step, n, g)
  <2> HIDE DEF n, z, step
  <2> QED
    BY <1>1, <1>2, <1>4, LoopExists
<1>6. ASSUME NEW i \in 1..n PROVE g[i] = Round(i, g[i - 1])
  <2>1. i - 1 \in 0..n
    BY <1>1
  <2>2. g[i - 1] \in Candidate
    BY <2>1
  <2>3. step[i][g[i - 1]] = Round(i, g[i - 1])
    <3> HIDE DEF n, Round
    <3> QED
      BY <2>2
  <2> HIDE DEF n, z, step, Round
  <2> QED
    BY <1>5, <2>3 DEF Loop
<1>7. Running(g, counts, order)
  <2>1. \A i \in 0..n : g[i] = IF i = 0 THEN z ELSE Round(i, g[i - 1])
    <3>1. g[0] = z
      BY <1>5 DEF Loop
    <3>2. \A i \in 0..n : i # 0 => i \in 1..n
      BY <1>1
    <3> HIDE DEF n, z, Round
    <3> QED
      BY <1>6, <3>1, <3>2
  <2>2. g = [i \in 0..n |-> IF i = 0 THEN z ELSE Round(i, g[i - 1])]
    <3> HIDE DEF n, z, Round
    <3> QED
      BY <2>1
  <2> QED
    BY <2>2 DEF Running
<1>8. \E best : Running(best, counts, order)
  BY <1>7
<1> DEFINE best == CHOOSE b : Running(b, counts, order)
<1>9. Running(best, counts, order)
  BY <1>8, Zenon
<1>10. MajorityGitRoot(counts, order) = best[n]
  BY Zenon DEF MajorityGitRoot, Running
<1>11. best \in [0..n -> Candidate]
  <2> HIDE DEF best
  <2>1. /\ DOMAIN best = 0..n /\ best = [i \in 0..n |-> best[i]]
        /\ \A i \in 0..n : best[i] = IF i = 0 THEN z ELSE Round(i, best[i - 1])
    <3>1. best = [i \in 0..n |-> IF i = 0 THEN z ELSE Round(i, best[i - 1])]
      BY <1>9 DEF Running
    <3> HIDE DEF n, z, Round
    <3> QED
      BY <3>1
  <2> DEFINE I == {i \in 0..n : best[i] \in Candidate}
  <2> HIDE DEF n, z, Round
  <2>2. 0 \in I
    <3>1. 0 \in 0..n
      BY <1>1
    <3>2. best[0] = z
      BY <2>1, <3>1
    <3> QED
      BY <1>2, <3>1, <3>2
  <2>3. ASSUME NEW i \in 1..n, i - 1 \in I PROVE i \in I
    <3>1. i \in 0..n /\ i # 0
      BY <1>1
    <3>2. best[i] = Round(i, best[i - 1])
      BY <2>1, <3>1
    <3> QED
      BY <1>3, <2>3, <3>1, <3>2
  <2>4. 0..n \subseteq I
    <3> HIDE DEF I
    <3> QED
      BY <1>1, <2>2, <2>3, Counting
  <2> QED
    BY <2>1, <2>4
<1> HIDE DEF best
<1> QED
  BY <1>9, <1>10, <1>11

(* The best of the first i roots. *)
BestSoFar(b, counts, order, i) ==
  /\ b.count > 0 => b.root \in Dir /\ counts[b.root] = b.count
  /\ \A j \in 1..i : /\ counts[order[j]] <= b.count
                     /\ counts[order[j]] = b.count /\ b.count > 0 => b.root <= order[j]

LEMMA RoundKeepsBest ==
  ASSUME NEW counts \in [Dir -> Nat], NEW n \in Nat, NEW order,
         \A j \in 1..n : order[j] \in Dir,
         NEW i \in 1..n, NEW b \in Candidate, BestSoFar(b, counts, order, i - 1)
  PROVE  BestSoFar(IF Better(b, order[i], counts)
                     THEN [root |-> order[i], count |-> counts[order[i]]] ELSE b,
                   counts, order, i)
<1>1. /\ b.root \in Nat /\ b.count \in Nat
      /\ \A j \in 1..n : order[j] \in Dir /\ order[j] \in Nat /\ counts[order[j]] \in Nat
  BY DirAssumption DEF Candidate
<1>2. \A j \in 1..i : j \in 1..n /\ (j = i \/ j \in 1..(i - 1))
  OBVIOUS
<1>3. CASE Better(b, order[i], counts)
  <2> DEFINE c == [root |-> order[i], count |-> counts[order[i]]]
  <2>1. c.root = order[i] /\ c.count = counts[order[i]] /\ c.count > 0 /\ c.count >= b.count
    BY <1>1, <1>3 DEF Better
  <2>2. c.count = b.count => c.root < b.root
    BY <1>1, <1>3, <2>1 DEF Better
  <2>3. ASSUME NEW j \in 1..i
        PROVE  /\ counts[order[j]] <= c.count
               /\ counts[order[j]] = c.count => c.root <= order[j]
    <3> HIDE DEF c
    <3>1. CASE j = i
      BY <1>1, <2>1, <3>1
    <3>2. CASE j \in 1..(i - 1)
      <4>1. /\ counts[order[j]] <= b.count
            /\ counts[order[j]] = b.count /\ b.count > 0 => b.root <= order[j]
        BY <3>2 DEF BestSoFar
      <4> QED
        BY <1>1, <1>2, <2>1, <2>2, <4>1
    <3> QED
      BY <1>2, <3>1, <3>2
  <2> HIDE DEF c
  <2>4. BestSoFar(c, counts, order, i)
    BY <1>1, <2>1, <2>3 DEF BestSoFar
  <2> QED
    BY <1>3, <2>4 DEF c
<1>4. CASE ~Better(b, order[i], counts)
  <2>1. counts[order[i]] <= b.count
    BY <1>1, <1>4 DEF Better
  <2>2. counts[order[i]] = b.count /\ b.count > 0 => b.root <= order[i]
    BY <1>1, <1>4 DEF Better
  <2>3. BestSoFar(b, counts, order, i)
    BY <1>2, <2>1, <2>2 DEF BestSoFar
  <2> QED
    BY <1>4, <2>3
<1> QED
  BY <1>3, <1>4

(* MajorityGitRoot finds the smallest of the roots with the most votes, in
   whatever order it sees them. *)
THEOREM MajorityFound ==
  ASSUME NEW counts \in [Dir -> Nat], NEW order \in IterationOrders
  PROVE  IsMajority(MajorityGitRoot(counts, order), counts)
<1> DEFINE n == Len(order)
<1>1. /\ n \in Nat /\ \A i \in 1..n : order[i] \in Dir
      /\ \A g \in Dir : \E i \in 1..n : order[i] = g
  BY OrdersList
<1>2. PICK best \in [0..n -> Candidate] :
         Running(best, counts, order) /\ MajorityGitRoot(counts, order) = best[n]
  BY MajorityLoops
<1>3. /\ best[0] = [root |-> 0, count |-> 0]
      /\ \A i \in 1..n : best[i] = IF Better(best[i - 1], order[i], counts)
                                     THEN [root |-> order[i], count |-> counts[order[i]]]
                                     ELSE best[i - 1]
  <2>1. 0 \in 0..n /\ \A i \in 1..n : i \in 0..n /\ i # 0
    BY <1>1
  <2> QED
    BY <1>2, <2>1 DEF Running
<1> DEFINE I == {i \in 0..n : BestSoFar(best[i], counts, order, i)}
<1>4. 0 \in I
  <2>1. 0 \in 0..n /\ best[0].count = 0 /\ 1..0 = {}
    BY <1>1, <1>3
  <2> QED
    BY <2>1 DEF BestSoFar
<1> HIDE DEF n
<1>5. ASSUME NEW i \in 1..n, i - 1 \in I PROVE i \in I
  <2>1. i \in 0..n /\ best[i - 1] \in Candidate /\ BestSoFar(best[i - 1], counts, order, i - 1)
    BY <1>1, <1>5
  <2> QED
    BY <1>1, <1>3, <2>1, RoundKeepsBest
<1>6. n \in I
  <2>1. 0..n \subseteq I
    <3> HIDE DEF I
    <3> QED
      BY <1>1, <1>4, <1>5, Counting
  <2> QED
    BY <1>1, <2>1
<1> DEFINE b == best[n]
<1>7. /\ b \in Candidate /\ b.root \in Nat /\ b.count \in Nat
      /\ b.count > 0 => b.root \in Dir /\ counts[b.root] = b.count
      /\ \A g \in Dir : /\ counts[g] \in Nat /\ g \in Nat /\ counts[g] <= b.count
                        /\ counts[g] = b.count /\ b.count > 0 => b.root <= g
  <2>1. b \in Candidate /\ BestSoFar(b, counts, order, n)
    BY <1>1, <1>6
  <2> HIDE DEF b
  <2> QED
    BY <1>1, <2>1, DirAssumption DEF Candidate, BestSoFar
<1> HIDE DEF b
<1>8. IsMajority(b, counts)
  BY <1>7 DEF IsMajority
<1> QED
  BY <1>2, <1>8 DEF b

(* The directory a session is reported under does not depend on the order
   in which Go happens to iterate over its votes, and it is the smallest of
   those with the most of them. *)
THEOREM MajorityAlwaysDeterministic == Spec => []MajorityIsDeterministic
<1>1. TypeOK => MajorityIsDeterministic
  BY MajorityFound DEF TypeOK, MajorityIsDeterministic
<1> QED
  BY <1>1, TypeCorrect, PTL
=============================================================================
