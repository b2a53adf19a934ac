---------------------------- MODULE SessionProofs ----------------------------
(***************************************************************************)
(* Theorems about the session: SessionManager, for any file systems,       *)
(* labels and bounds, and SessionRestore and Compaction, for any bounds    *)
(* and sizes.                                                              *)
(***************************************************************************)
EXTENDS SessionManager, SessionRestore, Compaction, TranscriptProofs,
        FiniteSetTheorems, SequenceTheorems

-----------------------------------------------------------------------------
(* The session files                                                       *)

\* What is on the disk are files of lines, and the manager names its file.
SessionFilesInv ==
    /\ "sessionFile" \in DOMAIN mgr
    /\ \A f \in DOMAIN disk : disk[f] \in Seq(ToSet(disk[f]))

\* A new session gets a file that does not exist.
LEMMA NewFileIsNew == ASSUME CanName PROVE NewFile \in Files \ DOMAIN disk
<1> DEFINE free == Files \ DOMAIN disk
<1>1. free # {} /\ free \in SUBSET Nat
  BY FileAssumption DEF CanName, Files
<1>2. PICK x \in free : \A y \in free : ~(<<y, x>> \in OpToRel(<, Nat))
  BY <1>1, NatLessThanWellFounded, WFMin
<1>3. ASSUME NEW y \in free PROVE x <= y
  <2>1. ~(y < x) /\ x \in Nat /\ y \in Nat
    BY <1>1, <1>2 DEF OpToRel
  <2> QED
    BY <2>1
<1> QED
  BY <1>3 DEF NewFile, Min

\* A line more.
LEMMA LineAdded ==
    ASSUME NEW s, s \in Seq(ToSet(s)), NEW line
    PROVE  Append(s, line) \in Seq(ToSet(Append(s, line))) /\ IsPrefix(s, Append(s, line))
<1> DEFINE S == ToSet(s) \cup {line}
           u == Append(s, line)
<1>1. s \in Seq(S)
  <2>1. ToSet(s) \subseteq S
    OBVIOUS
  <2>2. Seq(ToSet(s)) \subseteq Seq(S)
    BY <2>1, SeqMonotonic
  <2> QED
    BY <2>2
<1>2. u \in Seq(S) /\ Len(u) = Len(s) + 1 /\ Len(s) \in Nat /\ \A i \in 1..Len(s) : u[i] = s[i]
  BY <1>1
<1>3. u \in Seq(ToSet(u))
  <2> HIDE DEF u, S
  <2>1. DOMAIN u = 1..Len(u) /\ Len(u) \in Nat /\ u = [i \in 1..Len(u) |-> u[i]]
    BY <1>2
  <2>2. \A i \in 1..Len(u) : u[i] \in ToSet(u)
    BY <2>1 DEF ToSet
  <2> QED
    BY <2>1, <2>2, SeqDef
<1>4. SubSeq(u, 1, Len(s)) = s /\ SubSeq(s, 1, Len(s)) = s
  BY <1>1, <1>2
<1> QED
  BY <1>2, <1>3, <1>4 DEF IsPrefix

\* Every file of a step is as it was, longer, or one that could not be read or had to be migrated.
Grows ==
    \A f \in DOMAIN disk :
        (Load(disk[f]) # <<>> /\ ~NeedsMigration(disk[f])) => f \in DOMAIN disk' /\ IsPrefix(disk[f], disk'[f])

\* An operation that leaves the disk alone.
LEMMA NoFileChanges ==
    ASSUME SessionFilesInv, UNCHANGED disk
    PROVE  Grows /\ \A f \in DOMAIN disk' : disk'[f] \in Seq(ToSet(disk'[f]))
<1>1. ASSUME NEW f \in DOMAIN disk PROVE IsPrefix(disk[f], disk[f])
  BY DEF SessionFilesInv, IsPrefix
<1> QED
  BY <1>1 DEF SessionFilesInv, Grows

\* A line, whole or torn, appended to a file.
LEMMA LineReachesFile ==
    ASSUME SessionFilesInv, NEW g, NEW line,
           disk' = WithFile(g, Append(LinesOf(g), line))
    PROVE  Grows /\ \A f \in DOMAIN disk' : disk'[f] \in Seq(ToSet(disk'[f]))
<1> DEFINE before == LinesOf(g)
<1>1. before \in Seq(ToSet(before))
  <2>1. <<>> \in Seq(ToSet(<<>>))
    OBVIOUS
  <2> QED
    BY <2>1 DEF SessionFilesInv, LinesOf
<1>2. Append(before, line) \in Seq(ToSet(Append(before, line))) /\ IsPrefix(before, Append(before, line))
  BY <1>1, LineAdded
<1>3. /\ DOMAIN disk' = {g} \cup DOMAIN disk /\ disk'[g] = Append(before, line)
      /\ \A f \in DOMAIN disk \ {g} : disk'[f] = disk[f]
  BY DEF WithFile
<1>4. ASSUME NEW f \in DOMAIN disk PROVE IsPrefix(disk[f], disk[f])
  BY DEF SessionFilesInv, IsPrefix
<1> HIDE DEF before
<1>5. g \in DOMAIN disk => before = disk[g]
  BY DEF before, LinesOf
<1> QED
  BY <1>2, <1>3, <1>4, <1>5 DEF SessionFilesInv, Grows

\* A file is truncated that could not be read or has to be migrated.
LEMMA FileTruncated ==
    ASSUME SessionFilesInv, NEW g, disk' = WithFile(g, <<>>),
           g \in DOMAIN disk => Load(disk[g]) = <<>> \/ NeedsMigration(disk[g])
    PROVE  Grows /\ \A f \in DOMAIN disk' : disk'[f] \in Seq(ToSet(disk'[f]))
<1>1. /\ DOMAIN disk' = {g} \cup DOMAIN disk /\ disk'[g] = <<>>
      /\ \A f \in DOMAIN disk \ {g} : disk'[f] = disk[f]
  BY DEF WithFile
<1>2. <<>> \in Seq(ToSet(<<>>))
  OBVIOUS
<1>3. ASSUME NEW f \in DOMAIN disk PROVE IsPrefix(disk[f], disk[f])
  BY DEF SessionFilesInv, IsPrefix
<1> QED
  BY <1>1, <1>2, <1>3 DEF SessionFilesInv, Grows

\* The methods keep the fields of the manager.
LEMMA NewManagerFile == ASSUME NEW f PROVE "sessionFile" \in DOMAIN NewManager(f) /\ NewManager(f).sessionFile = f
BY DEF NewManager

\* The helpers of the operations change neither the file nor its name.
LEMMA IndexKeepsFile ==
    ASSUME NEW m, "sessionFile" \in DOMAIN m
    PROVE  "sessionFile" \in DOMAIN BuildIndex(m) /\ BuildIndex(m).sessionFile = m.sessionFile
BY DEF BuildIndex

\* The file stays the manager's (_rewriteFile).
LEMMA RewriteKeepsFile ==
    ASSUME NEW m, "sessionFile" \in DOMAIN m
    PROVE  "sessionFile" \in DOMAIN Rewrite(m) /\ Rewrite(m).sessionFile = m.sessionFile
BY DEF Rewrite

\* The file stays the manager's (_appendEntry).
LEMMA AppendKeepsFile ==
    ASSUME NEW m, "sessionFile" \in DOMAIN m, NEW e
    PROVE  "sessionFile" \in DOMAIN AppendEntry(m, e)
<1> DEFINE n == [m EXCEPT !.fileEntries = Append(@, e), !.leafId = e.id]
<1>1. "sessionFile" \in DOMAIN n
  OBVIOUS
<1>2. AppendEntry(m, e) = PersistEntry(n, e)
  BY DEF AppendEntry
<1> HIDE DEF n
<1> QED
  BY <1>1, <1>2 DEF PersistEntry

\* setSessionFile truncates only files that cannot be read or have to be migrated.
LEMMA SetSessionFileGrows ==
    ASSUME SessionFilesInv, NEW g, SetSessionFile(g)
    PROVE  Grows /\ SessionFilesInv'
<1> DEFINE fresh == NewManager(g)
           lines == IF g \in DOMAIN disk THEN Load(disk[g]) ELSE <<>>
           entries == IF NeedsMigration(lines) THEN MigrateToCurrentVersion(lines) ELSE lines
           filled == [fresh EXCEPT !.fileEntries = entries, !.flushed = TRUE]
           loaded == BuildIndex(filled)
<1>1. "sessionFile" \in DOMAIN fresh /\ fresh.sessionFile = g
  BY NewManagerFile
<1>2. "sessionFile" \in DOMAIN filled /\ filled.sessionFile = g
  <2> HIDE DEF fresh, entries
  <2> QED
    BY <1>1
<1>3. "sessionFile" \in DOMAIN loaded /\ loaded.sessionFile = g
  <2> HIDE DEF filled
  <2> QED
    BY <1>2, IndexKeepsFile
<1>4. /\ "sessionFile" \in DOMAIN [Rewrite(fresh) EXCEPT !.flushed = TRUE]
      /\ "sessionFile" \in DOMAIN Rewrite(loaded)
  <2>1. "sessionFile" \in DOMAIN Rewrite(fresh) /\ "sessionFile" \in DOMAIN Rewrite(loaded)
    <3> HIDE DEF fresh, loaded
    <3> QED
      BY <1>1, <1>3, RewriteKeepsFile
  <2> QED
    BY <2>1
<1>5. g \in DOMAIN disk /\ lines # <<>> => lines = disk[g]
  BY DEF Load
<1>6. \/ mgr' = fresh /\ UNCHANGED disk
      \/ mgr' = [Rewrite(fresh) EXCEPT !.flushed = TRUE] /\ disk' = Truncated(fresh)
         /\ g \in DOMAIN disk /\ lines = <<>>
      \/ mgr' = Rewrite(loaded) /\ disk' = Truncated(loaded)
         /\ g \in DOMAIN disk /\ lines # <<>> /\ NeedsMigration(lines)
      \/ mgr' = loaded /\ UNCHANGED disk
  BY Zenon DEF SetSessionFile
<1> HIDE DEF fresh, lines, loaded
<1>7. CASE UNCHANGED disk
  <2>1. "sessionFile" \in DOMAIN mgr'
    BY <1>1, <1>3, <1>4, <1>6
  <2> QED
    BY <2>1, <1>7, NoFileChanges DEF SessionFilesInv
<1>8. CASE disk' = WithFile(g, <<>>) /\ "sessionFile" \in DOMAIN mgr'
           /\ g \in DOMAIN disk /\ (lines = <<>> \/ NeedsMigration(lines))
  <2>1. Load(disk[g]) = <<>> \/ NeedsMigration(disk[g])
    BY <1>5, <1>8 DEF lines
  <2> QED
    BY <2>1, <1>8, FileTruncated DEF SessionFilesInv
<1> QED
  BY <1>1, <1>3, <1>4, <1>6, <1>7, <1>8 DEF Truncated

\* A branched session gets a file of its own.
LEMMA BranchedGrows ==
    ASSUME SessionFilesInv, NEW leaf, CreateBranchedSession(leaf)
    PROVE  Grows /\ SessionFilesInv'
<1> DEFINE entries == <<Header(CURRENT_SESSION_VERSION)>> \o BranchedEntries(mgr, leaf)
           base == [mgr EXCEPT !.fileEntries = entries, !.sessionFile = NewFile]
           m == BuildIndex(base)
           now == HasAssistant(entries)
<1>1. /\ CanName
      /\ mgr' = IF now THEN [Rewrite(m) EXCEPT !.flushed = TRUE] ELSE [m EXCEPT !.flushed = FALSE]
      /\ disk' = IF now THEN Truncated(m) ELSE disk
  BY Zenon DEF CreateBranchedSession
<1>2. "sessionFile" \in DOMAIN base /\ base.sessionFile = NewFile
  <2> HIDE DEF entries
  <2> QED
    BY DEF SessionFilesInv
<1>3. "sessionFile" \in DOMAIN m /\ m.sessionFile = NewFile
  <2> HIDE DEF base
  <2> QED
    BY <1>2, IndexKeepsFile
<1> HIDE DEF m, now
<1>4. "sessionFile" \in DOMAIN Rewrite(m)
  BY <1>3, RewriteKeepsFile
<1>5. "sessionFile" \in DOMAIN mgr'
  BY <1>1, <1>3, <1>4
<1>6. NewFile \notin DOMAIN disk
  BY <1>1, NewFileIsNew
<1>7. disk' = disk \/ disk' = WithFile(NewFile, <<>>)
  BY <1>1, <1>3 DEF Truncated
<1> QED
  BY <1>5, <1>6, <1>7, NoFileChanges, FileTruncated DEF SessionFilesInv

\* Everything else leaves the files alone or adds a line.
LEMMA FilesKept == ASSUME SessionFilesInv, [SessionNext]_vars PROVE Grows /\ SessionFilesInv'
<1>1. CASE WriteLine
  <2>1. "sessionFile" \in DOMAIN mgr'
    BY <1>1 DEF WriteLine, SessionFilesInv
  <2>2. disk' = WithFile(mgr.sessionFile, Append(LinesOf(mgr.sessionFile), Head(mgr.writing)))
    BY <1>1 DEF WriteLine
  <2> QED
    BY <2>1, <2>2, LineReachesFile DEF SessionFilesInv
<1>2. CASE Stop
  <2>1. "sessionFile" \in DOMAIN mgr'
    BY <1>2 DEF Stop, NoManager, NewManager
  <2>2. \/ UNCHANGED disk
        \/ disk' = WithFile(mgr.sessionFile, Append(LinesOf(mgr.sessionFile), TornLine))
    BY <1>2 DEF Stop
  <2> QED
    BY <2>1, <2>2, LineReachesFile, NoFileChanges DEF SessionFilesInv
<1>3. CASE Method
  <2>2. ASSUME NEW type, AppendChild(type) PROVE Grows /\ SessionFilesInv'
    <3>1. "sessionFile" \in DOMAIN mgr'
      BY <2>2, AppendKeepsFile DEF AppendChild, SessionFilesInv
    <3> QED
      BY <2>2, <3>1, NoFileChanges DEF SessionFilesInv, AppendChild
  <2>3. ASSUME NEW id, NEW label, AppendLabelChange(id, label) PROVE Grows /\ SessionFilesInv'
    <3> DEFINE m == AppendEntry(mgr, Entry("label", FreshId(mgr.fileEntries), mgr.leafId, id, label))
    <3>1. mgr' = [m EXCEPT !.labelsById = SetLabel(@, id, label)] /\ UNCHANGED disk
      BY <2>3 DEF AppendLabelChange
    <3>2. "sessionFile" \in DOMAIN m
      BY AppendKeepsFile DEF SessionFilesInv
    <3> HIDE DEF m
    <3>3. "sessionFile" \in DOMAIN mgr'
      BY <3>1, <3>2
    <3> QED
      BY <3>1, <3>3, NoFileChanges DEF SessionFilesInv
  <2>4. ASSUME NEW id, Branch(id) PROVE Grows /\ SessionFilesInv'
    <3>1. "sessionFile" \in DOMAIN mgr'
      BY <2>4 DEF Branch, SessionFilesInv
    <3> QED
      BY <2>4, <3>1, NoFileChanges DEF SessionFilesInv, Branch
  <2>5. ASSUME ResetLeaf PROVE Grows /\ SessionFilesInv'
    <3>1. "sessionFile" \in DOMAIN mgr'
      BY <2>5 DEF ResetLeaf, SessionFilesInv
    <3> QED
      BY <2>5, <3>1, NoFileChanges DEF SessionFilesInv, ResetLeaf
  <2>6. ASSUME NEW from, BranchWithSummary(from) PROVE Grows /\ SessionFilesInv'
    <3> DEFINE m == [mgr EXCEPT !.leafId = from]
    <3>1. "sessionFile" \in DOMAIN m
      BY DEF SessionFilesInv
    <3>2. mgr' = AppendEntry(m, Entry("other", FreshId(mgr.fileEntries), from, Null, NoLabel)) /\ UNCHANGED disk
      BY <2>6 DEF BranchWithSummary
    <3> HIDE DEF m
    <3>3. "sessionFile" \in DOMAIN mgr'
      BY <3>1, <3>2, AppendKeepsFile
    <3> QED
      BY <3>2, <3>3, NoFileChanges DEF SessionFilesInv
  <2>7. ASSUME NewSession PROVE Grows /\ SessionFilesInv'
    <3>1. "sessionFile" \in DOMAIN mgr'
      BY <2>7 DEF NewSession, NewManager
    <3> QED
      BY <2>7, <3>1, NoFileChanges DEF SessionFilesInv, NewSession
  <2>8. ASSUME NEW f, SwitchSession(f) PROVE Grows /\ SessionFilesInv'
    BY <2>8, SetSessionFileGrows DEF SwitchSession
  <2> QED
    BY <1>3, <2>2, <2>3, <2>4, <2>5, <2>6, <2>7, <2>8, BranchedGrows DEF Method
<1>4. CASE StartProcess
  <2>1. ASSUME Create PROVE Grows /\ SessionFilesInv'
    <3>1. "sessionFile" \in DOMAIN mgr'
      BY <2>1 DEF Create, NewManager
    <3> QED
      BY <2>1, <3>1, NoFileChanges DEF SessionFilesInv, Create
  <2>2. ASSUME NEW f, ForkFrom(f) PROVE Grows /\ SessionFilesInv'
    <3> DEFINE lines == <<Header(CURRENT_SESSION_VERSION)>> \o EntriesOf(disk[f])
               m == [NewManager(NewFile) EXCEPT !.fileEntries = lines, !.flushed = TRUE, !.writing = lines]
    <3>1. mgr' = BuildIndex(m) /\ UNCHANGED disk
      BY <2>2, Zenon DEF ForkFrom
    <3>2. "sessionFile" \in DOMAIN m
      <4> HIDE DEF lines
      <4> QED
        BY DEF NewManager
    <3> HIDE DEF m
    <3>3. "sessionFile" \in DOMAIN mgr'
      BY <3>1, <3>2, IndexKeepsFile
    <3> QED
      BY <3>1, <3>3, NoFileChanges DEF SessionFilesInv
  <2>3. ASSUME NEW f, Open(f) PROVE Grows /\ SessionFilesInv'
    BY <2>3, SetSessionFileGrows DEF Open
  <2>4. ASSUME ContinueRecent PROVE Grows /\ SessionFilesInv'
    <3>1. PICK f : SetSessionFile(f)
      BY <2>4 DEF ContinueRecent
    <3> QED
      BY <3>1, SetSessionFileGrows
  <2> QED
    BY <1>4, <2>1, <2>2, <2>3, <2>4 DEF StartProcess
<1>5. CASE UNCHANGED vars
  <2>1. UNCHANGED disk /\ "sessionFile" \in DOMAIN mgr'
    BY <1>5 DEF vars, SessionFilesInv
  <2> QED
    BY <2>1, NoFileChanges DEF SessionFilesInv
<1> QED
  BY <1>1, <1>2, <1>3, <1>4, <1>5 DEF SessionNext

\* Whatever is appended, branched, forked, migrated or interrupted, a readable session file
\* of the current version only gets longer.
THEOREM FilesOnlyGrow == SessionSpec => ReadableFilesOnlyGrow
<1>1. SessionInit => SessionFilesInv
  BY DisksAssumption DEF SessionInit, SessionFilesInv, NoManager, NewManager
<1>2. SessionFilesInv /\ [SessionNext]_vars => SessionFilesInv'
  BY FilesKept
<1>3. SessionFilesInv /\ [SessionNext]_vars =>
        [\A f \in DOMAIN disk :
          (Load(disk[f]) # <<>> /\ ~NeedsMigration(disk[f])) =>
              f \in DOMAIN disk' /\ IsPrefix(disk[f], disk'[f])]_vars
  BY FilesKept DEF Grows
<1> QED
  BY <1>1, <1>2, <1>3, PTL DEF SessionSpec, ReadableFilesOnlyGrow

-----------------------------------------------------------------------------
(* What validateToolSpanIntegrity finds                                    *)

\* Nothing is wrong with the tool calls of a transcript, but that some have no answer.
Coherent(t) == DistinctCalls(t) /\ ResultsAnswer(t) /\ DistinctResults(t)

\* The calls of the open span that wait for a result.
OpenCalls(t) ==
    {id \in Nat : \E i \in Callers(t) : id \in Ids(t[i].calls) /\ SameSpan(t, i, Len(t) + 1)} \ Answered(t)

\* What the loop knows after a transcript: the calls of the open span, and the
\* unanswered ones of those before.
Scanned(t, s) ==
    /\ s \in Spans
    /\ Coherent(t) => s.orphans = {} /\ s.pending = OpenCalls(t) /\ s.missing = Pending(t) \ OpenCalls(t)

\* A transcript was coherent before its last message.
LEMMA CoherentBefore ==
    ASSUME NEW t \in Seq(AnyMessage), NEW m \in AnyMessage, Coherent(Append(t, m))
    PROVE  Coherent(t)
<1> DEFINE u == Append(t, m)
           n == Len(t)
<1>1. /\ u \in Seq(AnyMessage) /\ Len(u) = n + 1 /\ n \in Nat
      /\ DOMAIN t = 1..n /\ u[n + 1] = m /\ n + 1 \notin DOMAIN t
      /\ \A i \in DOMAIN t : u[i] = t[i] /\ i <= n
      /\ Callers(u) = Callers(t) \cup (IF Counts(m) THEN {n + 1} ELSE {})
      /\ Results(u) = Results(t) \cup (IF m.role = "toolResult" THEN {n + 1} ELSE {})
      /\ \A i, r \in 1..(n + 1) : SameSpan(u, i, r) <=> SameSpan(t, i, r)
  BY OneMore
<1>2. Callers(t) \subseteq DOMAIN t /\ Results(t) \subseteq DOMAIN t
  BY DEF Callers, Results
<1>3. Coherent(u)
  OBVIOUS
<1> HIDE DEF u, n
<1>4. DistinctCalls(t)
  BY <1>1, <1>2, <1>3 DEF Coherent, DistinctCalls
<1>5. DistinctResults(t)
  BY <1>1, <1>2, <1>3 DEF Coherent, DistinctResults
<1>6. ASSUME NEW r \in Results(t)
      PROVE  t[r].id # Blank /\ \E i \in Callers(t) : Answers(t, r, i)
  <2>1. PICK i \in Callers(u) : Answers(u, r, i)
    BY <1>1, <1>3 DEF Coherent, ResultsAnswer
  <2>2. r \in DOMAIN t /\ u[r] = t[r]
    BY <1>1, <1>2
  <2>3. i # n + 1
    BY <1>1, <2>1, <2>2 DEF Answers, SameSpan
  <2>4. i \in Callers(t) /\ u[i] = t[i] /\ i \in 1..(n + 1) /\ r \in 1..(n + 1)
    BY <1>1, <1>2, <2>1, <2>2, <2>3
  <2>5. Answers(t, r, i)
    BY <1>1, <2>1, <2>2, <2>4 DEF Answers
  <2> QED
    BY <1>1, <1>3, <2>2, <2>4, <2>5 DEF Coherent, ResultsAnswer
<1> QED
  BY <1>4, <1>5, <1>6 DEF Coherent, ResultsAnswer

\* The scan reads one more message.
LEMMA OneMoreIsScanned ==
    ASSUME NEW t \in Seq(AnyMessage), NEW m \in AnyMessage, NEW s, Scanned(t, s)
    PROVE  Scanned(Append(t, m), SpanMessage(s, m))
<1> DEFINE u == Append(t, m)
           n == Len(t)
           z == SpanMessage(s, m)
<1>1. /\ u \in Seq(AnyMessage) /\ Len(u) = n + 1 /\ n \in Nat
      /\ DOMAIN t = 1..n /\ u[n + 1] = m /\ n + 1 \notin DOMAIN t
      /\ \A i \in DOMAIN t : u[i] = t[i] /\ i <= n
      /\ Callers(u) = Callers(t) \cup (IF Counts(m) THEN {n + 1} ELSE {})
      /\ Results(u) = Results(t) \cup (IF m.role = "toolResult" THEN {n + 1} ELSE {})
      /\ \A i, r \in 1..(n + 1) : SameSpan(u, i, r) <=> SameSpan(t, i, r)
      /\ SameSpan(u, n + 1, n + 2)
      /\ \A i \in DOMAIN t : SameSpan(u, i, n + 2) <=>
            SameSpan(t, i, n + 1) /\ ~Counts(m) /\ m.role # "user"
  BY OneMore
<1>2. /\ Called(u) = Called(t) \cup (IF Counts(m) THEN Ids(m.calls) ELSE {})
      /\ Answered(u) = Answered(t) \cup (IF m.role = "toolResult" THEN {m.id} ELSE {})
      /\ Called(t) \subseteq Nat /\ Ids(m.calls) \subseteq Nat
  BY OneMoreIds
<1>3. Callers(t) \subseteq DOMAIN t /\ Results(t) \subseteq DOMAIN t /\ m.id \in Nat
  BY DEF Callers, Results, AnyMessage
<1>4. z \in Spans
  BY <1>2, <1>3 DEF Scanned, Spans, SpanMessage
<1>s. s = [pending |-> s.pending, missing |-> s.missing, orphans |-> s.orphans]
  BY DEF Scanned, Spans
<1>5. Coherent(u) => Coherent(t)
  BY CoherentBefore
<1> HIDE DEF u, n
<1>6. ASSUME Coherent(u)
      PROVE  z.orphans = {} /\ z.pending = OpenCalls(u) /\ z.missing = Pending(u) \ OpenCalls(u)
  <2>1. s.orphans = {} /\ s.pending = OpenCalls(t) /\ s.missing = Pending(t) \ OpenCalls(t)
    BY <1>5, <1>6 DEF Scanned
  <2>2. OpenCalls(t) \subseteq Pending(t)
    BY DEF OpenCalls, Pending, Called
  <2>n. Len(u) + 1 = n + 2 /\ Len(t) + 1 = n + 1
    BY <1>1 DEF n
  <2>3. CASE Counts(m)
    <3>1. Blank \notin Ids(m.calls)
      BY <1>1, <1>6, <2>3 DEF Coherent, DistinctCalls, Ids
    <3>2. Ids(m.calls) \cap Called(t) = {}
      BY <1>1, <1>3, <1>6, <2>3 DEF Coherent, DistinctCalls, Ids, Called
    <3>3. Ids(m.calls) \cap Answered(t) = {}
      <4> SUFFICES ASSUME NEW r \in Results(t), t[r].id \in Ids(m.calls) PROVE FALSE
        BY DEF Answered
      <4>1. PICK i \in Callers(t) : Answers(t, r, i)
        BY <1>5, <1>6 DEF Coherent, ResultsAnswer
      <4>2. t[r].id \in Called(t)
        BY <1>2, <4>1 DEF Answers, Called
      <4> QED
        BY <3>2, <4>2
    <3>4. OpenCalls(u) = Ids(m.calls) \ Answered(u)
      <4>1. \A i \in Callers(t) : ~SameSpan(u, i, n + 2) /\ u[i] = t[i]
        BY <1>1, <1>3, <2>3
      <4> QED
        BY <1>1, <1>2, <2>n, <2>3, <4>1 DEF OpenCalls
    <3>5. m.role # "toolResult" /\ m.role = "assistant" /\ ~m.failed
      BY <2>3 DEF Counts
    <3>6. OpenCalls(u) = Ids(m.calls)
      BY <1>2, <3>3, <3>4, <3>5
    <3>7. z = [pending |-> Ids(m.calls) \ {Blank}, missing |-> s.missing \cup s.pending, orphans |-> s.orphans]
      BY <1>s, <3>5 DEF SpanMessage
    <3>8. Pending(u) \ Ids(m.calls) = Pending(t)
      BY <1>2, <2>3, <3>2, <3>5 DEF Pending
    <3> QED
      BY <2>1, <2>2, <3>1, <3>6, <3>7, <3>8
  <2>4. CASE m.role = "toolResult"
    <3>1. ~Counts(m) /\ n + 1 \in Results(u) /\ n + 1 \in 1..(n + 1)
      BY <1>1, <2>4 DEF Counts
    <3>2. PICK i \in Callers(u) : Answers(u, n + 1, i)
      BY <1>6, <3>1 DEF Coherent, ResultsAnswer
    <3>3. i \in Callers(t) /\ u[i] = t[i] /\ m.id \in Ids(t[i].calls) /\ SameSpan(t, i, n + 1)
      BY <1>1, <1>3, <3>1, <3>2 DEF Answers
    <3>4. m.id \notin Answered(t)
      BY <1>1, <1>3, <1>6, <3>1 DEF Coherent, DistinctResults, Answered
    <3>5. m.id \in OpenCalls(t)
      BY <1>3, <2>n, <3>3, <3>4 DEF OpenCalls
    <3>6. OpenCalls(u) = OpenCalls(t) \ {m.id}
      <4>1. \A j \in Callers(t) : (SameSpan(u, j, n + 2) <=> SameSpan(t, j, n + 1)) /\ u[j] = t[j]
        BY <1>1, <1>3, <2>4, <3>1
      <4>2. Callers(u) = Callers(t) /\ Answered(u) = Answered(t) \cup {m.id}
        BY <1>1, <1>2, <2>4, <3>1
      <4> QED
        BY <2>n, <4>1, <4>2 DEF OpenCalls
    <3>7. z = [pending |-> s.pending \ {m.id}, missing |-> s.missing, orphans |-> s.orphans]
      BY <1>s, <2>1, <2>4, <3>1, <3>5 DEF SpanMessage
    <3>8. Pending(u) = Pending(t) \ {m.id}
      BY <1>2, <2>4, <3>1 DEF Pending
    <3> QED
      BY <2>1, <3>5, <3>6, <3>7, <3>8
  <2>5. CASE m.role = "user"
    <3>1. ~Counts(m) /\ m.role # "toolResult"
      BY <2>5 DEF Counts
    <3>2. OpenCalls(u) = {}
      BY <1>1, <1>3, <2>n, <2>5, <3>1 DEF OpenCalls
    <3>3. z = [pending |-> {}, missing |-> s.missing \cup s.pending, orphans |-> s.orphans]
      BY <1>s, <2>5 DEF SpanMessage
    <3>4. Pending(u) = Pending(t)
      BY <1>2, <3>1 DEF Pending
    <3> QED
      BY <2>1, <2>2, <3>2, <3>3, <3>4
  <2>6. CASE ~Counts(m) /\ m.role \notin {"toolResult", "user"}
    <3>1. OpenCalls(u) = OpenCalls(t)
      <4>1. \A j \in Callers(t) : (SameSpan(u, j, n + 2) <=> SameSpan(t, j, n + 1)) /\ u[j] = t[j]
        BY <1>1, <1>3, <2>6
      <4>2. Callers(u) = Callers(t) /\ Answered(u) = Answered(t)
        BY <1>1, <1>2, <2>6
      <4> QED
        BY <2>n, <4>1, <4>2 DEF OpenCalls
    <3>2. z = s
      BY <2>6 DEF SpanMessage, Counts
    <3>3. Pending(u) = Pending(t)
      BY <1>2, <2>6 DEF Pending
    <3> QED
      BY <2>1, <3>1, <3>2, <3>3
  <2> QED
    BY <2>3, <2>4, <2>5, <2>6
<1> QED
  BY <1>4, <1>6 DEF Scanned, u

\* Before the first message.
LEMMA NothingScanned == Scanned(<<>>, SpanStart)
<1>1. Callers(<<>>) = {} /\ Results(<<>>) = {}
  BY DEF Callers, Results
<1>2. OpenCalls(<<>>) = {} /\ Pending(<<>>) = {}
  BY <1>1 DEF OpenCalls, Pending, Called
<1> QED
  BY <1>2 DEF Scanned, Spans, SpanStart

\* A message leaves the loop with sets of ids and positions.
LEMMA SpansStay ==
    ASSUME NEW s \in Spans, NEW m \in AnyMessage PROVE SpanMessage(s, m) \in Spans
<1>1. m.id \in Nat /\ Ids(m.calls) \subseteq Nat
  BY DEF AnyMessage, Ids
<1> QED
  BY <1>1 DEF Spans, SpanMessage

\* Read to the end, the loop knows the calls without a result.
LEMMA ScanReadsAll ==
    ASSUME NEW t \in Seq(AnyMessage)
    PROVE  Scanned(t, FoldLeft(SpanMessage, SpanStart, t))
<1> DEFINE n == Len(t)
           step == [p \in Spans \X AnyMessage |-> SpanMessage(p[1], p[2])]
           Equation(fold) ==
             fold = [s \in SUBSET DOMAIN t |->
                       IF s = {} THEN SpanStart ELSE SpanMessage(fold[s \ {Max(s)}], t[Max(s)])]
           fold == CHOOSE fold : Equation(fold)
<1>1. FoldLeft(SpanMessage, SpanStart, t) = fold[DOMAIN t]
  BY DEF FoldLeft, MapThenFoldSet
<1>2. \E g : Equation(g)
  <2>1. n \in Nat /\ DOMAIN t = 1..n
    BY FirstMessages DEF n
  <2>2. step \in [Spans \X AnyMessage -> Spans]
    BY SpansStay
  <2>3. SpanStart \in Spans
    BY NothingScanned DEF Scanned
  <2>4. PICK g \in [SUBSET (1..n) -> Spans] : Folds(g, n, SpanStart, step, t)
    <3> HIDE DEF step
    <3> QED
      BY <2>2, <2>3, FoldsExist DEF n
  <2>5. ASSUME NEW s \in SUBSET (1..n)
        PROVE  g[s] = IF s = {} THEN SpanStart ELSE SpanMessage(g[s \ {Max(s)}], t[Max(s)])
    <3>1. CASE s # {}
      <4>1. Max(s) \in s
        BY <2>1, <3>1, MaxOfPositions
      <4>2. t[Max(s)] \in AnyMessage /\ s \ {Max(s)} \in SUBSET (1..n)
        <5>1. Max(s) \in 1..n /\ \A k \in 1..n : t[k] \in AnyMessage
          BY <2>1, <4>1, FirstMessages DEF n
        <5> QED
          BY <5>1
      <4>3. g[s \ {Max(s)}] \in Spans
        BY <4>2
      <4>4. g[s] = step[g[s \ {Max(s)}], t[Max(s)]]
        BY <2>4, <3>1 DEF Folds
      <4> QED
        BY <3>1, <4>2, <4>3, <4>4
    <3>2. CASE s = {}
      BY <2>4, <3>2 DEF Folds
    <3> QED
      BY <3>1, <3>2
  <2>6. Equation(g)
    BY <2>1, <2>5
  <2> QED
    BY <2>6
<1>3. Equation(fold)
  <2> HIDE DEF Equation
  <2> QED
    BY <1>2
<1>4. n \in Nat /\ DOMAIN t = 1..n /\ SubSeq(t, 1, 0) = <<>> /\ SubSeq(t, 1, n) = t
      /\ \A k \in 1..n : /\ SubSeq(t, 1, k - 1) \in Seq(AnyMessage) /\ t[k] \in AnyMessage
                         /\ SubSeq(t, 1, k) = Append(SubSeq(t, 1, k - 1), t[k])
  BY FirstMessages
<1> HIDE DEF fold, n
<1> DEFINE P == {k \in Nat : k <= n => Scanned(SubSeq(t, 1, k), fold[1..k])}
<1>5. 0 \in P
  <2>1. 1..0 = {} /\ 1..0 \in SUBSET (1..n)
    OBVIOUS
  <2>2. fold[1..0] = SpanStart
    BY <1>3, <1>4, <2>1
  <2> QED
    BY <1>4, <2>2, NothingScanned
<1>6. ASSUME NEW k \in P PROVE k + 1 \in P
  <2>1. CASE k + 1 <= n
    <3>1. k + 1 \in 1..n /\ k + 1 - 1 = k /\ k \in Nat /\ k + 1 \in Nat
      BY <1>4, <2>1
    <3>2. Scanned(SubSeq(t, 1, k), fold[1..k])
      BY <1>4, <2>1, <3>1
    <3>3. /\ Max(1..(k + 1)) = k + 1 /\ (1..(k + 1)) \ {Max(1..(k + 1))} = 1..k
          /\ 1..(k + 1) \in SUBSET (1..n) /\ 1..(k + 1) # {}
      <4> DEFINE j == k + 1
      <4>1. n \in Nat /\ j \in 1..n /\ j - 1 = k
        BY <1>4, <3>1
      <4> HIDE DEF j, P
      <4>2. /\ Max(1..j) = j /\ (1..j) \ {Max(1..j)} = 1..(j - 1) /\ 1..j \in SUBSET (1..n) /\ 1..j # {}
        BY <4>1, FoldsInOrder
      <4> QED
        BY <4>1, <4>2 DEF j
    <3>4. fold[1..(k + 1)] = SpanMessage(fold[1..k], t[k + 1])
      BY <1>3, <1>4, <3>3
    <3>5. /\ SubSeq(t, 1, k) \in Seq(AnyMessage) /\ t[k + 1] \in AnyMessage
          /\ SubSeq(t, 1, k + 1) = Append(SubSeq(t, 1, k), t[k + 1])
      BY <1>4, <3>1
    <3>6. Scanned(SubSeq(t, 1, k + 1), fold[1..(k + 1)])
      BY <3>2, <3>4, <3>5, OneMoreIsScanned
    <3> QED
      BY <3>1, <3>6
  <2>2. CASE ~(k + 1 <= n)
    BY <2>2
  <2> QED
    BY <2>1, <2>2
<1>7. P = Nat
  <2>1. P \in SUBSET Nat
    OBVIOUS
  <2> HIDE DEF P
  <2> QED
    BY <1>5, <1>6, <2>1, Induction
<1>8. Scanned(SubSeq(t, 1, n), fold[1..n])
  BY <1>4, <1>7
<1> QED
  BY <1>1, <1>4, <1>8

\* validateToolSpanIntegrity finds the calls without a result, and calls no result an orphan.
LEMMA SpanCheckFinds ==
    ASSUME NEW t \in Seq(AnyMessage), Coherent(t)
    PROVE  SpanCheck(t).missing = Pending(t) /\ SpanCheck(t).orphans = {}
<1> DEFINE s == FoldLeft(SpanMessage, SpanStart, t)
<1>1. Scanned(t, s)
  BY ScanReadsAll
<1>2. SpanCheck(t) = [missing |-> s.missing \cup s.pending, orphans |-> s.orphans]
  BY DEF SpanCheck, SpanEnd
<1>3. OpenCalls(t) \subseteq Pending(t)
  BY DEF OpenCalls, Pending, Called
<1> HIDE DEF s
<1> QED
  BY <1>1, <1>2, <1>3 DEF Scanned

-----------------------------------------------------------------------------
(* What the trim removes                                                   *)

\* What a session file holds: as many turns as were begun, the last call of any of them
\* perhaps unanswered.
Said(t) ==
    /\ t \in Seq(AnyMessage) /\ Coherent(t)
    /\ \A i \in DOMAIN t : t[i].role \in {"user", "assistant", "toolResult"}
    /\ \A i \in DOMAIN t : t[i].calls # <<>> => Counts(t[i])
    /\ \A r \in Results(t) : t[r] = ToolResult(t[r].id)

\* Assistants some of whose calls have no result.
Stranded(t) == {i \in Callers(t) : \E id \in Ids(t[i].calls) : id \notin Answered(t)}

\* The transcript without the message at a position.
Without(t, p) == [k \in 1..(Len(t) - 1) |-> IF k < p THEN t[k] ELSE t[k + 1]]

\* The first n messages without the one at position p.
FirstWithout(t, p, n) == IF n < p THEN [k \in 1..n |-> t[k]] ELSE [k \in 1..(n - 1) |-> IF k < p THEN t[k] ELSE t[k + 1]]

\* The kept messages, one further.
LEMMA FirstWithoutNext ==
    ASSUME NEW t \in Seq(AnyMessage), NEW p \in 1..Len(t), NEW n \in 1..Len(t)
    PROVE  /\ FirstWithout(t, p, 0) = <<>>
           /\ FirstWithout(t, p, n) =
                IF n = p THEN FirstWithout(t, p, n - 1) ELSE Append(FirstWithout(t, p, n - 1), t[n])
<1>t. Len(t) \in Nat /\ \A k \in 1..Len(t) : t[k] \in AnyMessage
  OBVIOUS
<1>1. FirstWithout(t, p, 0) = <<>>
  <2>1. 0 < p
    OBVIOUS
  <2>2. FirstWithout(t, p, 0) = [k \in 1..0 |-> t[k]]
    BY <2>1 DEF FirstWithout
  <2> QED
    BY <2>2
<1>2. CASE n = p
  BY <1>1, <1>2 DEF FirstWithout
<1>3. CASE n < p
  <2>1. /\ FirstWithout(t, p, n) = [k \in 1..n |-> t[k]]
        /\ FirstWithout(t, p, n - 1) = [k \in 1..(n - 1) |-> t[k]]
    BY <1>3 DEF FirstWithout
  <2>2. [k \in 1..(n - 1) |-> t[k]] \in Seq(AnyMessage) /\ Len([k \in 1..(n - 1) |-> t[k]]) = n - 1
    BY <1>t
  <2>3. Append([k \in 1..(n - 1) |-> t[k]], t[n]) = [k \in 1..n |-> t[k]]
    BY <1>t, <2>2
  <2>4. FirstWithout(t, p, n) = Append(FirstWithout(t, p, n - 1), t[n])
    BY <2>1, <2>3, Zenon
  <2>5. n # p
    BY <1>t, <1>3
  <2> QED
    BY <1>1, <2>4, <2>5
<1>4. CASE n > p
  <2> DEFINE e(k) == IF k < p THEN t[k] ELSE t[k + 1]
             f == [k \in 1..(n - 2) |-> e(k)]
  <2>1. /\ FirstWithout(t, p, n) = [k \in 1..(n - 1) |-> e(k)]
        /\ FirstWithout(t, p, n - 1) = f
    BY <1>4 DEF FirstWithout
  <2>2. e(n - 1) = t[n] /\ n - 1 \in 1..Len(t) /\ \A k \in 1..(n - 1) : e(k) \in AnyMessage
    BY <1>t, <1>4
  <2>3. n - 2 \in Nat /\ f \in Seq(AnyMessage) /\ Len(f) = n - 2 /\ DOMAIN f = 1..(n - 2)
    <3> HIDE DEF e
    <3> QED
      BY <1>4, <2>2
  <2>4. \A k \in 1..(n - 2) : f[k] = e(k)
    OBVIOUS
  <2> HIDE DEF e, f
  <2>5. Append(f, t[n]) = [k \in 1..(n - 1) |-> e(k)]
    <3>1. Append(f, t[n]) \in Seq(AnyMessage) /\ Len(Append(f, t[n])) = n - 1
      BY <1>t, <2>3
    <3>2. DOMAIN Append(f, t[n]) = 1..(n - 1)
      BY <3>1
    <3>3. \A k \in 1..(n - 1) : Append(f, t[n])[k] = e(k)
      BY <2>2, <2>3, <2>4
    <3>4. Append(f, t[n]) = [k \in 1..(n - 1) |-> Append(f, t[n])[k]]
      BY <3>1, <3>2
    <3> QED
      BY <3>3, <3>4
  <2>6. FirstWithout(t, p, n) = Append(FirstWithout(t, p, n - 1), t[n])
    BY <2>1, <2>5, Zenon
  <2>7. n # p
    BY <1>t, <1>4
  <2> QED
    BY <1>1, <2>6, <2>7
<1> QED
  BY <1>1, <1>2, <1>3, <1>4

\* A session without unanswered calls is left alone; otherwise the last assistant with one
\* goes, and nothing else.
LEMMA TrimsStranded ==
    ASSUME NEW t, Said(t)
    PROVE  \/ Stranded(t) = {} /\ TrimUnresolved(t) = t
           \/ \E p \in Stranded(t) : TrimUnresolved(t) = Without(t, p)
<1> DEFINE n == Len(t)
           check == SpanCheck(t)
           bad == {i \in DOMAIN t : t[i].role = "assistant" /\ Ids(t[i].calls) \cap check.missing # {}}
           last == LastBadAssistant(t, check)
           removed == {last} \cup {i \in DOMAIN t : /\ i > last
                                                    /\ t[i].role = "toolResult"
                                                    /\ t[i].id \in check.orphans}
           Equation(kept) == kept = [k \in 0..n |->
                               IF k = 0 THEN <<>>
                               ELSE IF k \in removed THEN kept[k - 1] ELSE Append(kept[k - 1], t[k])]
           kept == CHOOSE kept : Equation(kept)
<1>1. t \in Seq(AnyMessage) /\ n \in Nat /\ DOMAIN t = 1..n /\ \A i \in DOMAIN t : t[i] \in AnyMessage
  BY DEF Said
<1>2. check.missing = Pending(t) /\ check.orphans = {}
  BY SpanCheckFinds DEF Said
<1>3. TrimUnresolved(t) = IF check.missing = {} \/ last = 0 THEN t ELSE kept[n]
  BY DEF TrimUnresolved
<1>4. bad = Stranded(t)
  <2>1. ASSUME NEW i \in bad PROVE i \in Stranded(t)
    <3>1. PICK id \in Ids(t[i].calls) : id \in Pending(t)
      BY <1>2
    <3>2. t[i].calls # <<>>
      BY <3>1 DEF Ids
    <3> QED
      BY <3>1, <3>2 DEF Said, Stranded, Callers, Pending
  <2>2. ASSUME NEW i \in Stranded(t) PROVE i \in bad
    <3>1. PICK id \in Ids(t[i].calls) : id \notin Answered(t)
      BY DEF Stranded
    <3>2. i \in DOMAIN t /\ i \in Callers(t) /\ Counts(t[i]) /\ t[i] \in AnyMessage
      BY <1>1 DEF Stranded, Callers
    <3>3. id \in Nat
      BY <3>1, <3>2 DEF Ids, AnyMessage
    <3> QED
      BY <1>2, <3>1, <3>2, <3>3 DEF Pending, Called, Counts
  <2> HIDE DEF bad
  <2> QED
    BY <2>1, <2>2
<1>5. CASE Stranded(t) = {}
  <2>1. Pending(t) = {}
    <3> SUFFICES ASSUME NEW id \in Pending(t) PROVE FALSE
      OBVIOUS
    <3>1. PICK i \in Callers(t) : id \in Ids(t[i].calls)
      BY DEF Pending, Called
    <3> QED
      BY <1>5, <3>1 DEF Stranded, Pending
  <2> HIDE DEF last, kept, check
  <2> QED
    BY <1>2, <1>3, <1>5, <2>1
<1>6. CASE Stranded(t) # {}
  <2>1. bad \in SUBSET (1..n) /\ bad # {}
    BY <1>1, <1>4, <1>6
  <2>2. last = CHOOSE i \in bad : \A j \in bad : j <= i
    BY <2>1 DEF LastBadAssistant
  <2>3. last \in bad
    <3> HIDE DEF bad, last
    <3>1. \E i \in bad : \A j \in bad : j <= i
      BY <1>1, <2>1, MaxOfPositions
    <3> QED
      BY <2>2, <3>1
  <2>4. last \in 1..n /\ last \in Stranded(t) /\ last # 0
    <3> HIDE DEF bad, last
    <3> QED
      BY <1>4, <2>1, <2>3
  <2>5. removed = {last}
    BY <1>2
  <2>6. Pending(t) # {}
    <3> HIDE DEF last
    <3>1. PICK id \in Ids(t[last].calls) : id \in check.missing
      BY <2>3
    <3> QED
      BY <1>2, <3>1
  <2> HIDE DEF last, removed, check, bad
  <2> DEFINE g == [k \in 0..n |-> FirstWithout(t, last, k)]
  <2>7. Equation(g)
    <3>1. ASSUME NEW k \in 0..n
          PROVE  g[k] = IF k = 0 THEN <<>>
                        ELSE IF k \in removed THEN g[k - 1] ELSE Append(g[k - 1], t[k])
      <4>1. CASE k = 0
        <5>1. FirstWithout(t, last, 0) = <<>>
          BY <1>1, <2>4, FirstWithoutNext
        <5> QED
          BY <4>1, <5>1
      <4>2. CASE k # 0
        <5>1. k \in 1..n /\ k - 1 \in 0..n
          BY <1>1, <4>2
        <5>2. FirstWithout(t, last, k) =
                IF k = last THEN FirstWithout(t, last, k - 1) ELSE Append(FirstWithout(t, last, k - 1), t[k])
          BY <1>1, <2>4, <5>1, FirstWithoutNext
        <5> QED
          BY <2>5, <4>2, <5>1, <5>2
      <4> QED
        BY <4>1, <4>2
    <3> HIDE DEF g
    <3>2. g = [k \in 0..n |-> g[k]]
      BY DEF g
    <3> QED
      BY <3>1, <3>2
  <2>8. Equation(kept)
    <3> HIDE DEF Equation, g
    <3> QED
      BY <2>7
  <2> HIDE DEF kept
  <2> DEFINE P == {k \in Nat : k <= n => kept[k] = FirstWithout(t, last, k)}
  <2>9. 0 \in P
    <3>1. FirstWithout(t, last, 0) = <<>> /\ 0 \in 0..n
      BY <1>1, <2>4, FirstWithoutNext
    <3> QED
      BY <2>8, <3>1
  <2>10. ASSUME NEW k \in P PROVE k + 1 \in P
    <3>1. k \in Nat /\ k + 1 \in Nat /\ (k + 1 <= n => kept[k] = FirstWithout(t, last, k))
      BY <1>1
    <3> SUFFICES ASSUME k + 1 <= n PROVE kept[k + 1] = FirstWithout(t, last, k + 1)
      BY <3>1
    <3> DEFINE j == k + 1
    <3>2. j \in 1..n /\ j \in 0..n /\ j # 0 /\ j - 1 = k
      BY <1>1, <3>1
    <3> HIDE DEF j
    <3>3. kept[j] = IF j \in removed THEN kept[j - 1] ELSE Append(kept[j - 1], t[j])
      BY <2>8, <3>2
    <3>4. FirstWithout(t, last, j) =
            IF j = last THEN FirstWithout(t, last, j - 1) ELSE Append(FirstWithout(t, last, j - 1), t[j])
      BY <1>1, <2>4, <3>2, FirstWithoutNext
    <3>5. kept[j] = FirstWithout(t, last, j)
      BY <2>5, <3>1, <3>2, <3>3, <3>4
    <3> QED
      BY <3>5 DEF j
  <2>11. P = Nat
    <3>1. P \in SUBSET Nat
      OBVIOUS
    <3> HIDE DEF P
    <3> QED
      BY <2>9, <2>10, <3>1, Induction
  <2>12. kept[n] = FirstWithout(t, last, n)
    BY <1>1, <2>11
  <2>13. FirstWithout(t, last, n) = Without(t, last)
    <3>1. ~(n < last)
      BY <1>1, <2>4
    <3> QED
      BY <3>1 DEF FirstWithout, Without, n
  <2> QED
    BY <1>2, <1>3, <2>4, <2>6, <2>12, <2>13
<1> QED
  BY <1>5, <1>6

\* A transcript in which every call has its result can be sent.
LEMMA SaidIsWellFormed ==
    ASSUME NEW t \in Seq(AnyMessage), Coherent(t), Stranded(t) = {}
    PROVE  WellFormed(t)
<1>1. Pending(t) = {}
  BY DEF Stranded, Pending, Called
<1>2. OpenOrAnswered(t)
  BY DEF OpenOrAnswered, Stranded
<1> QED
  BY <1>1, <1>2, WellFormedMeans DEF Ok, Coherent

\* The positions of the messages that are left, and what is there.
Was(p, k) == IF k < p THEN k ELSE k + 1

\* The message at k was at Was(p, k).
LEMMA WithoutOne ==
    ASSUME NEW t \in Seq(AnyMessage), NEW p \in DOMAIN t
    PROVE  LET u == Without(t, p)
           IN  /\ u \in Seq(AnyMessage) /\ DOMAIN u = 1..(Len(t) - 1)
               /\ \A k \in DOMAIN u : Was(p, k) \in DOMAIN t \ {p} /\ u[k] = t[Was(p, k)]
               /\ \A i \in DOMAIN t \ {p} : \E k \in DOMAIN u : Was(p, k) = i
               /\ \A j, k \in DOMAIN u : (j < k <=> Was(p, j) < Was(p, k)) /\ (Was(p, j) = Was(p, k) => j = k)
<1> DEFINE u == Without(t, p)
           n == Len(t)
<1>1. n \in Nat /\ DOMAIN t = 1..n /\ p \in 1..n /\ \A k \in 1..n : t[k] \in AnyMessage
  OBVIOUS
<1>2. \A k \in 1..(n - 1) : Was(p, k) \in DOMAIN t \ {p}
  BY <1>1 DEF Was
<1>3. DOMAIN u = 1..(n - 1) /\ \A k \in DOMAIN u : u[k] = t[Was(p, k)]
  BY DEF Without, Was
<1>4. u \in Seq(AnyMessage)
  <2>1. u = [k \in 1..(n - 1) |-> u[k]] /\ n - 1 \in Nat
    BY <1>1 DEF Without
  <2>2. \A k \in 1..(n - 1) : u[k] \in AnyMessage
    BY <1>1, <1>2, <1>3
  <2> HIDE DEF u
  <2> QED
    BY <2>1, <2>2
<1>5. ASSUME NEW i \in DOMAIN t \ {p} PROVE \E k \in DOMAIN u : Was(p, k) = i
  <2>1. CASE i < p
    <3>1. i \in 1..(n - 1) /\ Was(p, i) = i
      BY <1>1, <2>1 DEF Was
    <3> QED
      BY <1>3, <3>1
  <2>2. CASE i > p
    <3>1. i - 1 \in 1..(n - 1) /\ Was(p, i - 1) = i
      BY <1>1, <2>2 DEF Was
    <3> QED
      BY <1>3, <3>1
  <2> QED
    BY <1>1, <2>1, <2>2
<1>6. \A j, k \in 1..(n - 1) : (j < k <=> Was(p, j) < Was(p, k)) /\ (Was(p, j) = Was(p, k) => j = k)
  BY <1>1 DEF Was
<1> HIDE DEF u
<1> QED
  BY <1>2, <1>3, <1>4, <1>5, <1>6 DEF u

\* Without an assistant none of whose calls was answered a transcript is as sound as with it,
\* and no other assistant loses an answer.
LEMMA WithoutIsCoherent ==
    ASSUME NEW t \in Seq(AnyMessage), Coherent(t), NEW p \in Callers(t),
           \A id \in Ids(t[p].calls) : id \notin Answered(t)
    PROVE  /\ Coherent(Without(t, p))
           /\ \A k \in Stranded(Without(t, p)) : Was(p, k) \in Stranded(t) \ {p}
<1> DEFINE u == Without(t, p)
<1>0. p \in DOMAIN t /\ Counts(t[p])
  BY DEF Callers
<1>1. /\ u \in Seq(AnyMessage)
      /\ \A k \in DOMAIN u : Was(p, k) \in DOMAIN t \ {p} /\ u[k] = t[Was(p, k)]
      /\ \A i \in DOMAIN t \ {p} : \E k \in DOMAIN u : Was(p, k) = i
      /\ \A j, k \in DOMAIN u : (j < k <=> Was(p, j) < Was(p, k)) /\ (Was(p, j) = Was(p, k) => j = k)
  BY <1>0, WithoutOne
<1>n. DOMAIN u \subseteq Nat
  BY <1>1
<1> HIDE DEF u
<1>2. \A k \in Callers(u) : k \in DOMAIN u /\ Was(p, k) \in Callers(t) \ {p} /\ u[k] = t[Was(p, k)]
  BY <1>1 DEF Callers
<1>3. \A k \in Results(u) : k \in DOMAIN u /\ Was(p, k) \in Results(t) /\ u[k] = t[Was(p, k)]
  BY <1>1 DEF Results
<1>4. \A r \in Results(t) : \E k \in Results(u) : Was(p, k) = r
  <2> SUFFICES ASSUME NEW r \in Results(t) PROVE \E k \in Results(u) : Was(p, k) = r
    OBVIOUS
  <2>1. r \in DOMAIN t \ {p} /\ t[r].role = "toolResult"
    BY <1>0 DEF Results, Counts
  <2>2. PICK k \in DOMAIN u : Was(p, k) = r
    BY <1>1, <2>1
  <2> QED
    BY <1>1, <2>1, <2>2 DEF Results
<1>5. DistinctCalls(u)
  <2> SUFFICES ASSUME NEW i \in Callers(u), NEW k \in DOMAIN u[i].calls
               PROVE  /\ u[i].calls[k] # Blank
                      /\ \A j \in Callers(u) : \A l \in DOMAIN u[j].calls :
                           u[i].calls[k] = u[j].calls[l] => i = j /\ k = l
    BY DEF DistinctCalls
  <2> QED
    BY <1>1, <1>2 DEF Coherent, DistinctCalls
<1>6. DistinctResults(u)
  BY <1>1, <1>3 DEF Coherent, DistinctResults
<1>7. ResultsAnswer(u)
  <2> SUFFICES ASSUME NEW r \in Results(u)
               PROVE  u[r].id # Blank /\ \E i \in Callers(u) : Answers(u, r, i)
    BY DEF ResultsAnswer
  <2>1. Was(p, r) \in Results(t) /\ u[r] = t[Was(p, r)] /\ r \in DOMAIN u
    BY <1>3
  <2>2. PICK j \in Callers(t) : Answers(t, Was(p, r), j)
    BY <2>1 DEF Coherent, ResultsAnswer
  <2>3. j # p
    BY <2>1, <2>2 DEF Answers, Answered
  <2>4. j \in DOMAIN t \ {p}
    BY <2>3 DEF Callers
  <2>5. PICK i \in DOMAIN u : Was(p, i) = j
    BY <1>1, <2>4
  <2>6. u[i] = t[j] /\ i \in Callers(u)
    BY <1>1, <2>2, <2>5 DEF Callers
  <2>7. SameSpan(u, i, r)
    <3>1. i < r
      BY <1>1, <2>1, <2>2, <2>5 DEF Answers, SameSpan
    <3>2. ASSUME NEW k \in (i + 1)..(r - 1) PROVE ~Counts(u[k]) /\ u[k].role # "user"
      <4>1. k \in DOMAIN u /\ i < k /\ k < r
        BY <1>1, <1>n, <2>1
      <4>2. Was(p, i) < Was(p, k) /\ Was(p, k) < Was(p, r) /\ u[k] = t[Was(p, k)]
        BY <1>1, <2>1, <4>1
      <4>3. Was(p, i) \in Int /\ Was(p, k) \in Int /\ Was(p, r) \in Int
        BY <1>1, <2>1, <4>1
      <4>4. Was(p, k) \in (j + 1)..(Was(p, r) - 1)
        BY <2>5, <4>2, <4>3
      <4> QED
        BY <2>2, <4>2, <4>4 DEF Answers, SameSpan
    <3> QED
      BY <3>1, <3>2 DEF SameSpan
  <2>8. Answers(u, r, i)
    BY <2>1, <2>2, <2>6, <2>7 DEF Answers
  <2> QED
    BY <2>1, <2>6, <2>8 DEF Coherent, ResultsAnswer
<1>8. ASSUME NEW k \in Stranded(u) PROVE Was(p, k) \in Stranded(t) \ {p}
  <2>1. PICK id \in Ids(u[k].calls) : id \notin Answered(u)
    BY DEF Stranded
  <2>2. id \notin Answered(t)
    BY <1>3, <1>4, <2>1 DEF Answered
  <2> QED
    BY <1>2, <2>1, <2>2 DEF Stranded
<1> QED
  BY <1>5, <1>6, <1>7, <1>8 DEF Coherent, u


-----------------------------------------------------------------------------
(* The session file                                                        *)

\* While tools run, the calls that are open are those of the open span, each once, and
\* none has a result.
Asking ==
    /\ open \in Seq(Nat) /\ open # <<>>
    /\ \A j, k \in DOMAIN open : open[j] = open[k] => j = k
    /\ \E i \in Callers(file) :
         /\ SameSpan(file, i, Len(file) + 1)
         /\ \A k \in DOMAIN open : open[k] \in Ids(file[i].calls) \ Answered(file)

\* What makes RestoreTrimsExactly inductive: a session file never holds a result without
\* its call, calls are numbered, and the loop answers what was called.
RestoreInv ==
    /\ Said(file)
    /\ \E n \in Nat : UsedCalls = 1..n
    /\ turn = "tools" => Asking

\* A message that is no assistant with calls, and no result.
LEMMA PlainCoherent ==
    ASSUME NEW t \in Seq(AnyMessage), Coherent(t), NEW m \in AnyMessage,
           m.role # "toolResult", Counts(m) => m.calls = <<>>
    PROVE  /\ Coherent(Append(t, m))
           /\ Called(Append(t, m)) = Called(t) /\ Answered(Append(t, m)) = Answered(t)
<1> DEFINE u == Append(t, m)
           n == Len(t)
<1>1. /\ u \in Seq(AnyMessage) /\ Len(u) = n + 1 /\ n \in Nat
      /\ DOMAIN t = 1..n /\ u[n + 1] = m /\ n + 1 \notin DOMAIN t
      /\ \A i \in DOMAIN t : u[i] = t[i] /\ i <= n
      /\ Callers(u) = Callers(t) \cup (IF Counts(m) THEN {n + 1} ELSE {})
      /\ Results(u) = Results(t) \cup (IF m.role = "toolResult" THEN {n + 1} ELSE {})
      /\ \A i, r \in 1..(n + 1) : SameSpan(u, i, r) <=> SameSpan(t, i, r)
  BY OneMore
<1>2. Callers(t) \subseteq DOMAIN t /\ Results(t) \subseteq DOMAIN t
  BY DEF Callers, Results
<1>a. Called(u) = Called(t) /\ Answered(u) = Answered(t)
  <2>1. ASSUME Counts(m) PROVE Ids(m.calls) = {}
    <3>1. m.calls = <<>>
      BY <2>1
    <3> QED
      BY <3>1 DEF Ids
  <2>2. /\ Called(u) = Called(t) \cup (IF Counts(m) THEN Ids(m.calls) ELSE {})
        /\ Answered(u) = Answered(t) \cup (IF m.role = "toolResult" THEN {m.id} ELSE {})
    BY OneMoreIds
  <2> HIDE DEF u
  <2> QED
    BY <2>1, <2>2
<1> HIDE DEF u, n
<1>3. (Counts(m) => DOMAIN m.calls = {}) /\ Results(u) = Results(t)
  BY <1>1
<1>4. DistinctCalls(u)
  <2>1. \A i \in Callers(u) : i \in Callers(t) \/ DOMAIN u[i].calls = {}
    BY <1>1, <1>3
  <2>2. \A i \in Callers(t) : u[i] = t[i]
    BY <1>1, <1>2
  <2> QED
    BY <2>1, <2>2 DEF Coherent, DistinctCalls
<1>5. DistinctResults(u)
  BY <1>1, <1>2, <1>3 DEF Coherent, DistinctResults
<1>6. ResultsAnswer(u)
  <2> SUFFICES ASSUME NEW r \in Results(t)
               PROVE  u[r].id # Blank /\ \E i \in Callers(u) : Answers(u, r, i)
    BY <1>3 DEF ResultsAnswer
  <2>1. PICK i \in Callers(t) : Answers(t, r, i)
    BY DEF Coherent, ResultsAnswer
  <2>2. u[i] = t[i] /\ u[r] = t[r] /\ i \in Callers(u) /\ i \in 1..(n + 1) /\ r \in 1..(n + 1)
    BY <1>1, <1>2
  <2> QED
    BY <1>1, <2>1, <2>2 DEF Answers, Coherent, ResultsAnswer
<1> QED
  BY <1>4, <1>5, <1>6, <1>a DEF Coherent, u

\* An assistant whose calls have new ids.
LEMMA CallsCoherent ==
    ASSUME NEW t \in Seq(AnyMessage), Coherent(t), NEW m \in AnyMessage, Counts(m),
           \A k \in DOMAIN m.calls :
              /\ m.calls[k] # Blank
              /\ \A i \in Callers(t) : m.calls[k] \notin Ids(t[i].calls)
              /\ \A l \in DOMAIN m.calls : m.calls[k] = m.calls[l] => k = l
    PROVE  /\ Coherent(Append(t, m))
           /\ Len(t) + 1 \in Callers(Append(t, m)) /\ Append(t, m)[Len(t) + 1] = m
           /\ SameSpan(Append(t, m), Len(t) + 1, Len(t) + 2)
           /\ Answered(Append(t, m)) = Answered(t)
           /\ Called(Append(t, m)) = Called(t) \cup Ids(m.calls)
<1> DEFINE u == Append(t, m)
           n == Len(t)
<1>0. m.role = "assistant" /\ ~m.failed
  BY DEF Counts
<1>1. /\ u \in Seq(AnyMessage) /\ Len(u) = n + 1 /\ n \in Nat
      /\ DOMAIN t = 1..n /\ u[n + 1] = m /\ n + 1 \notin DOMAIN t
      /\ \A i \in DOMAIN t : u[i] = t[i] /\ i <= n
      /\ Callers(u) = Callers(t) \cup (IF Counts(m) THEN {n + 1} ELSE {})
      /\ Results(u) = Results(t) \cup (IF m.role = "toolResult" THEN {n + 1} ELSE {})
      /\ \A i, r \in 1..(n + 1) : SameSpan(u, i, r) <=> SameSpan(t, i, r)
      /\ SameSpan(u, n + 1, n + 2)
  BY <1>0, OneMore
<1>2. Callers(t) \subseteq DOMAIN t /\ Results(t) \subseteq DOMAIN t
  BY DEF Callers, Results
<1>a. Answered(u) = Answered(t) /\ Called(u) = Called(t) \cup Ids(m.calls)
  BY <1>0, OneMoreIds
<1> HIDE DEF u, n
<1>3. Callers(u) = Callers(t) \cup {n + 1} /\ Results(u) = Results(t) /\ Answered(u) = Answered(t)
  BY <1>0, <1>1, <1>a
<1>4. DistinctCalls(u)
  <2>1. \A i \in Callers(t) : u[i] = t[i] /\ i # n + 1
    BY <1>1, <1>2
  <2> SUFFICES ASSUME NEW i \in Callers(u), NEW k \in DOMAIN u[i].calls
               PROVE  /\ u[i].calls[k] # Blank
                      /\ \A j \in Callers(u) : \A l \in DOMAIN u[j].calls :
                           u[i].calls[k] = u[j].calls[l] => i = j /\ k = l
    BY DEF DistinctCalls
  <2>2. CASE i = n + 1
    BY <1>1, <1>3, <2>1, <2>2 DEF Ids
  <2>3. CASE i \in Callers(t)
    BY <1>1, <1>3, <2>1, <2>3 DEF Ids, Coherent, DistinctCalls
  <2> QED
    BY <1>3, <2>2, <2>3
<1>5. DistinctResults(u)
  BY <1>1, <1>2, <1>3 DEF Coherent, DistinctResults
<1>6. ResultsAnswer(u)
  <2> SUFFICES ASSUME NEW r \in Results(t)
               PROVE  u[r].id # Blank /\ \E i \in Callers(u) : Answers(u, r, i)
    BY <1>3 DEF ResultsAnswer
  <2>1. PICK i \in Callers(t) : Answers(t, r, i)
    BY DEF Coherent, ResultsAnswer
  <2>2. u[i] = t[i] /\ u[r] = t[r] /\ i \in Callers(u) /\ i \in 1..(n + 1) /\ r \in 1..(n + 1)
    BY <1>1, <1>2
  <2> QED
    BY <1>1, <2>1, <2>2 DEF Answers, Coherent, ResultsAnswer
<1> QED
  BY <1>1, <1>3, <1>4, <1>5, <1>6, <1>a DEF Coherent, u, n

\* The result of a call that waits.
LEMMA ResultCoherent ==
    ASSUME NEW t \in Seq(AnyMessage), Coherent(t), NEW id \in Nat, NEW i \in Callers(t),
           SameSpan(t, i, Len(t) + 1), id \in Ids(t[i].calls) \ Answered(t)
    PROVE  LET u == Append(t, ToolResult(id))
           IN  /\ Coherent(u) /\ Callers(u) = Callers(t) /\ u[i] = t[i]
               /\ SameSpan(u, i, Len(t) + 2)
               /\ Called(u) = Called(t) /\ Answered(u) = Answered(t) \cup {id}
<1> DEFINE m == ToolResult(id)
           u == Append(t, m)
           n == Len(t)
<1>0. m \in AnyMessage /\ m.role = "toolResult" /\ ~Counts(m) /\ m.id = id
  BY DEF ToolResult, Message, AnyMessage, Roles, Counts
<1> HIDE DEF m
<1>1. /\ u \in Seq(AnyMessage) /\ Len(u) = n + 1 /\ n \in Nat
      /\ DOMAIN t = 1..n /\ u[n + 1] = m /\ n + 1 \notin DOMAIN t
      /\ \A j \in DOMAIN t : u[j] = t[j] /\ j <= n
      /\ Callers(u) = Callers(t) \cup (IF Counts(m) THEN {n + 1} ELSE {})
      /\ Results(u) = Results(t) \cup (IF m.role = "toolResult" THEN {n + 1} ELSE {})
      /\ \A j, r \in 1..(n + 1) : SameSpan(u, j, r) <=> SameSpan(t, j, r)
      /\ \A j \in DOMAIN t : SameSpan(u, j, n + 2) <=>
            SameSpan(t, j, n + 1) /\ ~Counts(m) /\ m.role # "user"
  BY <1>0, OneMore
<1>2. Callers(t) \subseteq DOMAIN t /\ Results(t) \subseteq DOMAIN t
  BY DEF Callers, Results
<1>a. Answered(u) = Answered(t) \cup {id} /\ Called(u) = Called(t)
  BY <1>0, OneMoreIds
<1> HIDE DEF u, n
<1>3. Callers(u) = Callers(t) /\ Results(u) = Results(t) \cup {n + 1} /\ Answered(u) = Answered(t) \cup {id}
      /\ SameSpan(u, i, n + 2) /\ u[i] = t[i]
  BY <1>0, <1>1, <1>2, <1>a DEF n
<1>4. DistinctCalls(u)
  BY <1>1, <1>2, <1>3 DEF Coherent, DistinctCalls
<1>5. DistinctResults(u)
  <2>1. \A r \in Results(t) : u[r] = t[r] /\ t[r].id # id
    BY <1>1, <1>2 DEF Answered
  <2> QED
    BY <1>0, <1>1, <1>3, <2>1 DEF Coherent, DistinctResults
<1>6. ResultsAnswer(u)
  <2> SUFFICES ASSUME NEW r \in Results(u)
               PROVE  u[r].id # Blank /\ \E j \in Callers(u) : Answers(u, r, j)
    BY DEF ResultsAnswer
  <2>1. CASE r \in Results(t)
    <3>1. PICK j \in Callers(t) : Answers(t, r, j)
      BY <2>1 DEF Coherent, ResultsAnswer
    <3>2. u[j] = t[j] /\ u[r] = t[r] /\ j \in Callers(u) /\ j \in 1..(n + 1) /\ r \in 1..(n + 1)
      BY <1>1, <1>2, <1>3, <2>1
    <3> QED
      BY <1>1, <2>1, <3>1, <3>2 DEF Answers, Coherent, ResultsAnswer
  <2>2. CASE r = n + 1
    <3>1. id # Blank
      BY DEF Coherent, DistinctCalls, Ids
    <3>2. i \in 1..(n + 1) /\ n + 1 \in 1..(n + 1) /\ Counts(t[i])
      BY <1>1, <1>2 DEF Callers
    <3>3. Answers(u, n + 1, i)
      BY <1>0, <1>1, <1>3, <3>2 DEF Answers, n
    <3> QED
      BY <1>0, <1>1, <1>3, <2>2, <3>1, <3>3
  <2> QED
    BY <1>3, <2>1, <2>2
<1> QED
  BY <1>1, <1>3, <1>4, <1>5, <1>6, <1>a DEF Coherent, u, n, m

\* A prompt, or an assistant without calls.
LEMMA PlainSaid ==
    ASSUME NEW t, Said(t), NEW m \in AnyMessage,
           m.role \in {"user", "assistant"}, m.calls = <<>>
    PROVE  Said(Append(t, m)) /\ Len(Append(t, m)) = Len(t) + 1
<1> DEFINE u == Append(t, m)
           n == Len(t)
<1>1. t \in Seq(AnyMessage) /\ Coherent(t)
  BY DEF Said
<1>2. Coherent(u)
  BY <1>1, PlainCoherent
<1>r. /\ u \in Seq(AnyMessage) /\ Len(u) = n + 1 /\ n \in Nat
      /\ DOMAIN t = 1..n /\ DOMAIN u = 1..(n + 1) /\ u[n + 1] = m
      /\ \A i \in DOMAIN t : u[i] = t[i]
      /\ Results(u) = Results(t) \cup (IF m.role = "toolResult" THEN {n + 1} ELSE {})
  BY <1>1, OneMore
<1> HIDE DEF u, n
<1>3. /\ DOMAIN u = DOMAIN t \cup {n + 1} /\ u \in Seq(AnyMessage) /\ Len(u) = n + 1
      /\ u[n + 1] = m /\ (\A i \in DOMAIN t : u[i] = t[i]) /\ Results(u) = Results(t)
  BY <1>1, <1>r
<1>4. Results(t) \subseteq DOMAIN t
  BY DEF Results
<1>5. /\ \A i \in DOMAIN u : u[i].role \in {"user", "assistant", "toolResult"}
      /\ \A i \in DOMAIN u : u[i].calls # <<>> => Counts(u[i])
      /\ \A r \in Results(u) : u[r] = ToolResult(u[r].id)
  BY <1>3, <1>4 DEF Said
<1> QED
  BY <1>2, <1>3, <1>5 DEF Said, u, n

\* An assistant whose calls have new ids.
LEMMA AssistantSaid ==
    ASSUME NEW t, Said(t), NEW m \in AnyMessage, Counts(m),
           \A k \in DOMAIN m.calls :
              /\ m.calls[k] # Blank
              /\ \A i \in Callers(t) : m.calls[k] \notin Ids(t[i].calls)
              /\ \A l \in DOMAIN m.calls : m.calls[k] = m.calls[l] => k = l
    PROVE  /\ Said(Append(t, m)) /\ Len(Append(t, m)) = Len(t) + 1
           /\ Len(t) + 1 \in Callers(Append(t, m)) /\ Append(t, m)[Len(t) + 1] = m
           /\ SameSpan(Append(t, m), Len(t) + 1, Len(t) + 2)
           /\ Answered(Append(t, m)) = Answered(t)
<1> DEFINE u == Append(t, m)
           n == Len(t)
<1>1. t \in Seq(AnyMessage) /\ Coherent(t) /\ m.role = "assistant"
  BY DEF Said, Counts
<1>2. /\ Coherent(u) /\ n + 1 \in Callers(u)
      /\ SameSpan(u, n + 1, n + 2) /\ Answered(u) = Answered(t)
  BY <1>1, CallsCoherent
<1>r. /\ u \in Seq(AnyMessage) /\ Len(u) = n + 1 /\ n \in Nat
      /\ DOMAIN t = 1..n /\ DOMAIN u = 1..(n + 1) /\ u[n + 1] = m
      /\ \A i \in DOMAIN t : u[i] = t[i]
      /\ Results(u) = Results(t) \cup (IF m.role = "toolResult" THEN {n + 1} ELSE {})
  BY <1>1, OneMore
<1> HIDE DEF u, n
<1>3. /\ DOMAIN u = DOMAIN t \cup {n + 1} /\ u \in Seq(AnyMessage) /\ Len(u) = n + 1
      /\ u[n + 1] = m /\ (\A i \in DOMAIN t : u[i] = t[i]) /\ Results(u) = Results(t)
  BY <1>1, <1>r
<1>4. Results(t) \subseteq DOMAIN t
  BY DEF Results
<1>5. /\ \A i \in DOMAIN u : u[i].role \in {"user", "assistant", "toolResult"}
      /\ \A i \in DOMAIN u : u[i].calls # <<>> => Counts(u[i])
      /\ \A r \in Results(u) : u[r] = ToolResult(u[r].id)
  BY <1>1, <1>3, <1>4 DEF Said
<1> QED
  BY <1>2, <1>3, <1>5 DEF Said, u, n

\* The result of an open call.
LEMMA ResultSaid ==
    ASSUME NEW t, Said(t), NEW id \in Nat, NEW i \in Callers(t),
           SameSpan(t, i, Len(t) + 1), id \in Ids(t[i].calls) \ Answered(t)
    PROVE  LET u == Append(t, ToolResult(id))
           IN  /\ Said(u) /\ Len(u) = Len(t) + 1 /\ Callers(u) = Callers(t) /\ u[i] = t[i]
               /\ \A j \in DOMAIN t : u[j] = t[j]
               /\ DOMAIN u = DOMAIN t \cup {Len(t) + 1}
               /\ SameSpan(u, i, Len(t) + 2) /\ Answered(u) = Answered(t) \cup {id}
<1> DEFINE m == ToolResult(id)
           u == Append(t, m)
           n == Len(t)
<1>1. /\ t \in Seq(AnyMessage) /\ Coherent(t)
      /\ m \in AnyMessage /\ m.role = "toolResult" /\ m.calls = <<>> /\ m = ToolResult(m.id)
  BY DEF Said, ToolResult, Message, AnyMessage, Roles
<1>2. /\ Coherent(u) /\ Callers(u) = Callers(t) /\ u[i] = t[i]
      /\ SameSpan(u, i, n + 2) /\ Answered(u) = Answered(t) \cup {id}
  BY <1>1, ResultCoherent
<1> HIDE DEF m
<1>r. /\ u \in Seq(AnyMessage) /\ Len(u) = n + 1 /\ n \in Nat
      /\ DOMAIN t = 1..n /\ DOMAIN u = 1..(n + 1) /\ u[n + 1] = m
      /\ \A j \in DOMAIN t : u[j] = t[j]
      /\ Results(u) = Results(t) \cup (IF m.role = "toolResult" THEN {n + 1} ELSE {})
  BY <1>1, OneMore
<1> HIDE DEF u, n
<1>3. /\ DOMAIN u = DOMAIN t \cup {n + 1} /\ u \in Seq(AnyMessage) /\ Len(u) = n + 1
      /\ u[n + 1] = m /\ (\A j \in DOMAIN t : u[j] = t[j])
      /\ Results(u) = Results(t) \cup {n + 1}
  BY <1>1, <1>r
<1>4. Results(t) \subseteq DOMAIN t
  BY DEF Results
<1>5. /\ \A j \in DOMAIN u : u[j].role \in {"user", "assistant", "toolResult"}
      /\ \A j \in DOMAIN u : u[j].calls # <<>> => Counts(u[j])
      /\ \A r \in Results(u) : u[r] = ToolResult(u[r].id)
  BY <1>1, <1>3, <1>4 DEF Said
<1> QED
  BY <1>2, <1>3, <1>5 DEF Said, u, n, m

\* The ids of a file's calls, after one more message.
LEMMA UsedOneMore ==
    ASSUME NEW m, file \in Seq(AnyMessage), m \in AnyMessage, file' = Append(file, m)
    PROVE  UsedCalls' = UsedCalls \cup Ids(m.calls)
<1>1. /\ DOMAIN file' = DOMAIN file \cup {Len(file) + 1} /\ file'[Len(file) + 1] = m
      /\ \A i \in DOMAIN file : file'[i] = file[i]
  <2> DEFINE t == file
  <2>1. t \in Seq(AnyMessage)
    OBVIOUS
  <2>2. DOMAIN t = 1..Len(t) /\ Len(t) \in Nat
    BY <2>1
  <2>3. Len(Append(t, m)) = Len(t) + 1 /\ DOMAIN Append(t, m) = 1..(Len(t) + 1)
        /\ Append(t, m)[Len(t) + 1] = m /\ \A i \in 1..Len(t) : Append(t, m)[i] = t[i]
    BY <2>1
  <2> QED
    BY <2>2, <2>3
<1>2. UsedCalls' = UNION {Ids(file'[i].calls) : i \in DOMAIN file'}
  BY DEF UsedCalls
<1> QED
  BY <1>1, <1>2 DEF UsedCalls

\* The steps of a turn: what is said, asked and answered keeps the invariant.
LEMMA PlainKeeps ==
    ASSUME RestoreInv, NEW m \in AnyMessage, m.role \in {"user", "assistant"}, m.calls = <<>>,
           file' = Append(file, m), turn' # "tools"
    PROVE  RestoreInv'
<1>1. Said(file')
  BY PlainSaid DEF RestoreInv
<1>2. UsedCalls' = UsedCalls
  <2>1. Ids(m.calls) = {}
    BY DEF Ids
  <2> QED
    BY <2>1, UsedOneMore DEF RestoreInv, Said
<1> QED
  BY <1>1, <1>2 DEF RestoreInv

\* The model replies, with calls or without.
LEMMA ReplyKeeps == ASSUME RestoreInv, NEW n \in 0..MaxCalls, Reply(n) PROVE RestoreInv'
<1> DEFINE m == Assistant(FreshCalls(n))
<1>1. PICK last \in Nat : UsedCalls = 1..last
  BY DEF RestoreInv
<1>2. n \in Nat /\ FreshCalls(n) = [k \in 1..n |-> last + k]
  <2>1. Cardinality(1..last) = last
    BY FS_Interval
  <2> QED
    BY <1>1, <2>1, BoundsAssumption DEF FreshCalls
<1>3. /\ FreshCalls(n) \in Seq(Nat) /\ DOMAIN FreshCalls(n) = 1..n /\ Len(FreshCalls(n)) = n
      /\ \A k \in 1..n : FreshCalls(n)[k] = last + k
  BY <1>1, <1>2
<1>4. /\ file' = Append(file, m) /\ open' = FreshCalls(n)
      /\ turn' = IF n = 0 THEN "idle" ELSE "tools"
  BY DEF Reply, Say
<1>5. m \in AnyMessage /\ m.calls = FreshCalls(n) /\ Counts(m)
  BY <1>3 DEF Assistant, Message, AnyMessage, Roles, Blank, Counts
<1> HIDE DEF m
<1>6. \A i \in DOMAIN file : Ids(file[i].calls) \subseteq 1..last
  BY <1>1 DEF UsedCalls
<1>7. \A k \in DOMAIN m.calls :
        /\ m.calls[k] # Blank
        /\ \A i \in Callers(file) : m.calls[k] \notin Ids(file[i].calls)
        /\ \A l \in DOMAIN m.calls : m.calls[k] = m.calls[l] => k = l
  <2>1. \A k \in 1..n : last + k \in Nat /\ last + k # 0 /\ last + k \notin 1..last
    BY <1>1, <1>2
  <2>2. \A i \in Callers(file) : i \in DOMAIN file
    BY DEF Callers
  <2> SUFFICES ASSUME NEW k \in 1..n
               PROVE  /\ m.calls[k] # Blank
                      /\ \A i \in Callers(file) : m.calls[k] \notin Ids(file[i].calls)
                      /\ \A l \in 1..n : m.calls[k] = m.calls[l] => k = l
    BY <1>3, <1>5
  <2>3. m.calls[k] = last + k /\ \A l \in 1..n : m.calls[l] = last + l
    BY <1>3, <1>5
  <2>4. \A l \in 1..n : last + k = last + l => k = l
    BY <1>1, <1>2
  <2> QED
    BY <1>6, <2>1, <2>2, <2>3, <2>4 DEF Blank
<1>8. Said(file)
  BY DEF RestoreInv
<1>9. /\ Said(file') /\ Len(file') = Len(file) + 1
      /\ Len(file) + 1 \in Callers(file') /\ file'[Len(file) + 1] = m
      /\ SameSpan(file', Len(file) + 1, Len(file) + 2)
      /\ Answered(file') = Answered(file)
  BY <1>4, <1>5, <1>7, <1>8, AssistantSaid
<1>10. UsedCalls' = 1..(last + n)
  <2>1. Ids(m.calls) = {last + k : k \in 1..n}
    BY <1>3, <1>5 DEF Ids
  <2>2. UsedCalls' = (1..last) \cup {last + k : k \in 1..n}
    BY <1>1, <1>4, <1>5, <1>8, <2>1, UsedOneMore DEF Said
  <2>3. ASSUME NEW x \in 1..(last + n) PROVE x \in (1..last) \cup {last + k : k \in 1..n}
    <3>1. CASE x > last
      <4>1. x - last \in 1..n /\ x = last + (x - last)
        BY <1>1, <1>2, <3>1
      <4> QED
        BY <4>1
    <3> QED
      BY <1>1, <1>2, <3>1
  <2>4. \A k \in 1..n : last + k \in 1..(last + n)
    BY <1>1, <1>2
  <2>5. 1..last \subseteq 1..(last + n)
    BY <1>1, <1>2
  <2> QED
    BY <2>2, <2>3, <2>4, <2>5
<1>11. ASSUME n # 0 PROVE Asking'
  <2>1. open' \in Seq(Nat) /\ open' # <<>>
    BY <1>2, <1>3, <1>4, <1>11
  <2>2. \A j, k \in DOMAIN open' : open'[j] = open'[k] => j = k
    BY <1>1, <1>3, <1>4
  <2>3. Answered(file) \subseteq 1..last
    <3> SUFFICES ASSUME NEW r \in Results(file) PROVE file[r].id \in 1..last
      BY DEF Answered
    <3>1. PICK i \in Callers(file) : Answers(file, r, i)
      BY <1>8 DEF Said, Coherent, ResultsAnswer
    <3> QED
      BY <1>6, <3>1 DEF Answers, Callers
  <2>4. \A k \in DOMAIN open' : open'[k] \in Ids(file'[Len(file) + 1].calls) \ Answered(file')
    <3>1. \A k \in 1..n : last + k \notin 1..last
      BY <1>1, <1>2
    <3> QED
      BY <1>3, <1>4, <1>5, <1>9, <2>3, <3>1 DEF Ids
  <2>5. SameSpan(file', Len(file) + 1, Len(file') + 1)
    <3>1. Len(file) \in Nat
      BY <1>8 DEF Said
    <3>2. Len(file') + 1 = Len(file) + 2
      BY <1>9, <3>1
    <3> QED
      BY <1>9, <3>2
  <2> QED
    BY <1>9, <2>1, <2>2, <2>4, <2>5 DEF Asking
<1> QED
  <2>1. last + n \in Nat
    BY <1>1, <1>2
  <2> QED
    BY <1>4, <1>9, <1>10, <1>11, <2>1 DEF RestoreInv

\* A call is answered.
LEMMA AnswerKeeps == ASSUME RestoreInv, Answer PROVE RestoreInv'
<1> DEFINE id == Head(open)
<1>1. /\ file' = Append(file, ToolResult(id)) /\ open' = Tail(open)
      /\ turn' = IF Len(open) = 1 THEN "request" ELSE "tools"
      /\ Said(file) /\ Asking
  BY DEF Answer, Say, RestoreInv
<1>2. /\ open \in Seq(Nat) /\ open # <<>>
      /\ \A j, k \in DOMAIN open : open[j] = open[k] => j = k
  BY <1>1 DEF Asking
<1>3. PICK i \in Callers(file) :
         /\ SameSpan(file, i, Len(file) + 1)
         /\ \A k \in DOMAIN open : open[k] \in Ids(file[i].calls) \ Answered(file)
  BY <1>1 DEF Asking
<1>4. /\ id = open[1] /\ 1 \in DOMAIN open /\ id \in Nat /\ Len(open) \in Nat /\ Len(open) >= 1
      /\ Tail(open) \in Seq(Nat) /\ Len(Tail(open)) = Len(open) - 1
      /\ \A k \in DOMAIN Tail(open) : k + 1 \in DOMAIN open /\ Tail(open)[k] = open[k + 1] /\ k \in Nat /\ k + 1 # 1
  BY <1>2
<1> HIDE DEF id
<1>5. /\ Said(file') /\ Len(file') = Len(file) + 1 /\ Callers(file') = Callers(file) /\ file'[i] = file[i]
      /\ \A j \in DOMAIN file : file'[j] = file[j]
      /\ DOMAIN file' = DOMAIN file \cup {Len(file) + 1}
      /\ SameSpan(file', i, Len(file) + 2) /\ Answered(file') = Answered(file) \cup {id}
  <2> DEFINE u == Append(file, ToolResult(id))
  <2>1. id \in Ids(file[i].calls) \ Answered(file)
    BY <1>3, <1>4
  <2>2. /\ Said(u) /\ Len(u) = Len(file) + 1 /\ Callers(u) = Callers(file) /\ u[i] = file[i]
        /\ \A j \in DOMAIN file : u[j] = file[j]
        /\ DOMAIN u = DOMAIN file \cup {Len(file) + 1}
        /\ SameSpan(u, i, Len(file) + 2) /\ Answered(u) = Answered(file) \cup {id}
    BY <1>1, <1>3, <1>4, <2>1, ResultSaid
  <2>3. file' = u
    BY <1>1
  <2> HIDE DEF u
  <2> QED
    BY <2>2, <2>3
<1>6. UsedCalls' = UsedCalls
  <2>1. ToolResult(id) \in AnyMessage /\ ToolResult(id).calls = <<>>
    BY <1>4 DEF ToolResult, Message, AnyMessage, Roles
  <2>2. Ids(ToolResult(id).calls) = {}
    BY <2>1 DEF Ids
  <2> QED
    BY <1>1, <2>1, <2>2, UsedOneMore DEF Said
<1>7. ASSUME Len(open) # 1 PROVE Asking'
  <2> DEFINE rest == Tail(open)
  <2>a. /\ open' = rest /\ rest \in Seq(Nat) /\ Len(rest) = Len(open) - 1
        /\ \A k \in DOMAIN rest : k + 1 \in DOMAIN open /\ rest[k] = open[k + 1] /\ k \in Nat /\ k + 1 # 1
    BY <1>1, <1>4
  <2> HIDE DEF rest
  <2>1. rest # <<>>
    BY <1>4, <1>7, <2>a
  <2>2. \A j, k \in DOMAIN rest : rest[j] = rest[k] => j = k
    <3> SUFFICES ASSUME NEW j \in DOMAIN rest, NEW k \in DOMAIN rest, rest[j] = rest[k] PROVE j = k
      OBVIOUS
    <3>1. j + 1 = k + 1
      BY <1>2, <2>a
    <3> QED
      BY <2>a, <3>1
  <2>3. \A k \in DOMAIN rest : rest[k] \in Ids(file'[i].calls) \ Answered(file')
    <3> SUFFICES ASSUME NEW k \in DOMAIN rest PROVE rest[k] \in Ids(file'[i].calls) \ Answered(file')
      OBVIOUS
    <3>1. rest[k] \in Ids(file[i].calls) \ Answered(file)
      BY <1>3, <2>a
    <3>2. rest[k] # id
      BY <1>2, <1>4, <2>a
    <3> QED
      BY <1>5, <3>1, <3>2
  <2>4. SameSpan(file', i, Len(file') + 1)
    <3>1. Len(file) \in Nat
      BY <1>1 DEF Said
    <3>2. Len(file') + 1 = Len(file) + 2
      BY <1>5, <3>1
    <3> QED
      BY <1>5, <3>2
  <2> QED
    BY <1>3, <1>5, <2>1, <2>2, <2>3, <2>4, <2>a DEF Asking
<1> QED
  BY <1>1, <1>5, <1>6, <1>7 DEF RestoreInv

\* Every step, a crash and the restoration included, keeps the file coherent.
LEMMA RestoreKept == ASSUME RestoreInv, [RestoreNext]_restoreVars PROVE RestoreInv'
<1>1. CASE Prompt
  <2>1. User \in AnyMessage /\ User.role = "user" /\ User.calls = <<>>
    BY DEF User, Message, AnyMessage, Roles, Blank
  <2>2. file' = Append(file, User) /\ turn' # "tools"
    BY <1>1 DEF Prompt, Say
  <2> QED
    BY <2>1, <2>2, PlainKeeps
<1>2. CASE ReplyFailed
  <2> DEFINE m == FailedAssistant(<<>>)
  <2>1. m \in AnyMessage /\ m.role = "assistant" /\ m.calls = <<>>
    BY DEF FailedAssistant, Message, AnyMessage, Roles, Blank
  <2>2. file' = Append(file, m) /\ turn' # "tools"
    BY <1>2 DEF ReplyFailed, Say
  <2> HIDE DEF m
  <2> QED
    BY <2>1, <2>2, PlainKeeps
<1>3. ASSUME NEW n \in 0..MaxCalls, Reply(n) PROVE RestoreInv'
  BY <1>3, ReplyKeeps
<1>4. CASE Answer
  BY <1>4, AnswerKeeps
<1>5. CASE Restart
  <2>1. UNCHANGED file /\ turn' # "tools"
    BY <1>5 DEF Restart
  <2>2. UsedCalls' = UsedCalls
    BY <2>1 DEF UsedCalls
  <2> QED
    BY <2>1, <2>2 DEF RestoreInv
<1>6. CASE UNCHANGED restoreVars
  <2>1. UNCHANGED <<file, turn, open>>
    BY <1>6 DEF restoreVars
  <2>2. UsedCalls' = UsedCalls /\ (Asking <=> Asking')
    BY <2>1 DEF UsedCalls, Asking
  <2> QED
    BY <2>1, <2>2 DEF RestoreInv
<1> QED
  BY <1>1, <1>2, <1>3, <1>4, <1>5, <1>6 DEF RestoreNext

\* A session starts with nothing said.
LEMMA RestoreStarts == ASSUME RestoreInit PROVE RestoreInv
<1>1. file = <<>> /\ turn # "tools"
  BY DEF RestoreInit
<1>2. Callers(<<>>) = {} /\ Results(<<>>) = {}
  BY DEF Callers, Results
<1>3. Said(file)
  BY <1>1, <1>2 DEF Said, Coherent, DistinctCalls, ResultsAnswer, DistinctResults
<1>4. UsedCalls = 1..0
  BY <1>1 DEF UsedCalls
<1> QED
  BY <1>1, <1>3, <1>4 DEF RestoreInv

\* What the properties call unresolved are the stranded assistants.
LEMMA UnresolvedMeans ==
    ASSUME Said(file)
    PROVE  /\ Unresolved = Stranded(file)
           /\ \A i \in Unresolved : ~AnyAnswered(i) => \A id \in Ids(file[i].calls) : id \notin Answered(file)
<1>1. \A id : id \in Answered(file) <=> \E r \in DOMAIN file : file[r].role = "toolResult" /\ file[r].id = id
  BY DEF Answered, Results
<1>2. \A i \in DOMAIN file : Ids(file[i].calls) # {} => i \in Callers(file)
  <2> SUFFICES ASSUME NEW i \in DOMAIN file, Ids(file[i].calls) # {} PROVE i \in Callers(file)
    OBVIOUS
  <2>1. file[i].calls # <<>>
    BY DEF Ids
  <2> QED
    BY <2>1 DEF Said, Callers
<1>3. Unresolved = Stranded(file)
  BY <1>1, <1>2 DEF Unresolved, Stranded, Callers
<1> QED
  BY <1>1, <1>3 DEF AnyAnswered

\* A turn without any result is repaired: the kept transcript passes validation.
LEMMA RestoreRepairs == ASSUME RestoreInv PROVE RestoreRepairsUnansweredTurn
<1> SUFFICES ASSUME Cardinality(Unresolved) <= 1, \A i \in Unresolved : ~AnyAnswered(i)
             PROVE  ValidTranscript(ConvertToLlm(TrimUnresolved(file)))
  BY DEF RestoreRepairsUnansweredTurn
<1> DEFINE kept == TrimUnresolved(file)
<1>1. Said(file) /\ file \in Seq(AnyMessage) /\ Coherent(file)
  BY DEF RestoreInv, Said
<1>2. /\ kept \in Seq(AnyMessage) /\ Coherent(kept) /\ Stranded(kept) = {}
      /\ \A i \in DOMAIN kept : kept[i].role \notin {"session", "hidden"}
  <2>1. CASE Stranded(file) = {} /\ kept = file
    BY <1>1, <2>1 DEF Said
  <2>2. CASE \E p \in Stranded(file) : kept = Without(file, p)
    <3>1. PICK p \in Stranded(file) : kept = Without(file, p)
      BY <2>2
    <3>2. p \in Callers(file) /\ p \in DOMAIN file
      BY DEF Stranded, Callers
    <3>3. \A id \in Ids(file[p].calls) : id \notin Answered(file)
      BY <1>1, UnresolvedMeans
    <3>4. Stranded(file) = {p}
      <4>1. Unresolved = Stranded(file)
        BY <1>1, UnresolvedMeans
      <4>2. Unresolved \subseteq 1..Len(file) /\ Len(file) \in Nat
        BY <1>1 DEF Unresolved
      <4>3. IsFiniteSet(Unresolved)
        <5>1. IsFiniteSet(1..Len(file))
          BY <4>2, FS_Interval
        <5> QED
          BY <4>2, <5>1, FS_Subset
      <4> SUFFICES ASSUME NEW q \in Stranded(file), q # p PROVE FALSE
        OBVIOUS
      <4>4. {p, q} \subseteq Unresolved
        BY <4>1
      <4>5. Cardinality({p, q}) <= Cardinality(Unresolved) /\ IsFiniteSet({p, q})
        BY <4>3, <4>4, FS_Subset
      <4>6. Cardinality({p, q}) = 2
        <5>1. IsFiniteSet({p}) /\ Cardinality({p}) = 1
          BY FS_Singleton
        <5>2. Cardinality({p} \cup {q}) = 2
          BY <5>1, FS_AddElement
        <5>3. {p} \cup {q} = {p, q}
          OBVIOUS
        <5> QED
          BY <5>2, <5>3
      <4>7. Cardinality(Unresolved) \in Nat
        BY <4>3, FS_CardinalityType
      <4> QED
        BY <4>5, <4>6, <4>7
    <3>5. Coherent(kept) /\ \A k \in Stranded(kept) : Was(p, k) \in Stranded(file) \ {p}
      BY <1>1, <3>1, <3>2, <3>3, WithoutIsCoherent
    <3>6. kept \in Seq(AnyMessage) /\ \A k \in DOMAIN kept : Was(p, k) \in DOMAIN file /\ kept[k] = file[Was(p, k)]
      BY <1>1, <3>1, <3>2, WithoutOne
    <3> HIDE DEF kept
    <3> QED
      BY <1>1, <3>4, <3>5, <3>6 DEF Said
  <2> QED
    BY <1>1, <2>1, <2>2, TrimsStranded
<1> HIDE DEF kept
<1>3. ConvertToLlm(kept) = kept
  BY <1>2, ConvertsToItself
<1> QED
  BY <1>2, <1>3, SaidIsWellFormed, AcceptedMeansWellFormed DEF kept

\* A turn with all its results is kept whole.
LEMMA RestoreKeeps == ASSUME RestoreInv PROVE RestoreKeepsAnsweredTurns
<1> DEFINE kept == TrimUnresolved(file)
<1>1. Said(file) /\ file \in Seq(AnyMessage)
  BY DEF RestoreInv, Said
<1> SUFFICES ASSUME NEW i \in DOMAIN file, Counts(file[i]), i \notin Unresolved
             PROVE  /\ \E j \in DOMAIN kept : kept[j] = file[i]
                    /\ \A id \in Ids(file[i].calls) : \E r \in DOMAIN kept : kept[r] = ToolResult(id)
  BY DEF RestoreKeepsAnsweredTurns
<1>2. \A id \in Ids(file[i].calls) : \E r \in Results(file) : file[r] = ToolResult(id)
  <2> SUFFICES ASSUME NEW id \in Ids(file[i].calls) PROVE \E r \in Results(file) : file[r] = ToolResult(id)
    OBVIOUS
  <2>1. PICK r \in DOMAIN file : file[r].role = "toolResult" /\ file[r].id = id
    BY DEF Unresolved
  <2> QED
    BY <1>1, <2>1 DEF Said, Results
<1>3. \A r \in Results(file) : r \in DOMAIN file /\ ~Counts(file[r])
  BY DEF Results, Counts
<1>4. CASE kept = file
  BY <1>2, <1>3, <1>4
<1>5. CASE \E p \in Stranded(file) : kept = Without(file, p)
  <2>1. PICK p \in Stranded(file) : kept = Without(file, p)
    BY <1>5
  <2>2. p \in DOMAIN file /\ Counts(file[p]) /\ p # i
    BY <1>1, UnresolvedMeans DEF Stranded, Callers
  <2>3. /\ \A k \in DOMAIN kept : kept[k] = file[Was(p, k)]
        /\ \A j \in DOMAIN file \ {p} : \E k \in DOMAIN kept : Was(p, k) = j
    <3> DEFINE u == Without(file, p)
    <3>1. /\ \A k \in DOMAIN u : u[k] = file[Was(p, k)]
          /\ \A j \in DOMAIN file \ {p} : \E k \in DOMAIN u : Was(p, k) = j
      <4>1. file \in Seq(AnyMessage) /\ p \in DOMAIN file
        BY <1>1, <2>2
      <4> HIDE DEF kept
      <4> QED
        BY <4>1, WithoutOne
    <3> HIDE DEF u, kept
    <3>2. kept = u
      BY <2>1 DEF u
    <3> QED
      BY <3>1, <3>2
  <2> HIDE DEF kept
  <2>4. \A j \in DOMAIN file \ {p} : \E k \in DOMAIN kept : kept[k] = file[j]
    BY <2>3
  <2>5. \A r \in Results(file) : r \in DOMAIN file \ {p}
    BY <1>3, <2>2
  <2>6. \E j \in DOMAIN kept : kept[j] = file[i]
    BY <2>2, <2>4
  <2>7. \A id \in Ids(file[i].calls) : \E r \in DOMAIN kept : kept[r] = ToolResult(id)
    <3> SUFFICES ASSUME NEW id \in Ids(file[i].calls) PROVE \E r \in DOMAIN kept : kept[r] = ToolResult(id)
      OBVIOUS
    <3>1. PICK r \in Results(file) : file[r] = ToolResult(id)
      BY <1>2
    <3>2. PICK k \in DOMAIN kept : kept[k] = file[r]
      BY <2>4, <2>5
    <3> QED
      BY <3>1, <3>2
  <2> QED
    BY <2>6, <2>7
<1> QED
  BY <1>1, <1>4, <1>5, TrimsStranded

\* Wherever the process dies, opening the session repairs a turn that was not answered at all,
\* and keeps every turn whose calls all have their results (buildSessionContext).
THEOREM RestoreIsExact == RestoreSpec => []RestoreTrimsExactly
<1>1. RestoreInit => RestoreInv
  BY RestoreStarts
<1>2. RestoreInv /\ [RestoreNext]_restoreVars => RestoreInv'
  BY RestoreKept
<1>3. RestoreInv => RestoreTrimsExactly
  BY RestoreRepairs, RestoreKeeps DEF RestoreTrimsExactly
<1> QED
  BY <1>1, <1>2, <1>3, PTL DEF RestoreSpec

-----------------------------------------------------------------------------
(* The messages of a path                                                  *)

\* What entries there are; entries of the first two types carry a message.
EntryTypes == {"message", "user_entry", "setting", "compaction"}
\* The entries that produce a message, and the entries a path is made of.
Speaks(e) == e.type \in {"message", "user_entry"}
PathEntries ==
    {e \in [type : EntryTypes, message : AnyMessage \cup {NoMessage}, size : Sizes \cup {Min(Sizes), 0},
            first : Nat, covers : SUBSET Nat] :
       /\ Speaks(e) => e.message \in AnyMessage /\ e.message.role # "hidden"
       /\ e.type = "user_entry" => e.message = SessionMessage
       /\ e.type = "compaction" => e.first # 0}

\* The recursion of MessagesOf has a solution.
LEMMA MessagesExist ==
    ASSUME NEW p \in Seq(PathEntries), NEW from \in Nat \ {0}
    PROVE  LET Equation(g) ==
                 g = [n \in 0..Len(p) |->
                        IF n < from THEN <<>>
                        ELSE IF p[n].type \in {"message", "user_entry"} THEN Append(g[n - 1], p[n].message)
                        ELSE g[n - 1]]
           IN  \E g : Equation(g)
<1> DEFINE Equation(g) ==
             g = [n \in 0..Len(p) |->
                    IF n < from THEN <<>>
                    ELSE IF p[n].type \in {"message", "user_entry"} THEN Append(g[n - 1], p[n].message)
                    ELSE g[n - 1]]
           V == Seq(AnyMessage)
           M == [entry : PathEntries, skip : BOOLEAN]
           step == [q \in V \X M |->
                      IF q[2].skip THEN <<>>
                      ELSE IF Speaks(q[2].entry) THEN Append(q[1], q[2].entry.message) ELSE q[1]]
           n == Len(p)
           t == [k \in 1..n |-> [entry |-> p[k], skip |-> k < from]]
<1>1. n \in Nat /\ DOMAIN p = 1..n /\ \A k \in 1..n : p[k] \in PathEntries
  OBVIOUS
<1>2. t \in Seq(M) /\ Len(t) = n
  <2>1. \A k \in 1..n : t[k] \in M
    BY <1>1
  <2>2. DOMAIN t = 1..n
    OBVIOUS
  <2> QED
    BY <1>1, <2>1, <2>2
<1>4. step \in [V \X M -> V]
  <2> SUFFICES ASSUME NEW c \in V, NEW m \in M
               PROVE  (IF m.skip THEN <<>> ELSE IF Speaks(m.entry) THEN Append(c, m.entry.message) ELSE c) \in V
    OBVIOUS
  <2>1. m.entry \in PathEntries
    OBVIOUS
  <2>2. Speaks(m.entry) => m.entry.message \in AnyMessage
    BY <2>1 DEF PathEntries
  <2> HIDE DEF M
  <2> QED
    BY <2>2
<1>5. <<>> \in V
  OBVIOUS
<1> HIDE DEF t
<1>6. PICK h \in [SUBSET (1..n) -> V] : Folds(h, n, <<>>, step, t)
  <2> HIDE DEF step, V, M
  <2> QED
    BY <1>2, <1>4, <1>5, FoldsExist
<1> DEFINE g == [k \in 0..n |-> h[1..k]]
<1>7. ASSUME NEW k \in 0..n
      PROVE  g[k] = IF k < from THEN <<>>
                    ELSE IF p[k].type \in {"message", "user_entry"} THEN Append(g[k - 1], p[k].message)
                    ELSE g[k - 1]
  <2>1. CASE k = 0
    <3>1. 1..0 = {} /\ 0 < from /\ {} \in SUBSET (1..n)
      OBVIOUS
    <3>2. h[{}] = <<>>
      BY <1>6, <3>1 DEF Folds
    <3> QED
      BY <2>1, <3>1, <3>2
  <2>2. CASE k # 0
    <3>1. k \in 1..n /\ k - 1 \in 0..n
      BY <1>1, <2>2
    <3>2. Max(1..k) = k /\ (1..k) \ {Max(1..k)} = 1..(k - 1) /\ 1..k \in SUBSET (1..n) /\ 1..k # {}
      BY <1>1, <3>1, FoldsInOrder
    <3>3. h[1..k] = step[h[1..(k - 1)], t[k]]
      <4> HIDE DEF step
      <4> QED
        BY <1>6, <3>2 DEF Folds
    <3>4. h[1..(k - 1)] \in V /\ t[k] \in M
      BY <1>1, <3>1 DEF t
    <3>5. t[k].skip = (k < from) /\ t[k].entry = p[k]
      BY <3>1 DEF t
    <3>6. h[1..k] = IF t[k].skip THEN <<>>
                    ELSE IF Speaks(t[k].entry) THEN Append(h[1..(k - 1)], t[k].entry.message) ELSE h[1..(k - 1)]
      <4> HIDE DEF V, M
      <4> QED
        BY <3>3, <3>4
    <3> QED
      BY <3>1, <3>5, <3>6 DEF Speaks
  <2> QED
    BY <2>1, <2>2
<1> HIDE DEF g
<1>8. g = [k \in 0..n |-> g[k]]
  BY DEF g
<1>9. Equation(g)
  BY <1>7, <1>8
<1> QED
  BY <1>9

\* MessagesOf, one entry at a time.
LEMMA MessagesNext ==
    ASSUME NEW p \in Seq(PathEntries), NEW from \in Nat \ {0}
    PROVE  /\ \A n \in 0..Len(p) : n < from => MessagesOf(p, from, n) = <<>>
           /\ \A n \in from..Len(p) :
                MessagesOf(p, from, n) =
                  IF Speaks(p[n]) THEN Append(MessagesOf(p, from, n - 1), p[n].message)
                                  ELSE MessagesOf(p, from, n - 1)
<1> DEFINE Equation(g) ==
             g = [n \in 0..Len(p) |->
                    IF n < from THEN <<>>
                    ELSE IF p[n].type \in {"message", "user_entry"} THEN Append(g[n - 1], p[n].message)
                    ELSE g[n - 1]]
           messages == CHOOSE g : Equation(g)
<1>1. \E g : Equation(g)
  BY MessagesExist
<1>2. Equation(messages)
  <2> HIDE DEF Equation
  <2> QED
    BY <1>1
<1>3. \A n : MessagesOf(p, from, n) = messages[n]
  BY DEF MessagesOf
<1>4. Len(p) \in Nat /\ \A n \in from..Len(p) : n \in 0..Len(p) /\ n - 1 \in 0..Len(p) /\ ~(n < from)
  OBVIOUS
<1> HIDE DEF messages
<1> QED
  BY <1>2, <1>3, <1>4 DEF Speaks

\* Entries of another path that are the same carry the same messages.
LEMMA SameMessages ==
    ASSUME NEW p \in Seq(PathEntries), NEW q \in Seq(PathEntries), NEW from \in Nat \ {0}, NEW to \in Nat,
           to <= Len(p), to <= Len(q), \A k \in from..to : p[k] = q[k]
    PROVE  MessagesOf(p, from, to) = MessagesOf(q, from, to)
<1> DEFINE P == {n \in Nat : n <= to => MessagesOf(p, from, n) = MessagesOf(q, from, n)}
<1>0. Len(p) \in Nat /\ Len(q) \in Nat
  OBVIOUS
<1>1. 0 \in P
  <2>1. 0 \in 0..Len(p) /\ 0 \in 0..Len(q) /\ 0 < from
    BY <1>0
  <2> QED
    BY <2>1, MessagesNext
<1>2. ASSUME NEW n \in P PROVE n + 1 \in P
  <2> SUFFICES ASSUME n + 1 <= to
               PROVE  MessagesOf(p, from, n + 1) = MessagesOf(q, from, n + 1)
    OBVIOUS
  <2> DEFINE k == n + 1
  <2>1. n \in Nat /\ k \in Nat /\ k - 1 = n /\ MessagesOf(p, from, n) = MessagesOf(q, from, n)
        /\ k \in 0..Len(p) /\ k \in 0..Len(q) /\ k <= to
    BY <1>0
  <2> HIDE DEF k, P
  <2>2. CASE k < from
    BY <2>1, <2>2, MessagesNext DEF k
  <2>3. CASE ~(k < from)
    <3>1. k \in from..Len(p) /\ k \in from..Len(q) /\ p[k] = q[k]
      BY <1>0, <2>1, <2>3
    <3>2. /\ MessagesOf(p, from, k) = IF Speaks(p[k]) THEN Append(MessagesOf(p, from, k - 1), p[k].message)
                                                     ELSE MessagesOf(p, from, k - 1)
          /\ MessagesOf(q, from, k) = IF Speaks(q[k]) THEN Append(MessagesOf(q, from, k - 1), q[k].message)
                                                     ELSE MessagesOf(q, from, k - 1)
      BY <3>1, MessagesNext
    <3> QED
      BY <2>1, <3>1, <3>2 DEF k
  <2> QED
    BY <2>2, <2>3
<1>3. P = Nat
  <2>1. P \in SUBSET Nat
    OBVIOUS
  <2> HIDE DEF P
  <2> QED
    BY <1>1, <1>2, <2>1, Induction
<1> QED
  BY <1>3

\* Messages of the path that models or users can see; the first of them is that of the first entry
\* with one.
LEMMA MessagesTyped ==
    ASSUME NEW p \in Seq(PathEntries), NEW from \in Nat \ {0}, NEW to \in 0..Len(p)
    PROVE  LET t == MessagesOf(p, from, to)
           IN  /\ t \in Seq(AnyMessage) /\ \A i \in DOMAIN t : t[i].role # "hidden"
               /\ t # <<>> => \E i \in from..to :
                    Speaks(p[i]) /\ t[1] = p[i].message /\ \A j \in from..(i - 1) : ~Speaks(p[j])
               /\ t = <<>> => \A j \in from..to : ~Speaks(p[j])
<1> DEFINE T(n) == MessagesOf(p, from, n)
           First(n) == \E i \in from..n :
                    Speaks(p[i]) /\ T(n)[1] = p[i].message /\ \A j \in from..(i - 1) : ~Speaks(p[j])
           Typed(n) ==
               /\ T(n) \in Seq(AnyMessage) /\ \A i \in DOMAIN T(n) : T(n)[i].role # "hidden"
               /\ T(n) # <<>> => First(n)
               /\ T(n) = <<>> => \A j \in from..n : ~Speaks(p[j])
           P == {n \in Nat : n <= Len(p) => Typed(n)}
<1>0. Len(p) \in Nat /\ \A k \in 1..Len(p) : p[k] \in PathEntries
  OBVIOUS
<1>a. ASSUME NEW n \in 0..Len(p), n < from PROVE Typed(n)
  <2>1. T(n) = <<>>
    BY <1>a, MessagesNext
  <2>2. from..n = {} /\ <<>> \in Seq(AnyMessage) /\ DOMAIN <<>> = {}
    BY <1>a
  <2> HIDE DEF T
  <2> QED
    BY <2>1, <2>2
<1>1. 0 \in P
  BY <1>0, <1>a
<1>2. ASSUME NEW n \in P PROVE n + 1 \in P
  <2> DEFINE k == n + 1
  <2>1. n \in Nat /\ k \in Nat /\ k - 1 = n
    OBVIOUS
  <2> SUFFICES ASSUME k <= Len(p) PROVE Typed(k)
    BY <2>1
  <2>2. Typed(n) /\ k \in 0..Len(p)
    BY <1>0, <2>1
  <2>3. CASE k < from
    BY <1>a, <2>2, <2>3
  <2>4. CASE ~(k < from)
    <3>1. k \in from..Len(p) /\ k \in 1..Len(p)
      BY <1>0, <2>1, <2>4
    <3>2. T(k) = IF Speaks(p[k]) THEN Append(T(k - 1), p[k].message) ELSE T(k - 1)
      BY <3>1, MessagesNext
    <3>3. from..k = (from..n) \cup {k}
      BY <1>0, <2>1, <3>1
    <3>4. p[k] \in PathEntries /\ (Speaks(p[k]) => p[k].message \in AnyMessage /\ p[k].message.role # "hidden")
      BY <1>0, <3>1 DEF PathEntries
    <3> DEFINE s == T(n)
               u == T(k)
    <3>5. /\ s \in Seq(AnyMessage) /\ \A i \in DOMAIN s : s[i].role # "hidden"
          /\ u = IF Speaks(p[k]) THEN Append(s, p[k].message) ELSE s
          /\ s # <<>> => \E i \in from..n :
                    Speaks(p[i]) /\ s[1] = p[i].message /\ \A j \in from..(i - 1) : ~Speaks(p[j])
          /\ s = <<>> => \A j \in from..n : ~Speaks(p[j])
      BY <2>1, <2>2, <3>2
    <3> HIDE DEF s, u, k
    <3>6. CASE ~Speaks(p[k])
      <4>1. u = s
        BY <3>5, <3>6
      <4> QED
        BY <3>3, <3>5, <3>6, <4>1 DEF u
    <3>7. CASE Speaks(p[k])
      <4>1. u = Append(s, p[k].message) /\ p[k].message \in AnyMessage /\ p[k].message.role # "hidden"
        BY <3>4, <3>5, <3>7
      <4>2. /\ u \in Seq(AnyMessage) /\ u # <<>> /\ \A i \in DOMAIN u : u[i].role # "hidden"
            /\ s # <<>> => u[1] = s[1]
            /\ s = <<>> => u[1] = p[k].message
        BY <3>5, <4>1
      <4>3. \E i \in from..k :
                    Speaks(p[i]) /\ u[1] = p[i].message /\ \A j \in from..(i - 1) : ~Speaks(p[j])
        <5>1. CASE s # <<>>
          BY <3>3, <3>5, <4>2, <5>1
        <5>2. CASE s = <<>>
          <6>1. \A j \in from..(k - 1) : ~Speaks(p[j])
            BY <2>1, <3>5, <5>2 DEF k
          <6>2. k \in from..k
            BY <3>3
          <6> QED
            BY <3>7, <4>2, <5>2, <6>1, <6>2
        <5> QED
          BY <5>1, <5>2
      <4> QED
        BY <4>2, <4>3 DEF u
    <3> QED
      BY <3>6, <3>7
  <2> QED
    BY <2>3, <2>4
<1>3. P = Nat
  <2>1. P \in SUBSET Nat
    OBVIOUS
  <2> HIDE DEF P
  <2> QED
    BY <1>1, <1>2, <2>1, Induction
<1>4. Typed(to)
  <2>1. to \in P /\ to <= Len(p)
    <3> HIDE DEF P
    <3> QED
      BY <1>0, <1>3
  <2> HIDE DEF Typed
  <2> QED
    BY <2>1
<1> QED
  BY <1>4

-----------------------------------------------------------------------------
(* What a transcript is while the calls of its last assistant are answered *)

\* A transcript in which some calls wait for their results, the calls of its last
\* assistant, and no other does; all its calls are among those used.
Consistent(t, waiting, used) ==
    /\ t \in Seq(AnyMessage) /\ Coherent(t) /\ Called(t) \subseteq used /\ Pending(t) = Ids(waiting)
    /\ waiting # <<>> => \E i \in Callers(t) : SameSpan(t, i, Len(t) + 1) /\ Ids(waiting) \subseteq Ids(t[i].calls)

\* Nothing said: no call waits.
LEMMA NothingConsistent == ASSUME NEW used PROVE Consistent(<<>>, <<>>, used)
<1>1. DOMAIN <<>> = {} /\ <<>> \in Seq(AnyMessage)
  OBVIOUS
<1>2. Callers(<<>>) = {} /\ Results(<<>>) = {}
  BY <1>1 DEF Callers, Results
<1>3. Called(<<>>) = {}
  BY <1>2 DEF Called
<1>4. Ids(<<>>) = {}
  BY <1>1 DEF Ids
<1>5. Pending(<<>>) = {}
  BY <1>3 DEF Pending
<1>6. Coherent(<<>>)
  BY <1>2 DEF Coherent, DistinctCalls, ResultsAnswer, DistinctResults
<1> QED
  BY <1>1, <1>3, <1>4, <1>5, <1>6 DEF Consistent

\* A message without calls, while none waits.
LEMMA PlainConsistent ==
    ASSUME NEW t, NEW used, Consistent(t, <<>>, used), NEW more, used \subseteq more,
           NEW m \in AnyMessage, m.role # "toolResult", Counts(m) => m.calls = <<>>
    PROVE  Consistent(Append(t, m), <<>>, more)
<1>1. t \in Seq(AnyMessage) /\ Coherent(t) /\ Called(t) \subseteq used /\ Pending(t) = Ids(<<>>)
  BY DEF Consistent
<1>2. /\ Coherent(Append(t, m)) /\ Append(t, m) \in Seq(AnyMessage)
      /\ Called(Append(t, m)) = Called(t) /\ Answered(Append(t, m)) = Answered(t)
  BY <1>1, PlainCoherent
<1> QED
  BY <1>1, <1>2 DEF Consistent, Pending

\* An assistant with new calls: they wait from now on.
LEMMA CallsConsistent ==
    ASSUME NEW t, NEW used, Consistent(t, <<>>, used),
           NEW m \in AnyMessage, Counts(m), m.calls # <<>>, Ids(m.calls) \cap used = {},
           \A k \in DOMAIN m.calls :
              m.calls[k] # Blank /\ \A l \in DOMAIN m.calls : m.calls[k] = m.calls[l] => k = l
    PROVE  Consistent(Append(t, m), m.calls, used \cup Ids(m.calls))
<1> DEFINE u == Append(t, m)
<1>1. t \in Seq(AnyMessage) /\ Coherent(t) /\ Called(t) \subseteq used /\ Pending(t) = Ids(<<>>) /\ Len(t) \in Nat
  BY DEF Consistent
<1>2. Ids(<<>>) = {}
  BY DEF Ids
<1>3. \A i \in Callers(t) : Ids(t[i].calls) \subseteq Called(t)
  <2>1. \A i \in Callers(t) : t[i] \in AnyMessage
    BY <1>1 DEF Callers
  <2>2. \A i \in Callers(t) : Ids(t[i].calls) \subseteq Nat
    BY <2>1 DEF AnyMessage, Ids
  <2> QED
    BY <2>2 DEF Called
<1>4. Answered(t) \subseteq used
  <2> SUFFICES ASSUME NEW r \in Results(t) PROVE t[r].id \in used
    BY DEF Answered
  <2>1. PICK i \in Callers(t) : Answers(t, r, i)
    BY <1>1 DEF Coherent, ResultsAnswer
  <2> QED
    BY <1>1, <1>3, <2>1 DEF Answers
<1>5. \A k \in DOMAIN m.calls :
         /\ m.calls[k] # Blank /\ \A i \in Callers(t) : m.calls[k] \notin Ids(t[i].calls)
         /\ \A l \in DOMAIN m.calls : m.calls[k] = m.calls[l] => k = l
  <2>1. \A k \in DOMAIN m.calls : m.calls[k] \in Ids(m.calls)
    BY DEF Ids
  <2> QED
    BY <1>1, <1>3, <2>1
<1>6. /\ Coherent(u) /\ Len(t) + 1 \in Callers(u) /\ u[Len(t) + 1] = m
      /\ SameSpan(u, Len(t) + 1, Len(t) + 2) /\ Answered(u) = Answered(t) /\ Called(u) = Called(t) \cup Ids(m.calls)
  BY <1>1, <1>5, CallsCoherent
<1>7. u \in Seq(AnyMessage) /\ Len(u) + 1 = Len(t) + 2
  BY <1>1
<1> HIDE DEF u
<1>8. Pending(u) = Ids(m.calls)
  BY <1>1, <1>2, <1>4, <1>6 DEF Pending
<1>9. Consistent(u, m.calls, used \cup Ids(m.calls))
  BY <1>1, <1>6, <1>7, <1>8 DEF Consistent
<1> QED
  BY <1>9 DEF u

\* The result of the first call that waits.
LEMMA ResultConsistent ==
    ASSUME NEW t, NEW used, NEW waiting \in Seq(Nat), waiting # <<>>, Consistent(t, waiting, used),
           \A j, k \in DOMAIN waiting : waiting[j] = waiting[k] => j = k
    PROVE  Consistent(Append(t, ToolResult(Head(waiting))), Tail(waiting), used)
<1> DEFINE id == Head(waiting)
           u == Append(t, ToolResult(id))
<1>1. /\ t \in Seq(AnyMessage) /\ Coherent(t) /\ Called(t) \subseteq used /\ Pending(t) = Ids(waiting)
      /\ Len(t) \in Nat
  BY DEF Consistent
<1>2. PICK i \in Callers(t) : SameSpan(t, i, Len(t) + 1) /\ Ids(waiting) \subseteq Ids(t[i].calls)
  BY DEF Consistent
<1>3. id \in Nat /\ id = waiting[1] /\ 1 \in DOMAIN waiting /\ Len(waiting) \in Nat
      /\ DOMAIN waiting = 1..Len(waiting) /\ DOMAIN Tail(waiting) = 1..(Len(waiting) - 1)
      /\ \A k \in 1..(Len(waiting) - 1) : Tail(waiting)[k] = waiting[k + 1]
  OBVIOUS
<1> HIDE DEF id
<1>4. id \in Ids(waiting)
  BY <1>3 DEF Ids
<1>5. id \in Ids(t[i].calls) \ Answered(t)
  BY <1>1, <1>2, <1>4 DEF Pending
<1>6. /\ Coherent(u) /\ Callers(u) = Callers(t) /\ u[i] = t[i] /\ SameSpan(u, i, Len(t) + 2)
      /\ Called(u) = Called(t) /\ Answered(u) = Answered(t) \cup {id}
  <2>1. id \in Nat
    BY <1>3
  <2>2. t \in Seq(AnyMessage) /\ Coherent(t) /\ SameSpan(t, i, Len(t) + 1)
    BY <1>1, <1>2
  <2> QED
    BY <1>5, <2>1, <2>2, ResultCoherent
<1>7. u \in Seq(AnyMessage) /\ Len(u) + 1 = Len(t) + 2
  <2>1. ToolResult(id) \in AnyMessage
    BY <1>3 DEF ToolResult, Message, AnyMessage, Roles
  <2> QED
    BY <1>1, <2>1
<1>8. Ids(Tail(waiting)) = Ids(waiting) \ {id}
  <2>1. ASSUME NEW k \in 1..(Len(waiting) - 1) PROVE Tail(waiting)[k] \in Ids(waiting) \ {id}
    <3>1. k + 1 \in DOMAIN waiting /\ k + 1 # 1 /\ Tail(waiting)[k] = waiting[k + 1]
      BY <1>3
    <3> QED
      BY <1>3, <3>1 DEF Ids
  <2>2. ASSUME NEW k \in DOMAIN waiting, waiting[k] # id PROVE waiting[k] \in Ids(Tail(waiting))
    <3>1. k # 1
      BY <1>3, <2>2
    <3>2. k - 1 \in 1..(Len(waiting) - 1) /\ k = (k - 1) + 1
      BY <1>3, <3>1
    <3>3. Tail(waiting)[k - 1] = waiting[k]
      BY <1>3, <3>2
    <3> QED
      BY <1>3, <3>2, <3>3 DEF Ids
  <2>3. Ids(Tail(waiting)) \subseteq Ids(waiting) \ {id}
    BY <1>3, <2>1 DEF Ids
  <2>4. Ids(waiting) \ {id} \subseteq Ids(Tail(waiting))
    <3> SUFFICES ASSUME NEW k \in DOMAIN waiting, waiting[k] # id PROVE waiting[k] \in Ids(Tail(waiting))
      BY DEF Ids
    <3> QED
      BY <2>2
  <2> QED
    BY <2>3, <2>4
<1> HIDE DEF u
<1>9. Consistent(u, Tail(waiting), used)
  <2>1. Pending(u) = Ids(Tail(waiting))
    BY <1>1, <1>6, <1>8 DEF Pending
  <2> QED
    BY <1>1, <1>2, <1>6, <1>7, <1>8, <2>1 DEF Consistent
<1> QED
  BY <1>9 DEF u, id

-----------------------------------------------------------------------------
(* The path grows                                                          *)

\* The last compaction of a path, if it has one.
LEMMA LastCompactionIs ==
    ASSUME NEW p \in Seq(PathEntries)
    PROVE  /\ LastCompaction(p) \in 0..Len(p)
           /\ LastCompaction(p) # 0 => p[LastCompaction(p)].type = "compaction"
           /\ \A j \in (LastCompaction(p) + 1)..Len(p) : p[j].type # "compaction"
<1> DEFINE I == {i \in 1..Len(p) : p[i].type = "compaction"}
<1>1. LastCompaction(p) = IF I # {} THEN Max(I) ELSE 0
  BY DEF LastCompaction, SelectLastInSeq
<1>2. Len(p) \in Nat /\ I \in SUBSET (1..Len(p))
  OBVIOUS
<1>3. I # {} => Max(I) \in I /\ \A j \in I : j <= Max(I)
  <2> HIDE DEF I
  <2> QED
    BY <1>2, MaxOfPositions
<1>4. CASE I = {}
  BY <1>1, <1>2, <1>4
<1>5. CASE I # {}
  <2> DEFINE c == LastCompaction(p)
  <2>1. c \in I /\ \A j \in I : j <= c
    <3> HIDE DEF I
    <3> QED
      BY <1>1, <1>3, <1>5
  <2> HIDE DEF c
  <2>2. c \in 1..Len(p) /\ p[c].type = "compaction"
    BY <2>1
  <2>3. ASSUME NEW j \in (c + 1)..Len(p) PROVE p[j].type # "compaction"
    <3>1. j \in 1..Len(p) /\ ~(j <= c)
      BY <1>2, <2>2
    <3> QED
      BY <2>1, <3>1
  <2> QED
    BY <1>2, <2>2, <2>3 DEF c
<1> QED
  BY <1>4, <1>5

\* The last compaction, after one more entry.
LEMMA LastCompactionNext ==
    ASSUME NEW p \in Seq(PathEntries), NEW e \in PathEntries
    PROVE  LastCompaction(Append(p, e)) = IF e.type = "compaction" THEN Len(p) + 1 ELSE LastCompaction(p)
<1> DEFINE q == Append(p, e)
           c == LastCompaction(p)
           d == LastCompaction(q)
<1>1. q \in Seq(PathEntries) /\ Len(q) = Len(p) + 1 /\ Len(p) \in Nat /\ q[Len(p) + 1] = e
      /\ \A i \in 1..Len(p) : q[i] = p[i]
  OBVIOUS
<1> HIDE DEF q
<1>2. /\ c \in 0..Len(p) /\ (c # 0 => p[c].type = "compaction")
      /\ \A j \in (c + 1)..Len(p) : p[j].type # "compaction"
  BY LastCompactionIs
<1>3. /\ d \in 0..Len(q) /\ (d # 0 => q[d].type = "compaction")
      /\ \A j \in (d + 1)..Len(q) : q[j].type # "compaction"
  BY <1>1, LastCompactionIs
<1> HIDE DEF c, d
<1>4. CASE e.type = "compaction"
  <2>1. ~(d < Len(p) + 1)
    BY <1>1, <1>3, <1>4
  <2>2. d = Len(p) + 1
    BY <1>1, <1>3, <2>1
  <2> QED
    BY <1>4, <2>2 DEF d, q
<1>5. CASE e.type # "compaction"
  <2>1. d # Len(p) + 1
    BY <1>1, <1>3, <1>5
  <2>2. d \in 0..Len(p) /\ (d # 0 => p[d].type = "compaction")
    BY <1>1, <1>3, <2>1
  <2>3. ~(d < c)
    <3> SUFFICES ASSUME d < c PROVE FALSE
      OBVIOUS
    <3>1. c \in 1..Len(p) /\ c \in (d + 1)..Len(q) /\ q[c] = p[c] /\ c # 0
      BY <1>1, <1>2, <2>2
    <3> QED
      BY <1>2, <1>3, <3>1
  <2>4. ~(c < d)
    <3> SUFFICES ASSUME c < d PROVE FALSE
      OBVIOUS
    <3>1. d \in (c + 1)..Len(p) /\ d # 0
      BY <1>1, <1>2, <2>2
    <3> QED
      BY <1>2, <2>2, <3>1
  <2>5. d = c
    BY <1>1, <1>2, <2>2, <2>3, <2>4
  <2> QED
    BY <1>5, <2>5 DEF c, d, q
<1> QED
  BY <1>4, <1>5

\* The messages from an entry to the end of a path.
Kept(p, from) == MessagesOf(p, from, Len(p))

\* They grow by the message of an entry that is appended.
LEMMA KeptGrows ==
    ASSUME NEW p \in Seq(PathEntries), NEW e \in PathEntries, NEW from \in 1..(Len(p) + 1)
    PROVE  /\ Kept(Append(p, e), from) = IF Speaks(e) THEN Append(Kept(p, from), e.message) ELSE Kept(p, from)
           /\ Kept(Append(p, e), Len(p) + 2) = <<>> /\ Kept(p, Len(p) + 1) = <<>>
           /\ Kept(p, from) \in Seq(AnyMessage)
           /\ \A i \in DOMAIN Kept(p, from) : Kept(p, from)[i].role # "hidden"
           /\ \A to \in 0..Len(p) : MessagesOf(Append(p, e), from, to) = MessagesOf(p, from, to)
<1> DEFINE q == Append(p, e)
           n == Len(p)
<1>1. /\ q \in Seq(PathEntries) /\ Len(q) = n + 1 /\ n \in Nat /\ q[n + 1] = e
      /\ \A i \in 1..n : q[i] = p[i]
  OBVIOUS
<1>2. /\ from \in Nat \ {0} /\ n + 1 \in from..Len(q) /\ (n + 1) - 1 = n
      /\ n + 2 \in Nat \ {0} /\ n + 1 \in Nat \ {0} /\ n + 1 < n + 2 /\ n + 1 \in 0..Len(q)
      /\ n < n + 1 /\ n \in 0..n
  BY <1>1
<1> HIDE DEF q
<1>3. \A to \in 0..n : MessagesOf(q, from, to) = MessagesOf(p, from, to)
  <2> SUFFICES ASSUME NEW to \in 0..n PROVE MessagesOf(q, from, to) = MessagesOf(p, from, to)
    OBVIOUS
  <2>1. to \in Nat /\ to <= n /\ to <= Len(q) /\ \A k \in from..to : q[k] = p[k]
    BY <1>1, <1>2
  <2> QED
    BY <1>1, <1>2, <2>1, SameMessages
<1>4. MessagesOf(q, from, n + 1) = IF Speaks(e) THEN Append(MessagesOf(q, from, n), e.message)
                                                ELSE MessagesOf(q, from, n)
  <2> DEFINE k == n + 1
  <2>1. k \in from..Len(q) /\ k - 1 = n /\ q[k] = e
    BY <1>1, <1>2
  <2> HIDE DEF k
  <2>2. MessagesOf(q, from, k) = IF Speaks(q[k]) THEN Append(MessagesOf(q, from, k - 1), q[k].message)
                                                 ELSE MessagesOf(q, from, k - 1)
    BY <1>1, <1>2, <2>1, MessagesNext
  <2> QED
    BY <2>1, <2>2 DEF k
<1>5. MessagesOf(q, n + 2, n + 1) = <<>>
  BY <1>1, <1>2, MessagesNext
<1>6. MessagesOf(p, n + 1, n) = <<>>
  BY <1>1, <1>2, MessagesNext
<1>7. Kept(p, from) \in Seq(AnyMessage) /\ \A i \in DOMAIN Kept(p, from) : Kept(p, from)[i].role # "hidden"
  BY <1>2, MessagesTyped DEF Kept
<1> QED
  BY <1>1, <1>2, <1>3, <1>4, <1>5, <1>6, <1>7 DEF Kept, q

\* So does what buildSessionContext makes of the path, unless the entry is a compaction.
LEMMA ContextGrows ==
    ASSUME NEW p \in Seq(PathEntries), NEW e \in PathEntries, e.type # "compaction"
    PROVE  /\ RawContext(Append(p, e)) =
                 IF Speaks(e) THEN Append(RawContext(p), e.message) ELSE RawContext(p)
           /\ RawContext(p) \in Seq(AnyMessage)
           /\ \A i \in DOMAIN RawContext(p) : RawContext(p)[i].role # "hidden"
<1> DEFINE q == Append(p, e)
           n == Len(p)
           c == LastCompaction(p)
<1>1. /\ q \in Seq(PathEntries) /\ Len(q) = n + 1 /\ n \in Nat /\ DOMAIN p = 1..n
      /\ \A i \in 1..n : q[i] = p[i] /\ p[i] \in PathEntries
  OBVIOUS
<1>2. LastCompaction(q) = c /\ c \in 0..n /\ (c # 0 => p[c].type = "compaction")
  BY LastCompactionNext, LastCompactionIs
<1>m. Speaks(e) => e.message \in AnyMessage
  BY DEF PathEntries
<1> HIDE DEF c
<1>3. CASE c = 0
  <2>1. 1 \in 1..(n + 1)
    BY <1>1
  <2>2. RawContext(p) = Kept(p, 1) /\ RawContext(q) = Kept(q, 1)
    BY <1>2, <1>3 DEF RawContext, Kept, c
  <2> QED
    BY <2>1, <2>2, KeptGrows
<1>4. CASE c # 0
  <2>1. c \in 1..n /\ p[c] \in PathEntries /\ q[c] = p[c]
    BY <1>1, <1>2, <1>4
  <2>2. p[c].first \in Nat \ {0}
    BY <1>2, <1>4, <2>1 DEF PathEntries
  <2> DEFINE f == p[c].first
             a == MessagesOf(p, f, c - 1)
             b == Kept(p, c + 1)
  <2>3. RawContext(p) = (<<SessionMessage>> \o a) \o b
    BY <1>2, <1>4 DEF RawContext, Kept, c
  <2>4. RawContext(q) = (<<SessionMessage>> \o MessagesOf(q, f, c - 1)) \o Kept(q, c + 1)
    BY <1>2, <1>4, <2>1 DEF RawContext, Kept
  <2>5. c - 1 \in Nat /\ c - 1 \in 0..n /\ c - 1 <= n /\ c - 1 <= Len(q) /\ c + 1 \in 1..(n + 1)
        /\ \A k \in f..(c - 1) : q[k] = p[k]
    BY <1>1, <2>1, <2>2
  <2>6. MessagesOf(q, f, c - 1) = a
    <3> HIDE DEF q
    <3> QED
      BY <1>1, <2>2, <2>5, SameMessages
  <2>7. /\ Kept(q, c + 1) = IF Speaks(e) THEN Append(b, e.message) ELSE b
        /\ b \in Seq(AnyMessage) /\ \A i \in DOMAIN b : b[i].role # "hidden"
    BY <2>5, KeptGrows
  <2>8. a \in Seq(AnyMessage) /\ \A i \in DOMAIN a : a[i].role # "hidden"
    BY <2>2, <2>5, MessagesTyped
  <2>9. SessionMessage \in AnyMessage /\ SessionMessage.role # "hidden"
    BY DEF SessionMessage, Message, AnyMessage, Roles, Blank
  <2> DEFINE s == <<SessionMessage>> \o a
  <2> HIDE DEF a, b, q
  <2>10. s \in Seq(AnyMessage) /\ \A i \in DOMAIN s : s[i].role # "hidden"
    BY <2>8, <2>9
  <2> HIDE DEF s
  <2>11. s \o b \in Seq(AnyMessage) /\ \A i \in DOMAIN (s \o b) : (s \o b)[i].role # "hidden"
    BY <2>7, <2>10
  <2>12. Speaks(e) => s \o Append(b, e.message) = Append(s \o b, e.message)
    <3> SUFFICES ASSUME NEW m \in AnyMessage PROVE s \o Append(b, m) = Append(s \o b, m)
      BY <1>m
    <3> QED
      BY <2>7, <2>10
  <2>13. RawContext(p) = s \o b /\ RawContext(q) = s \o Kept(q, c + 1)
    BY <2>3, <2>4, <2>6 DEF s
  <2>14. RawContext(q) = IF Speaks(e) THEN Append(RawContext(p), e.message) ELSE RawContext(p)
    BY <2>7, <2>12, <2>13
  <2> QED
    BY <2>11, <2>13, <2>14 DEF q
<1> QED
  BY <1>3, <1>4

-----------------------------------------------------------------------------
(* Turns stay whole                                                        *)

\* A transcript that does not begin with the result of a call it lacks.
Clean(t) == t # <<>> => t[1].role # "toolResult"

\* The messages from an entry on, after the summary of what came before.
View(p, from) == AsLlm(<<SessionMessage>> \o Kept(p, from))

\* What makes the validity of a compacted session inductive: from wherever one
\* may cut, the messages up to the end of the path are consistent, as are those the
\* model is sent.
Turns(p, waiting, used) ==
    /\ Clean(Kept(p, LastCompaction(p) + 1))
    /\ waiting # <<>> => Kept(p, LastCompaction(p) + 1) # <<>>
    /\ \A from \in (LastCompaction(p) + 1)..(Len(p) + 1) :
         Clean(Kept(p, from)) => Kept(p, from) = <<>> \/ Consistent(View(p, from), waiting, used)
    /\ Consistent(AsLlm(RawContext(p)), waiting, used)

\* The summary alone.
LEMMA SummaryConsistent ==
    ASSUME NEW used
    PROVE  Consistent(AsLlm(<<SessionMessage>>), <<>>, used)
<1>1. AsLlm(<<SessionMessage>>) = Append(<<>>, User)
  <2>1. SessionMessage.role = "session"
    BY DEF SessionMessage, Message
  <2>2. LlmMessage(SessionMessage) = User
    BY <2>1 DEF LlmMessage
  <2>3. <<>> \in Seq(AnyMessage) /\ SessionMessage \in AnyMessage /\ Append(<<>>, SessionMessage) = <<SessionMessage>>
    BY DEF SessionMessage, Message, AnyMessage, Roles, Blank
  <2>4. AsLlm(<<>>) = <<>>
    BY DEF AsLlm
  <2> QED
    BY <2>2, <2>3, <2>4, LlmMessages
<1>2. User \in AnyMessage /\ User.role # "toolResult" /\ ~Counts(User)
  BY DEF User, Message, AnyMessage, Roles, Blank, Counts
<1> QED
  BY <1>1, <1>2, NothingConsistent, PlainConsistent

\* An entry that keeps consistent transcripts consistent keeps the turns of the path.
LEMMA TurnsGrow ==
    ASSUME NEW p \in Seq(PathEntries), NEW e \in PathEntries, e.type # "compaction",
           NEW waiting, NEW used, NEW left, NEW more, Turns(p, waiting, used),
           ~Speaks(e) => left = waiting /\ more = used,
           Speaks(e) => /\ e.message.role = "toolResult" <=> waiting # <<>>
                        /\ \A t : Consistent(t, waiting, used) =>
                                  Consistent(Append(t, LlmMessage(e.message)), left, more)
    PROVE  Turns(Append(p, e), left, more)
<1> DEFINE q == Append(p, e)
           n == Len(p)
           m == e.message
           start == LastCompaction(p) + 1
<1>1. q \in Seq(PathEntries) /\ Len(q) = n + 1 /\ n \in Nat
  OBVIOUS
<1>2. LastCompaction(q) + 1 = start /\ start \in 1..(n + 1)
  BY <1>1, LastCompactionNext, LastCompactionIs
<1>3. Speaks(e) => m \in AnyMessage
  BY DEF PathEntries
<1>4. SessionMessage \in AnyMessage
  BY DEF SessionMessage, Message, AnyMessage, Roles, Blank
<1>5. ASSUME NEW from \in start..(n + 1)
      PROVE  /\ Kept(p, from) \in Seq(AnyMessage)
             /\ Kept(q, from) = IF Speaks(e) THEN Append(Kept(p, from), m) ELSE Kept(p, from)
             /\ View(q, from) = IF Speaks(e) THEN Append(View(p, from), LlmMessage(m)) ELSE View(p, from)
             /\ Clean(Kept(p, from)) => Kept(p, from) = <<>> \/ Consistent(View(p, from), waiting, used)
  <2>1. from \in 1..(n + 1)
    BY <1>1, <1>2
  <2>2. /\ Kept(p, from) \in Seq(AnyMessage)
        /\ Kept(q, from) = IF Speaks(e) THEN Append(Kept(p, from), m) ELSE Kept(p, from)
    BY <2>1, KeptGrows
  <2> DEFINE s == <<SessionMessage>> \o Kept(p, from)
  <2>3. s \in Seq(AnyMessage) /\ \A x \in AnyMessage : <<SessionMessage>> \o Append(Kept(p, from), x) = Append(s, x)
    BY <1>4, <2>2
  <2>4. Speaks(e) => <<SessionMessage>> \o Kept(q, from) = Append(s, m)
    BY <1>3, <2>2, <2>3
  <2>5. View(p, from) = AsLlm(s) /\ View(q, from) = AsLlm(<<SessionMessage>> \o Kept(q, from))
    BY DEF View
  <2>6. ~Speaks(e) => View(q, from) = View(p, from)
    BY <2>2 DEF View
  <2> HIDE DEF s, q
  <2>7. Speaks(e) => View(q, from) = Append(View(p, from), LlmMessage(m))
    BY <1>3, <2>3, <2>4, <2>5, LlmMessages
  <2>8. Clean(Kept(p, from)) => Kept(p, from) = <<>> \/ Consistent(View(p, from), waiting, used)
    BY DEF Turns
  <2> QED
    BY <2>2, <2>6, <2>7, <2>8
<1>6. /\ RawContext(q) = IF Speaks(e) THEN Append(RawContext(p), m) ELSE RawContext(p)
      /\ RawContext(p) \in Seq(AnyMessage)
  BY ContextGrows
<1>7. Kept(q, n + 2) = <<>>
  <2>1. 1 \in 1..(n + 1)
    BY <1>1
  <2> QED
    BY <2>1, KeptGrows
<1>t. /\ Clean(Kept(p, start)) /\ (waiting # <<>> => Kept(p, start) # <<>>)
      /\ Consistent(AsLlm(RawContext(p)), waiting, used)
  BY DEF Turns
<1>s. start \in start..(n + 1)
  BY <1>1, <1>2
<1> HIDE DEF q, start
<1>8. Consistent(AsLlm(RawContext(q)), left, more)
  <2>1. CASE Speaks(e)
    <3>1. AsLlm(RawContext(q)) = Append(AsLlm(RawContext(p)), LlmMessage(m))
      BY <1>3, <1>6, <2>1, LlmMessages
    <3> QED
      BY <1>t, <2>1, <3>1
  <2>2. CASE ~Speaks(e)
    BY <1>6, <1>t, <2>2
  <2> QED
    BY <2>1, <2>2
<1>9. ASSUME NEW from \in start..(n + 1), Clean(Kept(q, from))
      PROVE  Kept(q, from) = <<>> \/ Consistent(View(q, from), left, more)
  <2>1. CASE ~Speaks(e)
    BY <1>5, <1>9, <2>1
  <2>2. CASE Speaks(e) /\ Kept(p, from) # <<>>
    <3>1. Clean(Kept(p, from))
      <4> DEFINE s == Kept(p, from)
      <4>1. s \in Seq(AnyMessage) /\ s # <<>> /\ Kept(q, from) = Append(s, m)
        BY <1>5, <2>2
      <4> HIDE DEF s
      <4>2. Append(s, m)[1] = s[1] /\ Append(s, m) # <<>>
        BY <1>3, <2>2, <4>1
      <4>3. Clean(s)
        BY <1>9, <4>1, <4>2 DEF Clean
      <4> QED
        BY <4>3 DEF s
    <3>2. Consistent(View(p, from), waiting, used)
      BY <1>5, <2>2, <3>1
    <3> QED
      BY <1>5, <2>2, <3>2
  <2>3. CASE Speaks(e) /\ Kept(p, from) = <<>>
    <3>1. Kept(q, from) = Append(<<>>, m)
      BY <1>5, <2>3
    <3>2. Kept(q, from) # <<>> /\ Kept(q, from)[1] = m
      BY <1>3, <2>3, <3>1
    <3>3. m.role # "toolResult"
      BY <1>9, <3>2 DEF Clean
    <3>4. waiting = <<>>
      BY <2>3, <3>3
    <3>5. View(p, from) = AsLlm(<<SessionMessage>>)
      <4>1. <<SessionMessage>> \o <<>> = <<SessionMessage>>
        BY <1>4
      <4> QED
        BY <2>3, <4>1 DEF View
    <3>6. Consistent(View(p, from), waiting, used)
      BY <3>4, <3>5, SummaryConsistent
    <3> QED
      BY <1>5, <2>3, <3>6
  <2> QED
    BY <2>1, <2>2, <2>3
<1>10. Clean(Kept(q, start)) /\ (left # <<>> => Kept(q, start) # <<>>)
  <2> DEFINE s == Kept(p, start)
  <2>1. s \in Seq(AnyMessage) /\ Kept(q, start) = IF Speaks(e) THEN Append(s, m) ELSE s
    BY <1>5, <1>s
  <2>2. Clean(s) /\ (waiting # <<>> => s # <<>>)
    BY <1>t
  <2> HIDE DEF s
  <2>3. CASE ~Speaks(e)
    BY <2>1, <2>2, <2>3
  <2>4. CASE Speaks(e)
    <3>1. Append(s, m) # <<>> /\ (s # <<>> => Append(s, m)[1] = s[1]) /\ (s = <<>> => Append(s, m)[1] = m)
      BY <1>3, <2>1, <2>4
    <3>2. s = <<>> => m.role # "toolResult"
      BY <2>2, <2>4
    <3> QED
      BY <2>1, <2>2, <2>4, <3>1, <3>2 DEF Clean
  <2> QED
    BY <2>3, <2>4
<1>11. ASSUME NEW from \in start..(n + 2), Clean(Kept(q, from))
       PROVE  Kept(q, from) = <<>> \/ Consistent(View(q, from), left, more)
  <2>1. from \in start..(n + 1) \/ from = n + 2
    BY <1>1, <1>2
  <2> QED
    BY <1>7, <1>9, <1>11, <2>1
<1>12. Len(q) + 1 = n + 2
  BY <1>1
<1>13. Turns(q, left, more)
  BY <1>2, <1>8, <1>10, <1>11, <1>12 DEF Turns
<1> QED
  BY <1>13 DEF q

\* A compaction that cuts where no result is cut from its call keeps them too.
LEMMA TurnsCut ==
    ASSUME NEW p \in Seq(PathEntries), NEW e \in PathEntries, e.type = "compaction",
           NEW used, Turns(p, <<>>, used),
           e.first \in (LastCompaction(p) + 1)..(Len(p) + 1), Clean(Kept(p, e.first))
    PROVE  Turns(Append(p, e), <<>>, used)
<1> DEFINE q == Append(p, e)
           n == Len(p)
           f == e.first
<1>1. q \in Seq(PathEntries) /\ Len(q) = n + 1 /\ n \in Nat /\ q[n + 1] = e
  OBVIOUS
<1>2. LastCompaction(q) = n + 1
  BY LastCompactionNext
<1>3. f \in 1..(n + 1) /\ 1 \in 1..(n + 1)
  BY <1>1, LastCompactionIs
<1>4. Kept(q, n + 2) = <<>> /\ Kept(p, f) \in Seq(AnyMessage) /\ MessagesOf(q, f, n) = Kept(p, f)
  <2>1. n \in 0..n
    BY <1>1
  <2> QED
    BY <1>3, <2>1, KeptGrows DEF Kept
<1>5. SessionMessage \in AnyMessage
  BY DEF SessionMessage, Message, AnyMessage, Roles, Blank
<1>6. Kept(p, f) = <<>> \/ Consistent(View(p, f), <<>>, used)
  BY DEF Turns
<1> HIDE DEF q
<1>7. RawContext(q) = <<SessionMessage>> \o Kept(p, f)
  <2>1. RawContext(q) = (<<SessionMessage>> \o MessagesOf(q, q[n + 1].first, n + 1 - 1)) \o MessagesOf(q, n + 1 + 1, Len(q))
    BY <1>1, <1>2 DEF RawContext
  <2>2. n + 1 - 1 = n /\ n + 1 + 1 = n + 2
    BY <1>1
  <2>3. RawContext(q) = (<<SessionMessage>> \o Kept(p, f)) \o <<>>
    BY <1>1, <1>4, <2>1, <2>2 DEF Kept
  <2> HIDE DEF f
  <2> QED
    BY <1>4, <1>5, <2>3
<1>8. Consistent(AsLlm(RawContext(q)), <<>>, used)
  <2>1. CASE Kept(p, f) = <<>>
    <3>1. <<SessionMessage>> \o <<>> = <<SessionMessage>>
      BY <1>5
    <3> QED
      BY <1>7, <2>1, <3>1, SummaryConsistent
  <2>2. CASE Consistent(View(p, f), <<>>, used)
    BY <1>7, <2>2 DEF View
  <2> QED
    BY <1>6, <2>1, <2>2
<1>9. LastCompaction(q) + 1 = n + 2 /\ Len(q) + 1 = n + 2 /\ \A from \in (n + 2)..(n + 2) : from = n + 2
  BY <1>1, <1>2
<1>10. Turns(q, <<>>, used)
  BY <1>4, <1>8, <1>9 DEF Turns, Clean
<1> QED
  BY <1>10 DEF q

-----------------------------------------------------------------------------
(* Where the path is cut                                                   *)

\* Min finds the least of some numbers.
LEMMA MinOfNumbers == ASSUME NEW s \in SUBSET Nat, s # {} PROVE Min(s) \in s /\ \A y \in s : Min(s) <= y
<1>1. PICK x \in s : \A y \in s : ~(<<y, x>> \in OpToRel(<, Nat))
  BY NatLessThanWellFounded, WFMin
<1>2. ASSUME NEW y \in s PROVE x <= y
  <2>1. ~(y < x) /\ x \in Nat /\ y \in Nat
    BY <1>1 DEF OpToRel
  <2> QED
    BY <2>1
<1> QED
  BY <1>2 DEF Min

\* findCutPoint never cuts a result from its call.
LEMMA CutIsClean ==
    ASSUME NEW p \in Seq(PathEntries), Clean(Kept(p, LastCompaction(p) + 1))
    PROVE  LET start == LastCompaction(p) + 1
               cut == FindCutPoint(p, start)
           IN  /\ cut.first \in start..(Len(p) + 1) /\ Clean(Kept(p, cut.first))
               /\ cut.turnStart \in Nat
<1> DEFINE start == LastCompaction(p) + 1
           points == CutPoints(p, start)
           budget == BudgetCut(p, start)
           from == ScanBack(p, start, budget)
           cut == FindCutPoint(p, start)
<1>1. Len(p) \in Nat /\ start \in 1..(Len(p) + 1) /\ \A i \in 1..Len(p) : p[i] \in PathEntries
  BY LastCompactionIs
<1> HIDE DEF start
<1>2. CASE points = {}
  <2>1. cut = [first |-> start, turnStart |-> 0]
    BY <1>2 DEF FindCutPoint
  <2> QED
    BY <1>1, <2>1 DEF start
<1>3. CASE points # {}
  <2>1. points \in SUBSET Nat /\ \A c \in points : c \in start..Len(p) /\ Speaks(p[c]) /\ p[c].message.role # "toolResult"
    BY <1>1 DEF CutPoints, Producing, Speaks
  <2>2. budget \in points
    <3> DEFINE reached == {i \in start..Len(p) : p[i].type = "message" /\ TokensFrom(p, i) >= KeepRecent}
               after == {c \in points : reached # {} /\ c >= Max(reached)}
    <3>1. budget = IF after # {} THEN Min(after) ELSE Min(points)
      BY DEF BudgetCut
    <3>2. after \in SUBSET points
      OBVIOUS
    <3> HIDE DEF after, points, budget
    <3> QED
      BY <1>3, <2>1, <3>1, <3>2, MinOfNumbers
  <2> HIDE DEF points, budget
  <2>3. budget \in start..Len(p) /\ Speaks(p[budget]) /\ p[budget].message.role # "toolResult"
    BY <2>1, <2>2
  <2>4. from \in start..budget /\ \A j \in from..(budget - 1) : p[j].type \notin {"compaction", "message"}
    <3> DEFINE back == {c \in start..budget : \A j \in c..(budget - 1) : p[j].type \notin {"compaction", "message"}}
    <3>1. budget \in back
      <4>1. budget..(budget - 1) = {} /\ budget \in start..budget
        BY <1>1, <2>3
      <4> QED
        BY <4>1
    <3>2. back \in SUBSET Nat
      BY <1>1, <2>3
    <3>3. from = Min(back)
      BY DEF ScanBack
    <3>4. from \in back
      <4> HIDE DEF back, from
      <4> QED
        BY <3>1, <3>2, <3>3, MinOfNumbers
    <3> HIDE DEF from
    <3> QED
      BY <3>4
  <2>5. cut.first = from /\ cut.turnStart \in Nat
    <3> DEFINE starts == {j \in start..from :
                            \/ p[j].type = "user_entry"
                            \/ p[j].type = "message" /\ p[j].message.role \in {"user", "session"}}
    <3>1. /\ cut.first = from
          /\ cut.turnStart \in {0, TurnStart(p, start, from)}
      BY <1>3 DEF FindCutPoint, points, budget
    <3>2. TurnStart(p, start, from) = IF starts = {} THEN 0 ELSE Max(starts)
      BY DEF TurnStart
    <3> HIDE DEF from, cut
    <3>3. starts \in SUBSET (1..Len(p)) /\ starts \in SUBSET Nat
      BY <1>1, <2>3, <2>4
    <3>4. starts # {} => Max(starts) \in starts
      <4> HIDE DEF starts
      <4> QED
        BY <1>1, <3>3, MaxOfPositions
    <3> HIDE DEF starts
    <3>5. TurnStart(p, start, from) \in Nat
      <4>1. CASE starts = {}
        BY <3>2, <4>1
      <4>2. CASE starts # {}
        BY <3>2, <3>3, <3>4, <4>2
      <4> QED
        BY <4>1, <4>2
    <3> QED
      BY <3>1, <3>5
  <2> HIDE DEF from, cut
  <2>6. Clean(Kept(p, from))
    <3> DEFINE t == Kept(p, from)
    <3> SUFFICES ASSUME t # <<>> PROVE t[1].role # "toolResult"
      BY DEF Clean
    <3>1. from \in Nat \ {0} /\ Len(p) \in 0..Len(p)
      BY <1>1, <2>3, <2>4
    <3>2. PICK i \in from..Len(p) : Speaks(p[i]) /\ t[1] = p[i].message /\ \A j \in from..(i - 1) : ~Speaks(p[j])
      BY <3>1, MessagesTyped DEF Kept
    <3>3. ~(budget < i)
      <4> SUFFICES ASSUME budget < i PROVE FALSE
        OBVIOUS
      <4>1. budget \in from..(i - 1)
        BY <1>1, <2>3, <2>4, <3>1, <3>2
      <4> QED
        BY <2>3, <3>2, <4>1
    <3>4. CASE i = budget
      BY <2>3, <3>2, <3>4
    <3>5. CASE i # budget
      <4>1. i \in from..(budget - 1) /\ i \in 1..Len(p)
        BY <1>1, <2>3, <2>4, <3>1, <3>2, <3>3, <3>5
      <4>2. p[i].type = "user_entry"
        BY <2>4, <3>2, <4>1 DEF Speaks
      <4>3. p[i].message = SessionMessage
        BY <1>1, <4>1, <4>2 DEF PathEntries
      <4> QED
        BY <3>2, <4>3 DEF SessionMessage, Message
    <3> QED
      BY <3>4, <3>5
  <2>7. from \in start..(Len(p) + 1)
    BY <1>1, <2>3, <2>4
  <2>8. cut.first \in start..(Len(p) + 1) /\ Clean(Kept(p, cut.first)) /\ cut.turnStart \in Nat
    BY <2>5, <2>6, <2>7
  <2> QED
    BY <2>8 DEF start, cut
<1> QED
  BY <1>2, <1>3

-----------------------------------------------------------------------------
(* A conversation that is compacted                                        *)

\* What makes KeptTranscriptIsValid inductive.
CompactionInv ==
    /\ path \in Seq(PathEntries)
    /\ pending \in Seq(Nat) /\ \A j, k \in DOMAIN pending : pending[j] = pending[k] => j = k
    /\ phase = "tools" <=> pending # <<>>
    /\ \E n \in Nat : PathCalls = 1..n
    /\ Turns(path, pending, PathCalls)

\* The ids of the calls of a path, after one more entry.
LEMMA CallsOneMore ==
    ASSUME NEW e, path \in Seq(PathEntries), e \in PathEntries, path' = Append(path, e)
    PROVE  PathCalls' = PathCalls \cup Ids(e.message.calls)
<1>1. /\ DOMAIN path' = DOMAIN path \cup {Len(path) + 1} /\ path'[Len(path) + 1] = e
      /\ \A i \in DOMAIN path : path'[i] = path[i]
  <2> DEFINE t == path
  <2>1. t \in Seq(PathEntries)
    OBVIOUS
  <2>2. DOMAIN t = 1..Len(t) /\ Len(t) \in Nat
    BY <2>1
  <2>3. Len(Append(t, e)) = Len(t) + 1 /\ DOMAIN Append(t, e) = 1..(Len(t) + 1)
        /\ Append(t, e)[Len(t) + 1] = e /\ \A i \in 1..Len(t) : Append(t, e)[i] = t[i]
    BY <2>1
  <2> QED
    BY <2>2, <2>3
<1>2. PathCalls' = UNION {Ids(path'[i].message.calls) : i \in DOMAIN path'}
  BY DEF PathCalls
<1> QED
  BY <1>1, <1>2 DEF PathCalls

\* New calls continue the numbers of those the path has.
LEMMA NewCallsAre ==
    ASSUME NEW last \in Nat, PathCalls = 1..last, NEW n \in 0..MaxPathCalls
    PROVE  /\ NewCalls(n) \in Seq(Nat) /\ (NewCalls(n) = <<>> <=> n = 0)
           /\ \A k \in DOMAIN NewCalls(n) :
                NewCalls(n)[k] # Blank /\ \A l \in DOMAIN NewCalls(n) : NewCalls(n)[k] = NewCalls(n)[l] => k = l
           /\ Ids(NewCalls(n)) \cap PathCalls = {}
           /\ \E m \in Nat : PathCalls \cup Ids(NewCalls(n)) = 1..m
<1> DEFINE calls == NewCalls(n)
<1>1. n \in Nat /\ calls = [k \in 1..n |-> last + k]
  <2>1. Cardinality(1..last) = last
    BY FS_Interval
  <2> QED
    BY <2>1, CompactionAssumption DEF NewCalls
<1> HIDE DEF calls
<1>2. calls \in Seq(Nat) /\ DOMAIN calls = 1..n /\ Len(calls) = n /\ \A k \in 1..n : calls[k] = last + k
  BY <1>1
<1>3. calls = <<>> <=> n = 0
  BY <1>1, <1>2
<1>4. \A k \in DOMAIN calls : calls[k] # Blank /\ \A l \in DOMAIN calls : calls[k] = calls[l] => k = l
  BY <1>1, <1>2 DEF Blank
<1>5. Ids(calls) = (last + 1)..(last + n)
  <2>1. Ids(calls) = {last + k : k \in 1..n}
    BY <1>2 DEF Ids
  <2>2. ASSUME NEW x \in (last + 1)..(last + n) PROVE x \in {last + k : k \in 1..n}
    <3>1. x - last \in 1..n /\ x = last + (x - last)
      BY <1>1
    <3> QED
      BY <3>1
  <2>3. \A k \in 1..n : last + k \in (last + 1)..(last + n)
    BY <1>1
  <2> QED
    BY <2>1, <2>2, <2>3
<1>6. PathCalls \cup Ids(calls) = 1..(last + n) /\ last + n \in Nat
  BY <1>1, <1>5
<1>7. Ids(calls) \cap PathCalls = {}
  BY <1>1, <1>5
<1> QED
  BY <1>2, <1>3, <1>4, <1>6, <1>7 DEF calls

\* An entry with a message.
LEMMA MessageEntries ==
    ASSUME NEW m \in AnyMessage, m.role # "hidden", NEW size \in Sizes \cup {Min(Sizes)}
    PROVE  LET e == MessageEntry(m, size)
           IN  e \in PathEntries /\ e.type = "message" /\ Speaks(e) /\ e.message = m
BY DEF MessageEntry, PathEntry, PathEntries, EntryTypes, Speaks

\* A message that calls no tool and answers no call keeps the conversation.
LEMMA PlainKept ==
    ASSUME CompactionInv, pending = <<>>, pending' = <<>>, phase' # "tools",
           NEW m \in AnyMessage, m.role \notin {"hidden", "toolResult"}, Counts(m) => m.calls = <<>>,
           \E n \in Nat : PathCalls \cup Ids(m.calls) = 1..n,
           NEW e \in PathEntries, Speaks(e), e.message = m, e.type # "compaction", path' = Append(path, e)
    PROVE  CompactionInv'
<1>1. path \in Seq(PathEntries) /\ Turns(path, <<>>, PathCalls)
  BY DEF CompactionInv
<1>2. PathCalls' = PathCalls \cup Ids(m.calls)
  BY <1>1, CallsOneMore
<1>3. LlmMessage(m) \in AnyMessage /\ LlmMessage(m).role # "toolResult" /\ (Counts(LlmMessage(m)) => LlmMessage(m).calls = <<>>)
  <2>1. User \in AnyMessage /\ User.role # "toolResult" /\ ~Counts(User)
    BY DEF User, Message, AnyMessage, Roles, Blank, Counts
  <2> QED
    BY <2>1 DEF LlmMessage
<1>4. ASSUME NEW t, Consistent(t, <<>>, PathCalls)
      PROVE  Consistent(Append(t, LlmMessage(m)), <<>>, PathCalls \cup Ids(m.calls))
  BY <1>3, <1>4, PlainConsistent
<1>5. Turns(Append(path, e), <<>>, PathCalls \cup Ids(m.calls))
  BY <1>1, <1>4, TurnsGrow
<1>6. path' \in Seq(PathEntries) /\ <<>> \in Seq(Nat) /\ DOMAIN <<>> = {}
  <2> DEFINE t == path
  <2>1. t \in Seq(PathEntries)
    BY <1>1
  <2>2. Append(t, e) \in Seq(PathEntries)
    BY <2>1
  <2> QED
    BY <2>2
<1> QED
  BY <1>2, <1>5, <1>6 DEF CompactionInv

\* A reply, whose calls have ids that the path does not use.
LEMMA CallsKept ==
    ASSUME CompactionInv, NEW n \in 0..MaxPathCalls, AddReply(n) PROVE CompactionInv'
<1> DEFINE calls == NewCalls(n)
           m == Assistant(calls)
<1>1. PICK size \in Sizes : /\ path' = Append(path, MessageEntry(m, size)) /\ pending' = calls
                            /\ phase = "request" /\ phase' = IF n = 0 THEN "idle" ELSE "tools"
  BY DEF AddReply, AddMessage, Add
<1>2. PICK last \in Nat : PathCalls = 1..last
  BY DEF CompactionInv
<1>3. path \in Seq(PathEntries) /\ Turns(path, <<>>, PathCalls) /\ pending = <<>>
  BY <1>1 DEF CompactionInv
<1>4. /\ calls \in Seq(Nat) /\ (calls = <<>> <=> n = 0) /\ Ids(calls) \cap PathCalls = {}
      /\ \A k \in DOMAIN calls : calls[k] # Blank /\ \A l \in DOMAIN calls : calls[k] = calls[l] => k = l
      /\ \E x \in Nat : PathCalls \cup Ids(calls) = 1..x
  BY <1>2, NewCallsAre
<1> HIDE DEF calls
<1>5. m \in AnyMessage /\ m.role = "assistant" /\ Counts(m) /\ m.calls = calls
  BY <1>4 DEF Assistant, Message, AnyMessage, Roles, Blank, Counts
<1> HIDE DEF m
<1> DEFINE e == MessageEntry(m, size)
<1>6. e \in PathEntries /\ e.type = "message" /\ Speaks(e) /\ e.message = m
  BY <1>5, MessageEntries
<1> HIDE DEF e
<1>7. CASE n = 0
  <2>1. phase' # "tools" /\ pending' = <<>> /\ m.calls = <<>>
    BY <1>1, <1>4, <1>5, <1>7
  <2>2. path' = Append(path, e)
    BY <1>1 DEF e
  <2>3. \E x \in Nat : PathCalls \cup Ids(m.calls) = 1..x
    BY <1>4, <1>5
  <2> QED
    BY <1>3, <1>5, <1>6, <2>1, <2>2, <2>3, PlainKept
<1>8. CASE n # 0
  <2>1. LlmMessage(m) = m
    BY <1>5 DEF LlmMessage
  <2>2. ASSUME NEW t, Consistent(t, <<>>, PathCalls)
        PROVE  Consistent(Append(t, LlmMessage(m)), calls, PathCalls \cup Ids(calls))
    <3>1. Consistent(Append(t, m), m.calls, PathCalls \cup Ids(m.calls))
      BY <1>4, <1>5, <1>8, <2>2, CallsConsistent
    <3> QED
      BY <1>5, <2>1, <3>1
  <2>3. Turns(Append(path, e), calls, PathCalls \cup Ids(calls))
    <3>1. e.type # "compaction" /\ (e.message.role = "toolResult" <=> <<>> # <<>>)
      BY <1>5, <1>6
    <3>2. \A t : Consistent(t, <<>>, PathCalls) =>
                 Consistent(Append(t, LlmMessage(e.message)), calls, PathCalls \cup Ids(calls))
      BY <1>6, <2>2
    <3> QED
      BY <1>3, <1>6, <3>1, <3>2, TurnsGrow
  <2>4. path' = Append(path, e) /\ PathCalls' = PathCalls \cup Ids(calls)
    <3>1. path' = Append(path, e)
      BY <1>1 DEF e
    <3>2. PathCalls' = PathCalls \cup Ids(e.message.calls)
      BY <1>3, <1>6, <3>1, CallsOneMore
    <3> QED
      BY <1>5, <1>6, <3>1, <3>2
  <2>5. path' \in Seq(PathEntries)
    <3> DEFINE t == path
    <3>1. t \in Seq(PathEntries)
      BY <1>3
    <3>2. Append(t, e) \in Seq(PathEntries)
      BY <1>6, <3>1
    <3> QED
      BY <2>4, <3>2
  <2>6. phase' = "tools" /\ pending' = calls /\ calls # <<>>
    BY <1>1, <1>4, <1>8
  <2>7. \A j, k \in DOMAIN calls : calls[j] = calls[k] => j = k
    BY <1>4
  <2> QED
    BY <1>4, <2>3, <2>4, <2>5, <2>6, <2>7 DEF CompactionInv
<1> QED
  BY <1>7, <1>8

\* A failed reply, whose calls are never executed and count for nothing.
LEMMA FailureKept ==
    ASSUME CompactionInv, NEW n \in 0..MaxPathCalls, AddFailedReply(n) PROVE CompactionInv'
<1> DEFINE calls == NewCalls(n)
           m == FailedAssistant(calls)
           e == MessageEntry(m, Min(Sizes))
<1>1. /\ path' = Append(path, e) /\ pending' = pending /\ phase = "request" /\ phase' = "idle"
  BY DEF AddFailedReply, Add
<1>2. PICK last \in Nat : PathCalls = 1..last
  BY DEF CompactionInv
<1>3. pending = <<>>
  BY <1>1 DEF CompactionInv
<1>4. calls \in Seq(Nat) /\ \E x \in Nat : PathCalls \cup Ids(calls) = 1..x
  BY <1>2, NewCallsAre
<1> HIDE DEF calls
<1>5. m \in AnyMessage /\ m.role = "assistant" /\ ~Counts(m) /\ m.calls = calls
  BY <1>4 DEF FailedAssistant, Message, AnyMessage, Roles, Blank, Counts
<1> HIDE DEF m
<1>6. e \in PathEntries /\ e.type = "message" /\ Speaks(e) /\ e.message = m
  BY <1>5, MessageEntries
<1> HIDE DEF e
<1>7. \E x \in Nat : PathCalls \cup Ids(m.calls) = 1..x
  BY <1>4, <1>5
<1> QED
  BY <1>1, <1>3, <1>5, <1>6, <1>7, PlainKept

\* The result of a call, in the order of the calls.
LEMMA AnswerKept == ASSUME CompactionInv, AddAnswer PROVE CompactionInv'
<1> DEFINE m == ToolResult(Head(pending))
<1>1. PICK size \in Sizes : /\ path' = Append(path, MessageEntry(m, size)) /\ pending' = Tail(pending)
                            /\ phase = "tools" /\ phase' = IF Len(pending) = 1 THEN "request" ELSE "tools"
  BY DEF AddAnswer, AddMessage, Add
<1>2. /\ path \in Seq(PathEntries) /\ Turns(path, pending, PathCalls) /\ pending \in Seq(Nat) /\ pending # <<>>
      /\ \A j, k \in DOMAIN pending : pending[j] = pending[k] => j = k
      /\ \E n \in Nat : PathCalls = 1..n
  BY <1>1 DEF CompactionInv
<1>3. /\ Head(pending) \in Nat /\ Len(pending) \in Nat /\ Len(pending) >= 1
      /\ Tail(pending) \in Seq(Nat) /\ Len(Tail(pending)) = Len(pending) - 1
      /\ \A k \in DOMAIN Tail(pending) : k + 1 \in DOMAIN pending /\ Tail(pending)[k] = pending[k + 1] /\ k \in Nat
  BY <1>2
<1>4. m \in AnyMessage /\ m.role = "toolResult" /\ Ids(m.calls) = {}
  <2>1. m \in AnyMessage /\ m.role = "toolResult" /\ m.calls = <<>>
    BY <1>3 DEF ToolResult, Message, AnyMessage, Roles
  <2> HIDE DEF m
  <2> QED
    BY <2>1 DEF Ids
<1> DEFINE e == MessageEntry(m, size)
<1>5. e \in PathEntries /\ e.type = "message" /\ Speaks(e) /\ e.message = m
  <2> HIDE DEF m
  <2> QED
    BY <1>4, MessageEntries
<1>6. path' = Append(path, e)
  BY <1>1
<1> HIDE DEF e
<1>7. ASSUME NEW t, Consistent(t, pending, PathCalls)
      PROVE  Consistent(Append(t, LlmMessage(m)), Tail(pending), PathCalls)
  <2>1. Consistent(Append(t, m), Tail(pending), PathCalls)
    BY <1>2, <1>7, ResultConsistent
  <2>2. LlmMessage(m) = m
    <3> HIDE DEF m
    <3> QED
      BY <1>4 DEF LlmMessage
  <2> QED
    BY <2>1, <2>2
<1> HIDE DEF m
<1>8. Turns(Append(path, e), Tail(pending), PathCalls)
  <2>1. e.type # "compaction" /\ (e.message.role = "toolResult" <=> pending # <<>>)
    BY <1>2, <1>4, <1>5
  <2>2. \A t : Consistent(t, pending, PathCalls) => Consistent(Append(t, LlmMessage(e.message)), Tail(pending), PathCalls)
    BY <1>5, <1>7
  <2> DEFINE left == Tail(pending)
  <2> HIDE DEF left
  <2>3. \A t : Consistent(t, pending, PathCalls) => Consistent(Append(t, LlmMessage(e.message)), left, PathCalls)
    BY <2>2 DEF left
  <2>4. Turns(Append(path, e), left, PathCalls)
    BY <1>2, <1>5, <2>1, <2>3, TurnsGrow
  <2> QED
    BY <2>4 DEF left
<1>9. PathCalls' = PathCalls
  BY <1>2, <1>4, <1>5, <1>6, CallsOneMore
<1>10. path' \in Seq(PathEntries)
  <2> DEFINE t == path
  <2>1. t \in Seq(PathEntries)
    BY <1>2
  <2>2. Append(t, e) \in Seq(PathEntries)
    BY <1>5, <2>1
  <2> QED
    BY <1>6, <2>2
<1>11. \A j, k \in DOMAIN Tail(pending) : Tail(pending)[j] = Tail(pending)[k] => j = k
  <2> SUFFICES ASSUME NEW j \in DOMAIN Tail(pending), NEW k \in DOMAIN Tail(pending),
                      Tail(pending)[j] = Tail(pending)[k]
               PROVE  j = k
    OBVIOUS
  <2>1. j + 1 = k + 1
    BY <1>2, <1>3
  <2> QED
    BY <1>3, <2>1
<1>12. phase' = "tools" <=> Tail(pending) # <<>>
  <2>1. Len(pending) = 1 <=> Tail(pending) = <<>>
    BY <1>3
  <2> QED
    BY <1>1, <2>1
<1> QED
  BY <1>1, <1>2, <1>3, <1>6, <1>8, <1>9, <1>10, <1>11, <1>12 DEF CompactionInv

\* A setting changes, during a run or between runs.
LEMMA SettingKept == ASSUME CompactionInv, ChangeSetting PROVE CompactionInv'
<1> DEFINE e == SettingEntry
<1>1. path' = Append(path, e) /\ pending' = pending /\ phase' = phase
  BY DEF ChangeSetting, Add
<1>2. path \in Seq(PathEntries) /\ Turns(path, pending, PathCalls)
  BY DEF CompactionInv
<1>3. e \in PathEntries /\ e.type = "setting" /\ ~Speaks(e) /\ e.message.calls = <<>>
  BY DEF SettingEntry, PathEntry, PathEntries, EntryTypes, Speaks, NoMessage, Message
<1> HIDE DEF e
<1>4. PathCalls' = PathCalls
  <2>1. Ids(e.message.calls) = {}
    BY <1>3 DEF Ids
  <2> QED
    BY <1>1, <1>2, <1>3, <2>1, CallsOneMore
<1>5. Turns(Append(path, e), pending, PathCalls)
  BY <1>2, <1>3, TurnsGrow
<1>6. path' \in Seq(PathEntries)
  <2> DEFINE t == path
  <2>1. t \in Seq(PathEntries)
    BY <1>2
  <2>2. Append(t, e) \in Seq(PathEntries)
    BY <1>3, <2>1
  <2> QED
    BY <1>1, <2>2
<1> QED
  BY <1>1, <1>4, <1>5, <1>6 DEF CompactionInv

\* The user's messages, between runs.
LEMMA UserKept == ASSUME CompactionInv, AddPrompt \/ AddBash \/ AddUserEntry PROVE CompactionInv'
<1>1. pending = <<>> /\ pending' = <<>> /\ phase' # "tools" /\ \E n \in Nat : PathCalls = 1..n
  BY DEF CompactionInv, AddPrompt, AddBash, AddUserEntry
<1>2. ASSUME NEW m \in {User, SessionMessage}
      PROVE  m \in AnyMessage /\ m.role \notin {"hidden", "toolResult"} /\ ~Counts(m) /\ m.calls = <<>>
  <2>1. User \in AnyMessage /\ User.role = "user" /\ User.calls = <<>>
    BY DEF User, Message, AnyMessage, Roles, Blank
  <2>2. SessionMessage \in AnyMessage /\ SessionMessage.role = "session" /\ SessionMessage.calls = <<>>
    BY DEF SessionMessage, Message, AnyMessage, Roles, Blank
  <2>3. CASE m = User
    BY <2>1, <2>3 DEF Counts
  <2>4. CASE m = SessionMessage
    BY <2>2, <2>4 DEF Counts
  <2> QED
    BY <2>3, <2>4
<1>3. PICK m \in {User, SessionMessage} : \E e \in PathEntries :
        Speaks(e) /\ e.message = m /\ e.type # "compaction" /\ path' = Append(path, e)
  <2>1. ASSUME NEW m \in {User, SessionMessage}, NEW size \in Sizes, path' = Append(path, MessageEntry(m, size))
        PROVE  \E e \in PathEntries : Speaks(e) /\ e.message = m /\ e.type # "compaction" /\ path' = Append(path, e)
    <3> DEFINE e == MessageEntry(m, size)
    <3>1. e \in PathEntries /\ e.type = "message" /\ Speaks(e) /\ e.message = m
      BY <1>2, MessageEntries
    <3> HIDE DEF e
    <3>2. path' = Append(path, e)
      BY <2>1 DEF e
    <3> QED
      BY <3>1, <3>2
  <2>2. CASE AddPrompt
    <3>1. PICK size \in Sizes : path' = Append(path, MessageEntry(User, size))
      BY <2>2 DEF AddPrompt, AddMessage, Add
    <3> QED
      BY <2>1, <3>1
  <2>3. CASE AddBash
    <3>1. PICK size \in Sizes : path' = Append(path, MessageEntry(SessionMessage, size))
      BY <2>3 DEF AddBash, AddMessage, Add
    <3> QED
      BY <2>1, <3>1
  <2>4. CASE AddUserEntry
    <3>1. path' = Append(path, UserEntry)
      BY <2>4 DEF AddUserEntry, Add
    <3>2. SessionMessage \in AnyMessage /\ SessionMessage.role # "hidden"
      BY <1>2
    <3>3. /\ UserEntry \in PathEntries /\ Speaks(UserEntry)
          /\ UserEntry.message = SessionMessage /\ UserEntry.type # "compaction"
      BY <3>2 DEF UserEntry, PathEntry, PathEntries, EntryTypes, Speaks
    <3> QED
      BY <3>1, <3>3
  <2> QED
    BY <2>2, <2>3, <2>4
<1>4. PICK e \in PathEntries : Speaks(e) /\ e.message = m /\ e.type # "compaction" /\ path' = Append(path, e)
  BY <1>3
<1>5. m \in AnyMessage /\ m.role \notin {"hidden", "toolResult"} /\ ~Counts(m) /\ m.calls = <<>>
  BY <1>2
<1>6. \E n \in Nat : PathCalls \cup Ids(m.calls) = 1..n
  <2>1. Ids(m.calls) = {}
    BY <1>5 DEF Ids
  <2> QED
    BY <1>1, <2>1
<1> QED
  BY <1>1, <1>4, <1>5, <1>6, PlainKept

\* The compaction that Compact appends.
LEMMA CompactAppends ==
    ASSUME CompactionInv, Compact
    PROVE  LET start == LastCompaction(path) + 1
               cut == FindCutPoint(path, start)
               e == CompactionEntry(cut.first, Covered(path, start, cut))
           IN  /\ path' = Append(path, e) /\ e.type = "compaction" /\ e.first = cut.first
               /\ e.covers = Covered(path, start, cut) /\ e.message.calls = <<>>
               /\ cut.first \in start..(Len(path) + 1) /\ cut.turnStart \in Nat /\ start \in Nat \ {0}
               /\ Clean(Kept(path, cut.first)) /\ e \in PathEntries
               /\ pending = <<>> /\ pending' = <<>> /\ phase' = "idle"
<1> DEFINE start == LastCompaction(path) + 1
           cut == FindCutPoint(path, start)
           covers == Covered(path, start, cut)
           e == CompactionEntry(cut.first, covers)
<1>1. path \in Seq(PathEntries) /\ Turns(path, pending, PathCalls)
  BY DEF CompactionInv
<1>2. path' = Append(path, e) /\ phase = "idle" /\ phase' = phase /\ pending' = pending
  BY DEF Compact, Add
<1>3. pending = <<>>
  BY <1>2 DEF CompactionInv
<1>4. cut.first \in start..(Len(path) + 1) /\ Clean(Kept(path, cut.first)) /\ cut.turnStart \in Nat
  BY <1>1, CutIsClean DEF Turns
<1>5. Len(path) \in Nat /\ start \in 1..(Len(path) + 1) /\ \A i \in 1..Len(path) : path[i] \in PathEntries
  <2> DEFINE t == path
  <2>1. t \in Seq(PathEntries)
    BY <1>1
  <2>2. Len(t) \in Nat /\ \A i \in 1..Len(t) : t[i] \in PathEntries
    BY <2>1
  <2> QED
    BY <1>1, <2>2, LastCompactionIs
<1> HIDE DEF cut, start
<1>6. covers \in SUBSET Nat
  <2>1. \A from, to \in Nat : Producing(path, from, to - 1) \subseteq Nat
    BY DEF Producing
  <2>2. start # 1 => path[start - 1].covers \subseteq Nat
    <3> SUFFICES ASSUME start # 1 PROVE path[start - 1].covers \subseteq Nat
      OBVIOUS
    <3>1. start - 1 \in 1..Len(path)
      BY <1>5
    <3> QED
      BY <1>5, <3>1 DEF PathEntries
  <2>3. cut.first \in Nat
    BY <1>4, <1>5
  <2>4. Producing(path, cut.turnStart, cut.first - 1) \subseteq Nat
    BY <1>4, <2>1, <2>3
  <2>5. \A to \in Nat : Producing(path, start, to - 1) \subseteq Nat
    BY <1>5, <2>1
  <2> QED
    BY <1>4, <2>2, <2>3, <2>4, <2>5 DEF Covered
<1> HIDE DEF covers
<1>7. /\ e \in PathEntries /\ e.type = "compaction" /\ e.first = cut.first /\ e.covers = covers
      /\ e.message.calls = <<>>
  <2>1. SessionMessage \in AnyMessage /\ SessionMessage.calls = <<>>
    BY DEF SessionMessage, Message, AnyMessage, Roles, Blank
  <2>2. cut.first \in Nat /\ cut.first # 0
    BY <1>4, <1>5
  <2> QED
    BY <1>6, <2>1, <2>2 DEF CompactionEntry, PathEntry, PathEntries, EntryTypes, Speaks
<1>8. start \in Nat \ {0}
  BY <1>5
<1> QED
  BY <1>2, <1>3, <1>4, <1>7, <1>8 DEF cut, start, covers

\* A compaction: what it keeps begins at a clean cut.
LEMMA CompactKept == ASSUME CompactionInv, Compact PROVE CompactionInv'
<1>1. PICK e \in PathEntries :
         /\ path' = Append(path, e) /\ e.type = "compaction" /\ e.message.calls = <<>>
         /\ e.first \in (LastCompaction(path) + 1)..(Len(path) + 1) /\ Clean(Kept(path, e.first))
         /\ pending = <<>> /\ pending' = <<>> /\ phase' = "idle"
  BY CompactAppends
<1>2. path \in Seq(PathEntries) /\ Turns(path, <<>>, PathCalls) /\ \E n \in Nat : PathCalls = 1..n
  BY <1>1 DEF CompactionInv
<1>3. PathCalls' = PathCalls
  <2>1. Ids(e.message.calls) = {}
    BY <1>1 DEF Ids
  <2> QED
    BY <1>1, <1>2, <2>1, CallsOneMore
<1>4. Turns(Append(path, e), <<>>, PathCalls)
  BY <1>1, <1>2, TurnsCut
<1>5. path' \in Seq(PathEntries) /\ <<>> \in Seq(Nat) /\ DOMAIN <<>> = {}
  <2> DEFINE t == path
  <2>1. t \in Seq(PathEntries)
    BY <1>2
  <2>2. Append(t, e) \in Seq(PathEntries)
    BY <2>1
  <2> QED
    BY <1>1, <2>2
<1> QED
  BY <1>1, <1>2, <1>3, <1>4, <1>5 DEF CompactionInv

\* An empty path is consistent.
LEMMA EmptyTurns == Turns(<<>>, <<>>, {})
<1> DEFINE t == <<>>
<1>1. t \in Seq(PathEntries) /\ t \in Seq(Nat) /\ DOMAIN t = {} /\ Len(t) = 0
  OBVIOUS
<1>2. LastCompaction(t) = 0
  <2> HIDE DEF t
  <2>1. LastCompaction(t) \in 0..Len(t)
    BY <1>1, LastCompactionIs
  <2> QED
    BY <1>1, <2>1
<1>3. MessagesOf(t, 1, 0) = <<>>
  <2>1. 1 \in Nat \ {0} /\ 0 \in 0..Len(t) /\ 0 < 1
    BY <1>1
  <2> QED
    BY <1>1, <2>1, MessagesNext
<1>5. RawContext(t) = <<>> /\ Kept(t, 1) = <<>>
  BY <1>1, <1>2, <1>3 DEF RawContext, Kept
<1>6. AsLlm(<<>>) = <<>>
  BY DEF AsLlm
<1>7. Consistent(<<>>, <<>>, {})
  BY NothingConsistent
<1>8. LastCompaction(t) + 1 = 1 /\ Len(t) + 1 = 1 /\ \A from \in 1..1 : from = 1
  BY <1>1, <1>2
<1> QED
  BY <1>5, <1>6, <1>7, <1>8 DEF Turns, Clean

\* A session starts with an empty conversation.
LEMMA EmptyConversation ==
    ASSUME path = <<>>, pending = <<>>, phase # "tools"
    PROVE  CompactionInv /\ FirstCompactionRemembers
<1>1. DOMAIN path = {} /\ path \in Seq(PathEntries) /\ pending \in Seq(Nat)
  OBVIOUS
<1>2. PathCalls = {} /\ {} = 1..0 /\ Compactions = {}
  BY <1>1 DEF PathCalls, Compactions
<1> QED
  BY <1>1, <1>2, EmptyTurns DEF CompactionInv, FirstCompactionRemembers

-----------------------------------------------------------------------------
(* What the first compaction remembers                                     *)

\* An entry more: what was remembered still is, and a first compaction must remember all.
LEMMA FirstRemembers ==
    ASSUME path \in Seq(PathEntries), FirstCompactionRemembers,
           NEW e \in PathEntries, path' = Append(path, e),
           (e.type = "compaction" /\ Compactions = {}) =>
               \A i \in Producing(path, 1, Len(path)) : i >= e.first \/ i \in e.covers
    PROVE  FirstCompactionRemembers'
<1> DEFINE n == Len(path)
<1>1. /\ n \in Nat /\ DOMAIN path = 1..n /\ DOMAIN path' = 1..(n + 1) /\ path'[n + 1] = e
      /\ \A i \in 1..n : path'[i] = path[i]
  <2> DEFINE t == path
             u == Append(path, e)
  <2>1. t \in Seq(PathEntries)
    OBVIOUS
  <2>2. /\ Len(t) \in Nat /\ DOMAIN t = 1..Len(t) /\ DOMAIN u = 1..(Len(t) + 1) /\ u[Len(t) + 1] = e
        /\ \A i \in 1..Len(t) : u[i] = t[i]
    BY <2>1
  <2> QED
    BY <2>2
<1> HIDE DEF n
<1>2. Compactions' = Compactions \cup (IF e.type = "compaction" THEN {n + 1} ELSE {})
  BY <1>1 DEF Compactions
<1>3. Compactions \subseteq 1..n
  BY <1>1 DEF Compactions
<1> SUFFICES ASSUME NEW c \in Compactions', Cardinality({d \in Compactions' : d <= c}) = 1,
                    NEW i \in Producing(path', 1, c - 1)
             PROVE  i >= path'[c].first \/ i \in path'[c].covers
  BY DEF FirstCompactionRemembers, Remembered
<1>4. i \in 1..(c - 1) /\ path'[i].type \in {"message", "user_entry"}
  BY DEF Producing
<1>5. CASE c \in Compactions
  <2>0. c \in 1..n
    BY <1>3, <1>5
  <2>1a. i \in 1..n
    BY <1>1, <1>4, <2>0
  <2>1. c \in 1..n /\ i \in 1..n /\ path'[c] = path[c] /\ path'[i] = path[i]
    BY <1>1, <2>0, <2>1a
  <2>2. {d \in Compactions' : d <= c} = {d \in Compactions : d <= c}
    BY <1>1, <1>2, <2>1
  <2>3. i \in Producing(path, 1, c - 1)
    BY <1>4, <2>1 DEF Producing
  <2> QED
    BY <1>5, <2>1, <2>2, <2>3 DEF FirstCompactionRemembers, Remembered
<1>6. CASE c = n + 1 /\ e.type = "compaction"
  <2>0. Compactions' = Compactions \cup {c}
    BY <1>2, <1>6
  <2>0a. \A d \in Compactions \cup {c} : d <= c
    <3>1. \A d \in Compactions : d \in 1..n
      BY <1>3
    <3>2. \A d \in 1..n : d <= n + 1
      BY <1>1
    <3>3. n + 1 <= n + 1
      BY <1>1
    <3> QED
      BY <1>6, <3>1, <3>2, <3>3
  <2>1. {d \in Compactions' : d <= c} = Compactions \cup {c}
    BY <2>0, <2>0a
  <2>2. PICK x : Compactions \cup {c} = {x}
    <3>1. 1 \in Int /\ n + 1 \in Int
      BY <1>1
    <3>2a. IsFiniteSet(1..(n + 1))
      BY <3>1, FS_Interval
    <3>2b. 1..n \subseteq 1..(n + 1) /\ n + 1 \in 1..(n + 1)
      BY <1>1
    <3>2c. Compactions \cup {c} \in SUBSET (1..(n + 1))
      BY <1>3, <1>6, <3>2b
    <3>2. IsFiniteSet(Compactions \cup {c})
      BY <3>2a, <3>2c, FS_Subset
    <3> QED
      BY <2>1, <3>2, FS_Singleton
  <2>3. Compactions = {}
    BY <1>1, <1>3, <1>6, <2>2
  <2>4. i \in Producing(path, 1, n)
    BY <1>1, <1>4, <1>6 DEF Producing
  <2> QED
    BY <1>1, <1>6, <2>3, <2>4 DEF n
<1> QED
  BY <1>2, <1>5, <1>6

\* The entries before the cut are summarised, split turn or not.
LEMMA CoveredRemembers ==
    ASSUME NEW p, NEW cut, cut.first \in Nat, cut.turnStart \in Nat
    PROVE  \A i \in Producing(p, 1, Len(p)) : i >= cut.first \/ i \in Covered(p, 1, cut)
<1> SUFFICES ASSUME NEW i \in Producing(p, 1, Len(p)), ~(i >= cut.first)
             PROVE  i \in Covered(p, 1, cut)
  OBVIOUS
<1>1. i \in Nat /\ i >= 1 /\ i < cut.first /\ p[i].type \in {"message", "user_entry"}
  BY DEF Producing
<1>2. CASE cut.turnStart = 0
  <2>1. i \in Producing(p, 1, cut.first - 1)
    BY <1>1 DEF Producing
  <2> QED
    BY <1>2, <2>1 DEF Covered
<1>3. CASE cut.turnStart # 0
  <2> DEFINE history == Producing(p, 1, cut.turnStart - 1)
             prefix == Producing(p, cut.turnStart, cut.first - 1)
  <2>1. i \in history \/ i \in prefix
    <3>1. CASE i < cut.turnStart
      BY <1>1, <3>1 DEF Producing
    <3>2. CASE ~(i < cut.turnStart)
      BY <1>1, <3>2 DEF Producing
    <3> QED
      BY <3>1, <3>2
  <2>2. Covered(p, 1, cut) = IF prefix # {} /\ history = {} THEN prefix ELSE history \cup prefix \cup {}
    BY <1>3 DEF Covered
  <2> HIDE DEF history, prefix
  <2> QED
    BY <2>1, <2>2
<1> QED
  BY <1>2, <1>3

-----------------------------------------------------------------------------
(* The theorem                                                             *)

\* Every step keeps the turns of the path whole and what was remembered remembered.
LEMMA CompactionKept ==
    ASSUME CompactionInv, FirstCompactionRemembers, [CompactionNext]_compactionVars
    PROVE  CompactionInv' /\ FirstCompactionRemembers'
<1>p. path \in Seq(PathEntries)
  BY DEF CompactionInv
<1>1. ASSUME NEW e, path' = Append(path, e), e.type # "compaction", e \in PathEntries
      PROVE  FirstCompactionRemembers'
  BY <1>1, <1>p, FirstRemembers
<1>2. ASSUME CompactionInv', NEW e, path' = Append(path, e), e.type # "compaction"
      PROVE  e \in PathEntries
  <2>1. path' \in Seq(PathEntries)
    BY <1>2 DEF CompactionInv
  <2> DEFINE t == path
             u == path'
  <2>2. u \in Seq(PathEntries) /\ t \in Seq(PathEntries) /\ u = Append(t, e)
    BY <1>2, <1>p, <2>1
  <2> HIDE DEF t, u
  <2>3. u[Len(t) + 1] = e /\ Len(u) = Len(t) + 1 /\ Len(t) + 1 \in DOMAIN u
    BY <2>2
  <2>4. \A i \in DOMAIN u : u[i] \in PathEntries
    BY <2>2
  <2> QED
    BY <2>3, <2>4
<1>3. ASSUME NEW m, NEW size PROVE MessageEntry(m, size).type # "compaction"
  BY DEF MessageEntry, PathEntry
<1>4. SettingEntry.type # "compaction" /\ UserEntry.type # "compaction"
  BY DEF SettingEntry, UserEntry, PathEntry
<1>5. CASE AddPrompt \/ AddBash \/ AddUserEntry
  <2>1. CompactionInv'
    BY <1>5, UserKept
  <2>2. \E e : path' = Append(path, e) /\ e.type # "compaction"
    BY <1>3, <1>4, <1>5 DEF AddPrompt, AddBash, AddUserEntry, AddMessage, Add
  <2> QED
    BY <1>1, <1>2, <2>1, <2>2
<1>6. CASE AddAnswer
  <2>1. CompactionInv'
    BY <1>6, AnswerKept
  <2>2. \E e : path' = Append(path, e) /\ e.type # "compaction"
    BY <1>3, <1>6 DEF AddAnswer, AddMessage, Add
  <2> QED
    BY <1>1, <1>2, <2>1, <2>2
<1>7. ASSUME NEW n \in 0..MaxPathCalls, AddReply(n) \/ AddFailedReply(n)
      PROVE  CompactionInv' /\ FirstCompactionRemembers'
  <2>1. CompactionInv'
    BY <1>7, CallsKept, FailureKept
  <2>2. \E e : path' = Append(path, e) /\ e.type # "compaction"
    BY <1>3, <1>7 DEF AddReply, AddFailedReply, AddMessage, Add
  <2> QED
    BY <1>1, <1>2, <2>1, <2>2
<1>8. CASE ChangeSetting
  <2>1. CompactionInv'
    BY <1>8, SettingKept
  <2>2. path' = Append(path, SettingEntry)
    BY <1>8 DEF ChangeSetting, Add
  <2> QED
    BY <1>1, <1>2, <1>4, <2>1, <2>2
<1>9. CASE Compact
  <2> DEFINE start == LastCompaction(path) + 1
             cut == FindCutPoint(path, start)
             e == CompactionEntry(cut.first, Covered(path, start, cut))
  <2>1. /\ path' = Append(path, e) /\ e.type = "compaction" /\ e.first = cut.first /\ e.covers = Covered(path, start, cut)
        /\ e \in PathEntries /\ cut.turnStart \in Nat /\ cut.first \in start..(Len(path) + 1) /\ start \in Nat
    BY <1>9, CompactAppends
  <2>2. Compactions = {} => start = 1
    <3> DEFINE t == path
    <3>1. t \in Seq(PathEntries)
      BY <1>p
    <3>2. DOMAIN t = 1..Len(t)
      BY <3>1
    <3>3. LastCompaction(path) \in 0..Len(path) /\ (LastCompaction(path) # 0 => path[LastCompaction(path)].type = "compaction")
      BY <1>p, LastCompactionIs
    <3> QED
      BY <3>2, <3>3 DEF Compactions
  <2>3. cut.first \in Nat
    BY <2>1
  <2> HIDE DEF cut, e, start
  <2>4. Compactions = {} => \A i \in Producing(path, 1, Len(path)) : i >= e.first \/ i \in e.covers
    BY <2>1, <2>2, <2>3, CoveredRemembers
  <2> QED
    BY <1>9, <1>p, <2>1, <2>4, CompactKept, FirstRemembers
<1>10. CASE ClearPath
  <2>1. path' = <<>> /\ pending' = <<>> /\ phase' = "idle"
    BY <1>10 DEF ClearPath
  <2>2. DOMAIN path' = {} /\ path' \in Seq(PathEntries) /\ pending' \in Seq(Nat)
    BY <2>1
  <2>3. PathCalls' = {} /\ {} = 1..0 /\ Compactions' = {}
    BY <2>2 DEF PathCalls, Compactions
  <2> QED
    BY <2>1, <2>2, <2>3, EmptyTurns DEF CompactionInv, FirstCompactionRemembers
<1>11. CASE UNCHANGED compactionVars
  <2>1. Turns(path', pending', PathCalls') = Turns(path, pending, PathCalls) /\ PathCalls' = PathCalls
    BY <1>11 DEF compactionVars, PathCalls
  <2>2. CompactionInv'
    BY <1>11, <2>1 DEF compactionVars, CompactionInv
  <2>3. FirstCompactionRemembers'
    BY <1>11 DEF compactionVars, FirstCompactionRemembers, Compactions, Producing, Remembered
  <2> QED
    BY <2>2, <2>3
<1> QED
  BY <1>5, <1>6, <1>7, <1>8, <1>9, <1>10, <1>11 DEF CompactionNext

\* An initial session is empty.
LEMMA CompactionStarts == ASSUME CompactionInit PROVE CompactionInv /\ FirstCompactionRemembers
<1>1. path = <<>> /\ pending = <<>> /\ phase # "tools"
  BY DEF CompactionInit
<1> QED
  BY <1>1, EmptyConversation

\* When no run is active no call waits, and the messages the model is sent are well formed.
LEMMA KeptIsValid == ASSUME CompactionInv PROVE KeptTranscriptIsValid
<1> SUFFICES ASSUME phase = "idle" PROVE ValidTranscript(ConvertToLlm(RawContext(path)))
  BY DEF KeptTranscriptIsValid
<1> DEFINE sent == AsLlm(RawContext(path))
<1>1. pending = <<>> /\ path \in Seq(PathEntries) /\ Consistent(sent, pending, PathCalls)
  BY DEF CompactionInv, Turns
<1>2. RawContext(path) \in Seq(AnyMessage) /\ \A i \in DOMAIN RawContext(path) : RawContext(path)[i].role # "hidden"
  <2>1. SettingEntry \in PathEntries /\ SettingEntry.type # "compaction"
    BY DEF SettingEntry, PathEntry, PathEntries, EntryTypes, Speaks, NoMessage, Message
  <2> QED
    BY <1>1, <2>1, ContextGrows
<1>3. ConvertToLlm(RawContext(path)) = sent
  BY <1>2, ConvertsToUsers
<1>4. sent \in Seq(AnyMessage) /\ Coherent(sent) /\ Pending(sent) = {}
  <2>1. Ids(<<>>) = {}
    BY DEF Ids
  <2> QED
    BY <1>1, <2>1 DEF Consistent
<1> HIDE DEF sent
<1>5. Stranded(sent) = {}
  <2>1. Callers(sent) \subseteq DOMAIN sent /\ \A i \in DOMAIN sent : sent[i].calls \in Seq(Nat)
    <3>1. \A i \in DOMAIN sent : sent[i] \in AnyMessage
      BY <1>4
    <3>2. \A m \in AnyMessage : m.calls \in Seq(Nat)
      BY DEF AnyMessage
    <3> QED
      BY <3>1, <3>2 DEF Callers
  <2>2. \A i \in Callers(sent) : Ids(sent[i].calls) \subseteq Nat
    <3> SUFFICES ASSUME NEW i \in Callers(sent) PROVE Ids(sent[i].calls) \subseteq Nat
      OBVIOUS
    <3> DEFINE calls == sent[i].calls
    <3>1. calls \in Seq(Nat)
      BY <2>1
    <3> HIDE DEF calls
    <3>2. \A k \in DOMAIN calls : calls[k] \in Nat
      BY <3>1
    <3> QED
      BY <3>2 DEF Ids, calls
  <2> QED
    BY <1>4, <2>2 DEF Stranded, Pending, Called
<1>6. WellFormed(sent)
  BY <1>4, <1>5, SaidIsWellFormed
<1>7. ValidTranscript(sent)
  BY <1>4, <1>6, AcceptedMeansWellFormed
<1> QED
  BY <1>3, <1>7 DEF sent

\* What findCutPoint, prepareCompaction and buildSessionContext make of a conversation of
\* any length, with messages of any size, any budget of recent tokens and any number of
\* compactions: between runs the messages that are sent are well formed, and the first
\* compaction keeps or summarises every message before it.
THEOREM CompactionsAreSound == CompactionSpec => []CompactionIsSound
<1>1. CompactionInit => CompactionInv /\ FirstCompactionRemembers
  BY CompactionStarts
<1>2. CompactionInv /\ FirstCompactionRemembers /\ [CompactionNext]_compactionVars
      => CompactionInv' /\ FirstCompactionRemembers'
  BY CompactionKept
<1>3. CompactionInv => KeptTranscriptIsValid
  BY KeptIsValid
<1> QED
  BY <1>1, <1>2, <1>3, PTL DEF CompactionSpec, CompactionIsSound
====
