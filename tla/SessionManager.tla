--------------------------- MODULE SessionManager ---------------------------
(***************************************************************************)
(* packages/coding-agent/src/core/session-manager.ts: the tree of session  *)
(* entries, the leaf that new entries are attached to, the labels, and the *)
(* append-only JSONL file that keeps them across processes.                *)
(*                                                                         *)
(* One process at a time owns a SessionManager.  Its methods are           *)
(* synchronous, so they never interleave; but the lines a method writes    *)
(* reach the file one at a time (appendFileSync per line, or writeFileSync *)
(* after truncating), and the process may die between any two of them.     *)
(* The methods are operators on the manager's record; what they hand to    *)
(* the file system waits in its field writing.                             *)
(*                                                                         *)
(* Entries keep what the tree and the file tell apart: type (an assistant  *)
(* message, a label, or anything else that append* adds), id, parentId and *)
(* the target and label of a label entry.  The manager persists: one made  *)
(* by SessionManager.inMemory() has no file and is not modelled.           *)
(***************************************************************************)
EXTENDS Integers, Sequences, SequencesExt, FiniteSetsExt

CONSTANTS
    Labels,        \* the labels a user may set
    NoLabel,       \* label of an entry that clears one, and of no label entry
    MaxFiles,      \* bound on the session files
    MaxLines,      \* bound on fileEntries and on the lines of a file
    InitialDisks,  \* the file systems a behaviour may start with
    TornWrites     \* may a crash leave half a line?

ASSUME FileAssumption ==
    /\ MaxFiles \in Nat /\ MaxLines \in Nat
    /\ NoLabel \notin Labels
    /\ TornWrites \in BOOLEAN

\* A file is a sequence of lines.
ASSUME DisksAssumption ==
    \A d \in InitialDisks :
        DOMAIN d \subseteq 1..MaxFiles /\ \A f \in DOMAIN d : d[f] \in Seq(ToSet(d[f]))

VARIABLES
    disk,   \* the session files that exist, each the sequence of its lines
    mgr,    \* fields of the SessionManager
    up      \* is a process running?

vars == <<disk, mgr, up>>

CURRENT_SESSION_VERSION == 3
Files == 1..MaxFiles
Null == 0             \* the parentId and the leafId null
IdPool == 1..(2 * MaxLines)

Header(version) == [type |-> "session", version |-> version]
Entry(type, id, parent, target, label) ==
    [type |-> type, id |-> id, parentId |-> parent, targetId |-> target, label |-> label]
TornLine == [type |-> "torn"]      \* a line JSON.parse rejects

IsEntry(line) == line.type \in {"assistant", "other", "label"}
EntriesOf(lines) == SelectSeq(lines, IsEntry)
EntryIds(lines) == {e.id : e \in ToSet(EntriesOf(lines))}
HasAssistant(lines) == \E e \in ToSet(lines) : e.type = "assistant"

-----------------------------------------------------------------------------
(* Reading a file *)

\* loadEntriesFromFile: nothing at all unless every line parses and the first
\* is a header.
Load(lines) ==
    IF lines = <<>> \/ TornLine \in ToSet(lines) \/ lines[1].type # "session"
      THEN <<>> ELSE lines

\* isValidSessionFile reads the first line only.
IsValidSessionFile(lines) == lines # <<>> /\ lines[1].type = "session"

\* migrateToCurrentVersion: version 1 has no ids and is linked in file order,
\* version 2 differs from 3 in the name of a role.
MigrateToCurrentVersion(lines) ==
    LET linked == [i \in DOMAIN lines |->
            IF IsEntry(lines[i])
              THEN LET before == {j \in 1..(i - 1) : IsEntry(lines[j])}
                   IN  [lines[i] EXCEPT !.id = i,
                            !.parentId = IF before = {} THEN Null ELSE Max(before)]
              ELSE lines[i]]
        tree == IF lines[1].version < 2 THEN linked ELSE lines
    IN  [i \in DOMAIN tree |->
            IF IsEntry(tree[i]) THEN tree[i] ELSE Header(CURRENT_SESSION_VERSION)]

NeedsMigration(lines) == lines[1].version < CURRENT_SESSION_VERSION

-----------------------------------------------------------------------------
(* The index: byId, labelsById (a Map, in insertion order) and leafId *)

\* The last entry with an id is the one Map.set leaves.
ById(lines) ==
    [id \in EntryIds(lines) |->
        lines[SelectLastInSeq(lines, LAMBDA e : IsEntry(e) /\ e.id = id)]]

SetLabel(labels, target, label) ==
    LET others == SelectSeq(labels, LAMBDA p : p[1] # target)
        known == \E i \in DOMAIN labels : labels[i][1] = target
    IN  IF label = NoLabel THEN others
        ELSE IF known THEN [i \in DOMAIN labels |->
                              IF labels[i][1] = target THEN <<target, label>> ELSE labels[i]]
        ELSE Append(labels, <<target, label>>)

LabelsOf(lines) ==
    FoldLeft(LAMBDA labels, e :
                 IF e.type = "label" THEN SetLabel(labels, e.targetId, e.label) ELSE labels,
             <<>>, lines)

LastId(lines) ==
    LET entries == EntriesOf(lines)
    IN  IF entries = <<>> THEN Null ELSE Last(entries).id

\* _buildIndex
BuildIndex(m) ==
    [m EXCEPT !.leafId = LastId(m.fileEntries), !.labelsById = LabelsOf(m.fileEntries)]

\* getBranch: from an entry up to the first one whose parent is null or unknown.
GetBranch(lines, from) ==
    LET byId == ById(lines)
        path[id \in Nat] ==
            IF id # Null /\ id \in DOMAIN byId
              THEN Append(path[byId[id].parentId], byId[id])
              ELSE <<>>
    IN  path[from]

\* Mutant: ids are counted.
FreshId_Counted(lines) == Len(EntriesOf(lines)) + 1

\* generateId: an id no entry has.  (A collision with the id of an entry of
\* another file is harmless, one with a parentId has probability 2^-32.)
FreshId(lines) ==
    Min(IdPool \ (EntryIds(lines) \cup {e.parentId : e \in ToSet(EntriesOf(lines))}))

-----------------------------------------------------------------------------
(* The methods, as operators on the manager *)

\* A file name carries a timestamp and a uuid: no file has it yet.
NewFile == Min(Files \ DOMAIN disk)
CanName == Files \ DOMAIN disk # {}

NewManager(file) ==
    [fileEntries |-> <<Header(CURRENT_SESSION_VERSION)>>, leafId |-> Null,
     labelsById |-> <<>>, flushed |-> FALSE,
     sessionFile |-> file, writing |-> <<>>]

\* Mutants: entries written before the first assistant are forgotten; only the
\* new entry is written, whatever was held back.
PersistEntry_NoFlush(m, e) ==
    IF ~HasAssistant(m.fileEntries) THEN m
    ELSE [m EXCEPT !.writing = Append(@, e), !.flushed = TRUE]

\* _persist: nothing is written before the first assistant message; that one
\* writes everything held back.
PersistEntry(m, e) ==
    IF ~HasAssistant(m.fileEntries) THEN [m EXCEPT !.flushed = FALSE]
    ELSE IF ~m.flushed THEN [m EXCEPT !.writing = @ \o m.fileEntries, !.flushed = TRUE]
    ELSE [m EXCEPT !.writing = Append(@, e)]

\* _appendEntry
AppendEntry(m, e) ==
    PersistEntry([m EXCEPT !.fileEntries = Append(@, e), !.leafId = e.id], e)

\* Mutant: the first element of the path is taken for the header.
BranchedEntries_NoRoot(m, leaf) == Tail(GetBranch(m.fileEntries, leaf))

\* The path to an entry without its labels, then one label entry for each label
\* of an entry on it, in a chain (createBranchedSession).
BranchedEntries(m, leaf) ==
    LET path == SelectSeq(GetBranch(m.fileEntries, leaf), LAMBDA e : e.type # "label")
        labels == SelectSeq(m.labelsById, LAMBDA p : p[1] \in EntryIds(path))
    IN  FoldLeft(LAMBDA es, p :
                     Append(es, Entry("label", FreshId(es), LastId(es), p[1], p[2])),
                 path, labels)

\* The disk once a file holds these lines.
WithFile(f, lines) == [g \in DOMAIN disk \cup {f} |-> IF g = f THEN lines ELSE disk[g]]

\* What a line is appended to: appendFileSync creates a file that does not exist.
LinesOf(f) == IF f \in DOMAIN disk THEN disk[f] ELSE <<>>

\* _rewriteFile: the file is truncated, then its lines are written.
Rewrite(m) == [m EXCEPT !.writing = m.fileEntries]
Truncated(m) == WithFile(m.sessionFile, <<>>)

-----------------------------------------------------------------------------
(* Actions *)

NoManager == [NewManager(Null) EXCEPT !.fileEntries = <<>>]

SessionInit == disk \in InitialDisks /\ mgr = NoManager /\ up = FALSE

\* No method is running: nothing waits to be written.
Idle == up /\ mgr.writing = <<>>

\* The file system takes one line of what the running method writes.
WriteLine ==
    /\ up /\ mgr.writing # <<>>
    /\ disk' = WithFile(mgr.sessionFile, Append(LinesOf(mgr.sessionFile), Head(mgr.writing)))
    /\ mgr' = [mgr EXCEPT !.writing = Tail(@)]
    /\ UNCHANGED up

\* appendMessage, appendThinkingLevelChange, appendModelChange, appendCompaction,
\* appendCustomEntry, appendSessionInfo, appendCustomMessageEntry: a child of the
\* leaf becomes the leaf.
AppendChild(type) ==
    /\ Idle /\ Len(mgr.fileEntries) < MaxLines
    /\ mgr' = AppendEntry(mgr, Entry(type, FreshId(mgr.fileEntries), mgr.leafId, Null, NoLabel))
    /\ UNCHANGED <<disk, up>>

AppendLabelChange(target, label) ==
    /\ Idle /\ Len(mgr.fileEntries) < MaxLines
    /\ LET m == AppendEntry(mgr, Entry("label", FreshId(mgr.fileEntries), mgr.leafId, target, label))
       IN  mgr' = [m EXCEPT !.labelsById = SetLabel(@, target, label)]
    /\ UNCHANGED <<disk, up>>

Branch(id) ==
    /\ Idle /\ mgr' = [mgr EXCEPT !.leafId = id]
    /\ UNCHANGED <<disk, up>>

ResetLeaf ==
    /\ Idle /\ mgr' = [mgr EXCEPT !.leafId = Null]
    /\ UNCHANGED <<disk, up>>

\* branchWithSummary, from an entry or from before the first one.
BranchWithSummary(from) ==
    /\ Idle /\ Len(mgr.fileEntries) < MaxLines
    /\ mgr' = AppendEntry([mgr EXCEPT !.leafId = from],
                          Entry("other", FreshId(mgr.fileEntries), from, Null, NoLabel))
    /\ UNCHANGED <<disk, up>>

\* Mutant: the branched session is written over the session it comes from.
CreateBranchedSession_SameFile(leaf) ==
    /\ Idle /\ CanName
    /\ LET entries == <<Header(CURRENT_SESSION_VERSION)>> \o BranchedEntries(mgr, leaf)
           m == BuildIndex([mgr EXCEPT !.fileEntries = entries])
           now == HasAssistant(entries)
       IN  /\ mgr' = IF now THEN [Rewrite(m) EXCEPT !.flushed = TRUE] ELSE m
           /\ disk' = IF now THEN Truncated(m) ELSE disk
    /\ UNCHANGED up

\* The path to an entry becomes a session of its own.  Its file is written at
\* once if it has an assistant message, and left to _persist otherwise.
CreateBranchedSession(leaf) ==
    /\ Idle /\ CanName
    /\ LET entries == <<Header(CURRENT_SESSION_VERSION)>> \o BranchedEntries(mgr, leaf)
           m == BuildIndex([mgr EXCEPT !.fileEntries = entries, !.sessionFile = NewFile])
           now == HasAssistant(entries)
       IN  /\ mgr' = IF now THEN [Rewrite(m) EXCEPT !.flushed = TRUE]
                     ELSE [m EXCEPT !.flushed = FALSE]
           /\ disk' = IF now THEN Truncated(m) ELSE disk
    /\ UNCHANGED up

NewSession ==
    /\ Idle /\ CanName
    /\ mgr' = NewManager(NewFile)
    /\ UNCHANGED <<disk, up>>

\* setSessionFile: a missing file is a new session under that name; an empty or
\* unreadable one is truncated and started afresh; an old one is migrated.
SetSessionFile(f) ==
    LET fresh == NewManager(f)
        lines == IF f \in DOMAIN disk THEN Load(disk[f]) ELSE <<>>
        entries == IF NeedsMigration(lines) THEN MigrateToCurrentVersion(lines) ELSE lines
        loaded == BuildIndex([fresh EXCEPT !.fileEntries = entries, !.flushed = TRUE])
    IN  IF f \notin DOMAIN disk THEN mgr' = fresh /\ UNCHANGED disk
        ELSE IF lines = <<>>
          THEN mgr' = [Rewrite(fresh) EXCEPT !.flushed = TRUE] /\ disk' = Truncated(fresh)
        ELSE IF NeedsMigration(lines)
          THEN mgr' = Rewrite(loaded) /\ disk' = Truncated(loaded)
        ELSE mgr' = loaded /\ UNCHANGED disk

SwitchSession(f) == Idle /\ SetSessionFile(f) /\ UNCHANGED up

\* SessionManager.create
Create ==
    /\ ~up /\ up' = TRUE /\ CanName
    /\ mgr' = NewManager(NewFile) /\ UNCHANGED disk

\* SessionManager.open; resume by id opens only files that load.  (A file that
\* does not exist is a new session: Create.)
Open(f) == ~up /\ up' = TRUE /\ SetSessionFile(f)

\* SessionManager.continueRecent: the newest file with a header in its first line.
ContinueRecent ==
    /\ ~up /\ up' = TRUE
    /\ LET valid == {f \in DOMAIN disk : IsValidSessionFile(disk[f])}
       IN  \/ \E f \in valid : SetSessionFile(f)
           \/ valid = {} /\ CanName /\ SetSessionFile(NewFile)

\* SessionManager.forkFrom: the entries as they are, under a new header.
ForkFrom(f) ==
    /\ ~up /\ up' = TRUE /\ CanName
    /\ Load(disk[f]) # <<>>
    /\ LET lines == <<Header(CURRENT_SESSION_VERSION)>> \o EntriesOf(disk[f])
       IN  mgr' = BuildIndex([NewManager(NewFile) EXCEPT
                                 !.fileEntries = lines, !.flushed = TRUE, !.writing = lines])
    /\ UNCHANGED disk

\* The process ends, possibly while it writes a line.
Stop ==
    /\ up /\ up' = FALSE /\ mgr' = NoManager
    /\ \/ UNCHANGED disk
       \/ /\ TornWrites /\ mgr.writing # <<>>
          /\ disk' = WithFile(mgr.sessionFile, Append(LinesOf(mgr.sessionFile), TornLine))

Method ==
    \/ \E type \in {"assistant", "other"} : AppendChild(type)
    \/ \E id \in EntryIds(mgr.fileEntries) :
         \/ \E label \in Labels \cup {NoLabel} : Labels # {} /\ AppendLabelChange(id, label)
         \/ Branch(id)
         \/ CreateBranchedSession(id)
    \/ \E from \in EntryIds(mgr.fileEntries) \cup {Null} : BranchWithSummary(from)
    \/ ResetLeaf
    \/ NewSession
    \/ \E f \in DOMAIN disk : SwitchSession(f)

StartProcess == Create \/ ContinueRecent \/ (\E f \in DOMAIN disk : Open(f)) \/ (\E f \in DOMAIN disk : ForkFrom(f))

SessionNext == Method \/ WriteLine \/ StartProcess \/ Stop

SessionSpec == SessionInit /\ [][SessionNext]_vars

-----------------------------------------------------------------------------
\* Type invariant: the leaf is null or an indexed entry, and writes go to a named
\* file.
TypeOK ==
    /\ DOMAIN disk \subseteq Files
    /\ up = (mgr.fileEntries # <<>>)
    /\ mgr.leafId \in EntryIds(mgr.fileEntries) \cup {Null}
    /\ mgr.writing # <<>> => mgr.sessionFile \in Files

\* What the session holds survives: whenever a session has an
\* assistant message and no write is under way, reading its file again gives the
\* same entries, the same last entry and the same labels, whatever was held back,
\* branched, forked, migrated or interrupted before.
ReloadRestores ==
    (Idle /\ HasAssistant(mgr.fileEntries)) =>
        LET f == mgr.sessionFile
            lines == Load(disk[f])
        IN  /\ f \in DOMAIN disk
            /\ ById(lines) = ById(mgr.fileEntries)
            /\ LastId(lines) = LastId(mgr.fileEntries)
            /\ ToSet(LabelsOf(lines)) = ToSet(mgr.labelsById)

\* "The session is append-only": no step of any method changes or removes a line
\* of a readable file of the current version.
ReadableFilesOnlyGrow ==
    [][\A f \in DOMAIN disk :
          (Load(disk[f]) # <<>> /\ ~NeedsMigration(disk[f])) =>
              f \in DOMAIN disk' /\ IsPrefix(disk[f], disk'[f])]_vars

\* Two entries of a session never have the same id (the collision check of
\* generateId is against the entries in memory only, and branched sessions drop
\* entries).
IdsIdentifyEntries ==
    \A i, j \in DOMAIN mgr.fileEntries :
        LET e == mgr.fileEntries[i]
            d == mgr.fileEntries[j]
        IN  (IsEntry(e) /\ IsEntry(d) /\ e.id = d.id) => e = d /\ e.id # Null

\* getBranch: "Walk from entry to root".  The walk from every entry ends at an
\* entry without a parent.
BranchReachesRoot ==
    \A id \in EntryIds(mgr.fileEntries) \ {Null} :
        Head(GetBranch(mgr.fileEntries, id)).parentId = Null

\* What branching, forking, switching and migration leave in memory is a forest
\* of entries that their identifiers name, with the leaf among them.
EntriesFormTree == TypeOK /\ IdsIdentifyEntries /\ BranchReachesRoot

\* What the session is after any methods, branches, forks and crashes: a tree that
\* getBranch can walk, and a file that gives it again.
SessionIsSound == EntriesFormTree /\ ReloadRestores

\* "avoiding the duplicate-header bug": a session file has one header.
OneHeader ==
    \A f \in DOMAIN disk :
        Cardinality({i \in DOMAIN disk[f] : disk[f][i].type = "session"}) <= 1
=============================================================================
