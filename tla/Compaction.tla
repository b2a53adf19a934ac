----------------------------- MODULE Compaction -----------------------------
(***************************************************************************)
(* packages/coding-agent/src/core/compaction/compaction.ts: where a long   *)
(* conversation is cut, what is summarised and what is kept, together with *)
(* the part of buildSessionContext that rebuilds the messages afterwards.  *)
(*                                                                         *)
(* The state is the path from the root of the session to its leaf; an      *)
(* entry's id is its position.  A summary is the set of the entries whose  *)
(* messages it was written from, through an earlier summary or directly.   *)
(***************************************************************************)
EXTENDS Transcript, FiniteSetsExt

CONSTANTS
    Sizes,        \* the estimated sizes of messages, in tokens
    KeepRecent,   \* settings.keepRecentTokens
    MaxEntries,   \* bound on the path
    MaxPathCalls      \* bound on the tool calls of an assistant message

ASSUME CompactionAssumption ==
    /\ Sizes \subseteq Nat /\ KeepRecent \in Nat
    /\ MaxEntries \in Nat /\ MaxPathCalls \in Nat

VARIABLES
    path,      \* sessionManager.getBranch()
    phase,     \* "idle", "request" or "tools", as in SessionRestore
    pending    \* calls of the last assistant not yet answered

compactionVars == <<path, phase, pending>>

NoMessage == Message("none", <<>>, FALSE, Blank)

PathEntry(type, message, size, first, covers) ==
    [type |-> type, message |-> message, size |-> size, first |-> first, covers |-> covers]

MessageEntry(m, size) == PathEntry("message", m, size, 0, {})
\* custom_message and branch_summary entries: user-role messages.
UserEntry == PathEntry("user_entry", SessionMessage, 0, 0, {})
\* thinking_level_change, model_change, custom, label and session_info entries.
SettingEntry == PathEntry("setting", NoMessage, 0, 0, {})
\* The summary of the entries in covers; the messages from first on are kept.
CompactionEntry(first, covers) == PathEntry("compaction", SessionMessage, 0, first, covers)

\* The messages of the entries of a range that produce one.
MessagesOf(p, from, to) ==
    LET messages[n \in 0..Len(p)] ==
            IF n < from THEN <<>>
            ELSE IF p[n].type \in {"message", "user_entry"} THEN Append(messages[n - 1], p[n].message)
            ELSE messages[n - 1]
    IN  messages[to]

\* The positions of a range whose entries produce a message.
Producing(p, from, to) == {i \in from..to : p[i].type \in {"message", "user_entry"}}

LastCompaction(p) == SelectLastInSeq(p, LAMBDA e : e.type = "compaction")

-----------------------------------------------------------------------------
(* findCutPoint *)

\* Mutant: a tool result is a cut point too.
CutPoints_ToolResults(p, start) == Producing(p, start, Len(p))

\* findValidCutPoints: every message but a tool result.
CutPoints(p, start) ==
    {i \in Producing(p, start, Len(p)) : p[i].message.role # "toolResult"}

\* The estimated tokens of the message entries from a position to the end.
TokensFrom(p, i) ==
    MapThenSumSet(LAMBDA j : IF p[j].type = "message" THEN p[j].size ELSE 0, i..Len(p))

\* Walking backwards, the message at which the budget is reached; the cut is the
\* first cut point at or after it, or the first of all.
BudgetCut(p, start) ==
    LET points == CutPoints(p, start)
        reached == {i \in start..Len(p) : p[i].type = "message" /\ TokensFrom(p, i) >= KeepRecent}
        after == {c \in points : reached # {} /\ c >= Max(reached)}
    IN  IF after # {} THEN Min(after) ELSE Min(points)

\* Entries without a message right before the cut are kept too.
ScanBack(p, start, cut) ==
    Min({c \in start..cut : \A j \in c..(cut - 1) : p[j].type \notin {"compaction", "message"}})

\* findTurnStartIndex: the user message, bash execution or user-role entry that
\* starts the turn of a position; 0 if there is none.
TurnStart(p, start, i) ==
    LET starts == {j \in start..i :
                    \/ p[j].type = "user_entry"
                    \/ p[j].type = "message" /\ p[j].message.role \in {"user", "session"}}
    IN  IF starts = {} THEN 0 ELSE Max(starts)

FindCutPoint(p, start) ==
    IF CutPoints(p, start) = {} THEN [first |-> start, turnStart |-> 0]
    ELSE LET cut == ScanBack(p, start, BudgetCut(p, start))
             isUser == p[cut].type = "message" /\ p[cut].message.role = "user"
         IN  [first |-> cut, turnStart |-> IF isUser THEN 0 ELSE TurnStart(p, start, cut)]

-----------------------------------------------------------------------------
(* prepareCompaction and compact *)

\* validateCompactionSpanIntegrity
SplitsSpan(summarized, retained) ==
    LET calls(t) == UNION {Ids(t[i].calls) : i \in DOMAIN t}
        results(t) == {t[i].id : i \in {i \in DOMAIN t : t[i].role = "toolResult"}}
    IN  \E id \in (calls(summarized) \ {Blank}) \cap results(retained) :
            id \notin results(summarized) \/ id \notin calls(retained)

\* Mutant: the prefix of a split turn is not summarised.
Covered_NoPrefix(p, start, cut) ==
    Producing(p, start, (IF cut.turnStart # 0 THEN cut.turnStart ELSE cut.first) - 1)

\* The entries the new summary is written from: the history before the cut (or
\* before the turn it splits), the prefix of that turn, and the previous summary,
\* which only generateSummary is given.
Covered(p, start, cut) ==
    LET split == cut.turnStart # 0
        history == Producing(p, start, (IF split THEN cut.turnStart ELSE cut.first) - 1)
        prefix == IF split THEN Producing(p, cut.turnStart, cut.first - 1) ELSE {}
        previous == IF start = 1 THEN {} ELSE p[start - 1].covers
    IN  IF prefix # {} /\ history = {} THEN prefix
        ELSE history \cup prefix \cup previous

\* The messages of a session: the summary of the last compaction, what it keeps,
\* and what followed it.
RawContext(p) ==
    LET c == LastCompaction(p)
    IN  IF c = 0 THEN MessagesOf(p, 1, Len(p))
        ELSE <<SessionMessage>> \o MessagesOf(p, p[c].first, c - 1) \o MessagesOf(p, c + 1, Len(p))

-----------------------------------------------------------------------------
(* The conversation grows, and is compacted while no run is active. *)

CompactionInit == path = <<>> /\ phase = "idle" /\ pending = <<>>

Add(e) == Len(path) < MaxEntries /\ path' = Append(path, e)
AddMessage(m) == \E size \in Sizes : Add(MessageEntry(m, size))

PathCalls == UNION {Ids(path[i].message.calls) : i \in DOMAIN path}
NewCalls(n) == [k \in 1..n |-> Cardinality(PathCalls) + k]

AddPrompt ==
    /\ phase = "idle" /\ AddMessage(User)
    /\ phase' = "request" /\ UNCHANGED pending

AddReply(n) ==
    /\ phase = "request" /\ AddMessage(Assistant(NewCalls(n)))
    /\ pending' = NewCalls(n)
    /\ phase' = IF n = 0 THEN "idle" ELSE "tools"

\* A failed or aborted response; calls it already holds are never executed.
AddFailedReply(n) ==
    /\ phase = "request" /\ Add(MessageEntry(FailedAssistant(NewCalls(n)), Min(Sizes)))
    /\ phase' = "idle" /\ UNCHANGED pending

AddAnswer ==
    /\ phase = "tools" /\ AddMessage(ToolResult(Head(pending)))
    /\ pending' = Tail(pending)
    /\ phase' = IF Len(pending) = 1 THEN "request" ELSE "tools"

\* A setting changes at any time; a bash execution and a user-role entry are
\* added between runs.
ChangeSetting == Add(SettingEntry) /\ UNCHANGED <<phase, pending>>
AddBash == phase = "idle" /\ AddMessage(SessionMessage) /\ UNCHANGED <<phase, pending>>
AddUserEntry == phase = "idle" /\ Add(UserEntry) /\ UNCHANGED <<phase, pending>>

Compact ==
    LET start == LastCompaction(path) + 1
        cut == FindCutPoint(path, start)
        historyEnd == IF cut.turnStart # 0 THEN cut.turnStart ELSE cut.first
    IN  /\ phase = "idle"
        /\ path # <<>> /\ Last(path).type # "compaction"
        /\ ~SplitsSpan(MessagesOf(path, start, historyEnd - 1), MessagesOf(path, cut.first, Len(path)))
        /\ Add(CompactionEntry(cut.first, Covered(path, start, cut)))
        /\ UNCHANGED <<phase, pending>>

\* AgentSession.newSession ends any run and starts an empty session.
ClearPath ==
    /\ path # <<>>
    /\ path' = <<>> /\ phase' = "idle" /\ pending' = <<>>

CompactionNext ==
    \/ AddPrompt \/ AddAnswer
    \/ \E n \in 0..MaxPathCalls : AddReply(n) \/ AddFailedReply(n)
    \/ ChangeSetting \/ AddBash \/ AddUserEntry
    \/ Compact \/ ClearPath

CompactionSpec == CompactionInit /\ [][CompactionNext]_compactionVars

-----------------------------------------------------------------------------
\* Wherever the cut falls, and however often, the messages of an idle session
\* can be sent: no tool result is kept without its call and no call without its
\* results.
KeptTranscriptIsValid == phase = "idle" => ValidTranscript(ConvertToLlm(RawContext(path)))

Compactions == {c \in DOMAIN path : path[c].type = "compaction"}

\* Message i, before compaction c, is kept by it or represented in its summary.
Remembered(i, c) == i >= path[c].first \/ i \in path[c].covers

\* The first compaction of a session forgets nothing: every message before it is
\* kept or was given to the summariser, split turn or not.
FirstCompactionRemembers ==
    \A c \in Compactions : Cardinality({d \in Compactions : d <= c}) = 1 =>
        \A i \in Producing(path, 1, c - 1) : Remembered(i, c)

\* What a compaction leaves can be sent and, the first time, lacks nothing.
CompactionIsSound == KeptTranscriptIsValid /\ FirstCompactionRemembers

\* docs/compaction.md, line 104: the history summary covers "Previous context (if
\* any)".  A later summary represents all that the one before it represents.
SummariesAccumulate ==
    \A c, d \in Compactions : d < c => path[d].covers \subseteq path[c].covers

\* docs/compaction.md, line 3: compaction works "to summarize older content while
\* preserving recent work".  What one compaction keeps, the next one keeps or
\* summarises.
KeptIsNotForgotten ==
    \A c, d \in Compactions : d < c =>
        \A i \in Producing(path, path[d].first, d - 1) : Remembered(i, c)
=============================================================================
