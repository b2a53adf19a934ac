------------------------------ MODULE TodoList ------------------------------
(***************************************************************************)
(* packages/coding-agent/src/core: the todo list of a session, its tools   *)
(* (tools/todo-write.ts, todo-read.ts, todo-update.ts) and the TodoEngine  *)
(* (todo/todo-engine.ts) that recognises repeated updates and rebases      *)
(* those that are based on an old revision.                                *)
(*                                                                         *)
(* List and engine are persisted as entries of the session, one after the  *)
(* other, and read again when a process opens it: the last entry of each   *)
(* kind on the branch counts, so that a place in the tree of entries is    *)
(* represented by what was said there last.  A tool call is one            *)
(* synchronous function: only the death of the process gets between its    *)
(* entries.                                                                *)
(*                                                                         *)
(* An item has an id, a status and a content; its activeForm, which is     *)
(* merged like the status, and the fingerprints that count repeated        *)
(* failures are left out, and so is the limit of the ledger (256 updates). *)
(***************************************************************************)
EXTENDS Integers, Sequences, SequencesExt, FiniteSets, FiniteSetsExt, Functions

CONSTANTS
    Plans,            \* the lists todo_write is called with
    Updates,          \* the operations todo_update is called with
    TodoSessions,     \* session files, numbered; a process starts with the first
    MaxSnapshots,     \* limits.maxSnapshots
    MaxTodoRevision,  \* bound on the revision
    MaxPoints         \* bound on the places the user may navigate to

ASSUME TodoAssumption ==
    /\ MaxSnapshots \in Nat \ {0} /\ {MaxTodoRevision, MaxPoints} \subseteq Nat
    /\ 1 \in TodoSessions /\ TodoSessions \subseteq Nat \ {0}

VARIABLES
    branch,    \* what the branch up to the leaf holds
    ends,      \* what each session holds up to its last entry
    points,    \* places of the tree the user may navigate to
    live,      \* fields of AgentSession, or NoProcess
    appends    \* entries the tool call under way has still to append

todoVars == <<branch, ends, points, live, appends>>

NoProcess == [up |-> FALSE]
Unsaved == [unsaved |-> TRUE]     \* no such entry, or no such object
KeepField == "keep"               \* for a field the operation does not name

TodoItem(id, status, content) == [id |-> id, status |-> status, content |-> content]
TodoOp(id, status, content) == [id |-> id, status |-> status, content |-> content]

\* The ids of a list are different: todo_write makes those the model leaves out, and the
\* others are of the list the model was told.  The schema leaves no field out.
ASSUME PlansAssumption ==
    \A list \in Plans :
        /\ list \in Seq(ToSet(list))
        /\ \A i \in DOMAIN list :
             /\ list[i] = TodoItem(list[i].id, list[i].status, list[i].content)
             /\ list[i].status # KeepField
        /\ \A i, j \in DOMAIN list : list[i].id = list[j].id => i = j

-----------------------------------------------------------------------------
(* todo-engine.ts *)

TodoEngine(scope) == [scope |-> scope, revision |-> 0, snapshots |-> <<>>, ledger |-> {}]

\* recordReadSnapshot makes room for a snapshot, also when it replaces one.
RecordReadSnapshot(e, rev, list) ==
    LET held == DOMAIN e.snapshots
        kept == IF Cardinality(held) < MaxSnapshots THEN held ELSE held \ {Min(held)}
    IN  [e EXCEPT !.revision = Max({@, rev}),
                  !.snapshots = [r \in kept \cup {rev} |-> IF r = rev THEN list ELSE @[r]]]

RecordState(e, rev, list) == RecordReadSnapshot([e EXCEPT !.revision = rev], rev, list)

\* Mutant: the update is not remembered.
RecordApplied_Forgets(e, key, rev) == [e EXCEPT !.revision = Max({@, rev})]

RecordApplied(e, key, rev) == [e EXCEPT !.ledger = @ \cup {key}, !.revision = Max({@, rev})]

ValidTransition(from, to) == from = to \/ from # "completed"

ItemPosition(list, id) == SelectInSeq(list, LAMBDA item : item.id = id)

\* applyOps, for an operation whose item is in the list.
ApplyOp(list, op) ==
    LET i == ItemPosition(list, op.id)
    IN  [list EXCEPT ![i].status = IF op.status = KeepField THEN @ ELSE op.status,
                     ![i].content = IF op.content = KeepField THEN @ ELSE op.content]

\* Mutant: what changed since is not looked at.
Suits_AnyContent(e, base, item, op) ==
    op.status \in {KeepField, item.status} \/ ValidTransition(item.status, op.status)

\* rebase: an operation meant for an older revision suits the item as it is now, when
\* nobody changed in between what it changes.  One whose status is there already is
\* not looked at any further, and without a snapshot the status is taken as it is.
Suits(e, base, item, op) ==
    LET snapshot == IF base \in DOMAIN e.snapshots THEN e.snapshots[base] ELSE <<>>
        before == {t \in ToSet(snapshot) : t.id = op.id}
        statusSuits ==
            /\ \A t \in before : t.status \in {item.status, op.status}
            /\ ValidTransition(item.status, op.status)
        contentSuits == item.content = op.content \/ \E t \in before : t.content = item.content
    IN  \/ op.status = item.status
        \/ /\ op.status = KeepField \/ statusSuits
           /\ op.content = KeepField \/ contentSuits

-----------------------------------------------------------------------------
(* Entries of the session *)

Saved(todos, engine, told, answered) ==
    [todos |-> todos, engine |-> engine, told |-> told, answered |-> answered]
NothingSaved == Saved(<<>>, Unsaved, {}, {})

\* The result of a tool call: the revision and list it tells the model, in a set of
\* at most one, and the update it reports as applied.
Telling(rev, list) == {[revision |-> rev, todos |-> list]}
ToolResult(told, answered) == [type |-> "result", told |-> told, answered |-> answered]
SaveEngine(e) == [type |-> "engine", engine |-> e]
SaveTodos(list) == [type |-> "todos", todos |-> list]

Appended(at, entry) ==
    CASE entry.type = "engine" -> [at EXCEPT !.engine = entry.engine]
      [] entry.type = "todos" -> [at EXCEPT !.todos = entry.todos]
      [] entry.type = "result" ->
           [at EXCEPT !.told = entry.told, !.answered = @ \cup entry.answered]

-----------------------------------------------------------------------------
(* agent-session.ts *)

\* The engine of todo_read and todo_update: the one that was there when the tools were
\* made, which newSession and switchSession replace for the session only.
ToolEngine(m) == IF m.captured = Unsaved THEN m.engine ELSE m.captured

WithToolEngine(m, e) ==
    IF m.captured = Unsaved THEN [m EXCEPT !.engine = e] ELSE [m EXCEPT !.captured = e]

\* _setTodos
SetTodos(m, list) ==
    [m EXCEPT !.todos = list, !.revision = @ + 1, !.engine = RecordState(@, m.revision + 1, list)]

\* Mutant: the list is persisted before its revision.
SetEntries_TodosFirst(m) == <<SaveTodos(m.todos), SaveEngine(m.engine)>>

SetEntries(m) == <<SaveEngine(m.engine), SaveTodos(m.todos)>>

OpenSession(s, todos, engine, captured) ==
    [up |-> TRUE, session |-> s, todos |-> todos, revision |-> engine.revision,
     engine |-> engine, captured |-> captured, locked |-> FALSE]

\* _resetTodoEngine, for a session that is opened; a list without engine is recorded.
RestoredEngine(s, at) ==
    LET e == IF at.engine = Unsaved THEN TodoEngine(s) ELSE [at.engine EXCEPT !.scope = s]
    IN  IF e.revision = 0 /\ at.todos # <<>> THEN RecordState(e, 0, at.todos) ELSE e

OpensSession(s, captured) ==
    LET at == ends[s]
        e == RestoredEngine(s, at)
    IN  /\ live' = OpenSession(s, at.todos, e, captured)
        /\ branch' = at
        /\ appends' = IF e.revision = 0 /\ at.todos # <<>> THEN <<SaveEngine(e)>> ELSE <<>>
        /\ UNCHANGED <<ends, points>>

-----------------------------------------------------------------------------
\* Sessions of a version without engine have lists only.
OldSessions == {Saved(list, Unsaved, {}, {}) : list \in Plans}

TodoInit ==
    /\ branch \in OldSessions \cup {NothingSaved} /\ ends = [s \in {1} |-> branch]
    /\ points = {} /\ live = NoProcess /\ appends = <<>>

TodoIdle == live.up /\ appends = <<>>

\* An entry that repeats the last one of its kind makes no difference and is left out.
ToolCall(m, entries) ==
    /\ live' = m
    /\ appends' = IF Appended(branch, Head(entries)) = branch THEN Tail(entries) ELSE entries
    /\ UNCHANGED <<branch, ends, points>>

\* appendCustomEntry, and the message with the result at the end.
AppendNext ==
    /\ live.up /\ appends # <<>>
    /\ branch' = Appended(branch, Head(appends))
    /\ ends' = [ends EXCEPT ![live.session] = branch']
    /\ appends' = Tail(appends)
    /\ UNCHANGED <<points, live>>

\* A list that equals the present one but for the ids is not written; one per turn is.
SameItems(a, b) ==
    /\ Len(a) = Len(b)
    /\ \A i \in DOMAIN a : a[i].status = b[i].status /\ a[i].content = b[i].content

TodoWrite(list) ==
    LET m == SetTodos(live, list)
    IN  /\ TodoIdle /\ ~live.locked /\ live.revision < MaxTodoRevision
        /\ ~SameItems(list, live.todos)
        /\ ToolCall([m EXCEPT !.locked = TRUE],
                    SetEntries(m) \o <<ToolResult(Telling(m.revision, list), {})>>)

TodoRead ==
    LET e == ToolEngine(live)
        seen == RecordReadSnapshot(e, live.revision, live.todos)
        told == Telling(live.revision, live.todos)
    IN  /\ TodoIdle
        /\ ToolCall(WithToolEngine(live, seen),
                    <<SaveEngine(e), SaveEngine(seen), ToolResult(told, {})>>)

(* todo_update, with an expectedRevision *)

UpdateKey(op, expected) == <<ToolEngine(live).scope, op, expected>>

\* The same update was applied before, by this engine.
UpdateAgain(op, expected) ==
    /\ TodoIdle /\ UpdateKey(op, expected) \in ToolEngine(live).ledger
    /\ ToolCall(live, <<SaveEngine(ToolEngine(live))>>)

UpdateFits(op, expected) ==
    \E item \in ToSet(live.todos) :
        /\ item.id = op.id
        /\ IF expected = live.revision
             THEN op.status = KeepField \/ ValidTransition(item.status, op.status)
             ELSE Suits(ToolEngine(live), expected, item, op)

UpdateApplies(op, expected) ==
    LET key == UpdateKey(op, expected)
        m == SetTodos(live, ApplyOp(live.todos, op))
        recorded == RecordState(ToolEngine(m), m.revision, m.todos)
        applied == RecordApplied(recorded, key, m.revision)
    IN  /\ TodoIdle /\ key \notin ToolEngine(live).ledger
        /\ UpdateFits(op, expected) /\ m.todos # live.todos
        /\ live.revision < MaxTodoRevision
        /\ ToolCall(WithToolEngine(m, applied),
                    <<SaveEngine(ToolEngine(live))>> \o SetEntries(m)
                      \o <<SaveEngine(recorded), SaveEngine(applied),
                           ToolResult(Telling(m.revision, m.todos), {<<op, expected>>})>>)

\* The rebase finds the list as the update wants it.
UpdateIsThere(op, expected) ==
    LET key == UpdateKey(op, expected)
        applied == RecordApplied(ToolEngine(live), key, live.revision)
    IN  /\ TodoIdle /\ key \notin ToolEngine(live).ledger
        /\ expected # live.revision /\ UpdateFits(op, expected)
        /\ ApplyOp(live.todos, op) = live.todos
        /\ ToolCall(WithToolEngine(live, applied),
                    <<SaveEngine(ToolEngine(live)), SaveEngine(applied)>>)

\* Refused, or unchanged at the current revision.
UpdateChangesNothing(op, expected) ==
    /\ TodoIdle /\ UpdateKey(op, expected) \notin ToolEngine(live).ledger
    /\ UpdateFits(op, expected) =>
         expected = live.revision /\ ApplyOp(live.todos, op) = live.todos
    /\ ToolCall(live, <<SaveEngine(ToolEngine(live))>>)

\* recordProgress, when another tool or todo_update has ended.
ToolEnds ==
    /\ TodoIdle
    /\ branch' = Appended(branch, SaveEngine(live.engine))
    /\ ends' = [ends EXCEPT ![live.session] = branch']
    /\ UNCHANGED <<points, live, appends>>

\* A message of the user is appended, and todo_write allowed again.
UserTurn ==
    /\ TodoIdle
    /\ live' = [live EXCEPT !.locked = FALSE]
    /\ ends' = [ends EXCEPT ![live.session] = branch]
    /\ UNCHANGED <<branch, points, appends>>

TodoProcessDies ==
    /\ live.up /\ live' = NoProcess /\ appends' = <<>>
    /\ UNCHANGED <<branch, ends, points>>

TodoProcessStarts(s) == ~live.up /\ s \in DOMAIN ends /\ OpensSession(s, Unsaved)

\* The tool wants the revision "from the last read or mutation"; calls of one answer of
\* the model, and repeated ones, come with older ones.
ToldRevisions == IF live.up THEN 0..live.revision ELSE {}

TodoNext ==
    \/ AppendNext \/ TodoRead \/ ToolEnds \/ UserTurn \/ TodoProcessDies
    \/ \E list \in Plans : TodoWrite(list)
    \/ \E op \in Updates, expected \in ToldRevisions :
         \/ UpdateAgain(op, expected) \/ UpdateApplies(op, expected)
         \/ UpdateIsThere(op, expected) \/ UpdateChangesNothing(op, expected)
    \/ \E s \in TodoSessions : TodoProcessStarts(s)

\* One session, opened by one process after the other.
TodoSpec == TodoInit /\ [][TodoNext]_todoVars

-----------------------------------------------------------------------------
(* A running process goes to another place or to another session. *)

\* The place before a message of the user, which the user may return to.
RememberPoint ==
    /\ TodoIdle /\ Cardinality(points) < MaxPoints
    /\ points' = points \cup {<<live.session, branch>>}
    /\ UNCHANGED <<branch, ends, live, appends>>

PointsOf(s) == {pt[2] : pt \in {p \in points : p[1] = s}}

\* navigateTree and fork move the leaf and leave the list in memory as it is.
NavigateTree ==
    /\ TodoIdle /\ branch' \in PointsOf(live.session)
    /\ UNCHANGED <<ends, points, live, appends>>

WithSession(s, at) == [t \in DOMAIN ends \cup {s} |-> IF t = s THEN at ELSE ends[t]]

ForkSession(s) ==
    /\ TodoIdle /\ s \notin DOMAIN ends
    /\ branch' \in PointsOf(live.session) /\ ends' = WithSession(s, branch')
    /\ live' = [live EXCEPT !.session = s]
    /\ UNCHANGED <<points, appends>>

StartNewSession(s) ==
    /\ TodoIdle /\ s \notin DOMAIN ends
    /\ live' = OpenSession(s, <<>>, TodoEngine(s), ToolEngine(live))
    /\ branch' = NothingSaved /\ ends' = WithSession(s, NothingSaved)
    /\ UNCHANGED <<points, appends>>

SwitchToSession(s) == TodoIdle /\ s \in DOMAIN ends /\ OpensSession(s, ToolEngine(live))

\* reload makes the tools anew, with the engine the session has now.
ReloadTools ==
    /\ TodoIdle /\ live' = [live EXCEPT !.captured = Unsaved]
    /\ UNCHANGED <<branch, ends, points, appends>>

RoamingNext ==
    \/ TodoNext \/ RememberPoint \/ NavigateTree \/ ReloadTools
    \/ \E s \in TodoSessions : ForkSession(s) \/ StartNewSession(s) \/ SwitchToSession(s)

RoamingSpec == TodoInit /\ [][RoamingNext]_todoVars

-----------------------------------------------------------------------------
\* docs/rpc.md, line 403: the list that get_state and the todo events give is the
\* "current_branch_session_state", that of the branch which ends at the leaf; so it is
\* what a process that opens the session there restores.
TodosAreOfBranch == TodoIdle => live.todos = branch.todos

\* _setTodos persists the engine before the list, and the process may die in between: a
\* revision the model was told never comes to stand for another list than it was told
\* with, or an update based on it would be judged against what the model never saw.
RevisionNamesList ==
    TodoIdle => \A seen \in branch.told : seen.revision = live.revision => seen.todos = live.todos

\* The operation replaces what is no longer as in the list.  An operation with status
\* and content is not compared when its status is there already, and the status not
\* when the snapshot had to make room.
Overwrites(op, list, compared) ==
    \E was \in ToSet(list), is \in ToSet(live.todos) :
        /\ was.id = op.id /\ is.id = op.id
        /\ \/ op.status = KeepField /\ op.content # KeepField /\ was.content # is.content
           \/ compared /\ op.status \notin {KeepField, was.status, is.status} /\ was.status # is.status

\* rebase and the ledger: an update the model got an answer for is not applied again,
\* however often it is sent, also after a restart; and one based on the list the model
\* was told last does not overwrite what changed since.
UpdatesSpareOthers ==
    [][\A op \in Updates, expected \in ToldRevisions : UpdateApplies(op, expected) =>
        /\ <<op, expected>> \notin branch.answered
        /\ \A seen \in branch.told : seen.revision = expected =>
             ~Overwrites(op, seen.todos, expected \in DOMAIN ToolEngine(live).snapshots)]_todoVars
=============================================================================
