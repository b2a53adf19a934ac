# A TLA+ model of the jensen-code agent runtime

jensen-code is a coding agent: a loop that sends a conversation to a language
model, executes the tool calls of its answers and appends the results, wrapped
in a session that persists the conversation, retries failures and compacts what
has become too long. Around it stand records that outlive a process (missions,
requirements, jobs, credentials, todo lists) and files that several processes
share. This directory models that core, checks it with TLC, and proves most of
its safety properties with TLAPS.

Paths below are relative to the repository; `agent/` is `packages/agent/src/`,
`core/` is `packages/coding-agent/src/core/`, `docs/` is
`packages/coding-agent/docs/`.

## 1. Inventory

### The core, modelled here

| component | state | operations | correct when |
|---|---|---|---|
| **Parallel tool scheduler** `agent/scheduler.ts` | waves, claim position, three slot-count maps, results | `run`: `partitionWaves`, worker pool, `waitForSlot`/`decSlot`, abort, merge | conflicting calls and barriers keep their order; limits hold; counters do not leak; every batch returns, in call order |
| **Agent and agent loop** `agent/agent.ts`, `agent/agent-loop.ts` | messages, `isStreaming`, steering and follow-up queues, abort controller; per run a copy of the messages | `prompt`, `continue`, `steer`, `followUp`, `clearAllQueues`, `abort`, `reset`; per run: poll, request, execute tools, end | the loop's copy is the state; requests are well formed; no input is lost, doubled or reordered; one run at a time; runs end |
| **Transcript validation** `packages/ai/src/utils/transcript-validation.ts`, `core/messages.ts` | local variables of one pass over the messages | `validateChatCompletionsTranscript`, `validateToolSpanIntegrity`, `convertToLlm` | accepts exactly the transcripts in which every call has one result, right after it |
| **Session manager** `core/session-manager.ts` | entries, leaf, labels, flushed flag; the session files | `append*`, `branch`, `resetLeaf`, `branchWithSummary`, `createBranchedSession`, `newSession`, `setSessionFile`, `create`, `open`, `continueRecent`, `forkFrom`; migration | a file read again gives what was in memory; files only grow; ids are unique; every branch ends at a root |
| **Restore** end of `buildSessionContext` | the messages of a file that a crash cut off | trimming of an unresolved assistant | the rebuilt conversation can be sent, and answered turns survive |
| **Compaction** `core/compaction/compaction.ts` | the branch of entries | `findCutPoint`, `prepareCompaction`, `compact`, rebuilding | the kept part is a valid transcript, and nothing is forgotten |
| **Agent session** `core/agent-session.ts` | event queue, retry counter and promise, sleep controller, fallback index, overflow flag, scheduled continuations | `_handleAgentEvent`, `_handleRetryableError`, fallback, `_checkCompaction`, `prompt`, `steer`, `abort`, `abortRetry` | `prompt()` returns; retries are bounded; only failures are removed; agent and session hold the same conversation |
| **Todo list** `core/todo/todo-engine.ts`, `core/tools/todo-*.ts` | list and revision of the session; snapshots and ledger of the engine; their entries in the session file | `todo_write`, `todo_read`, `todo_update` with rebase; restart, navigation, fork, switch | a revision names one list; a repeated update is applied once, a stale one spares what changed; the list is that of the branch |
| **Long-horizon execution** `core/long-horizon/` | execution record, continuation scheduler, requirement ledger: histories in files | transitions, evidence, cycles (schedule, dispatch, consume, cancel), replay of a history that is read | every history replays; a blocked mission resumes where it was; a cycle is closed once and never stuck; a satisfied requirement has fresh evidence |
| **Safety transactions and leases** `core/safety/` | lease file, checkpoint, transaction record, files of the workspace | `performMutation`: `acquire`, checkpoint, `apply`, `validate`, `confirm`, `rollback`, release; rollback from the command line | one holder; only listed errors keep the lease; all or nothing but for torn files; edits of the user survive |
| **Background jobs** `core/jobs/` | record of a job, processes with their start identity, timers | `start`, `stop`, `restart`, `status`, `adopt`, `remove`, `shutdown`, `onExit`, `onError` | no process of a job is forgotten, no other process is signalled |
| **Language servers** `core/lsp/manager.ts`, `lsp/client.ts` | maps `servers` and `starting`, restart counters | `getServer`, `startServer`, `restartServer`, `onExit`, `shutdownAll` | no server lives unheld; crashed ones leave; restarts are bounded |
| **Credentials** `core/auth-storage.ts` | `auth.json`, its lock, each process's copy | login, logout, `set`, `getApiKey` with refresh and recheck | a refresh token is presented once; the loser of a race uses the winner's token; whole writes spare other credentials, torn ones bring nothing older back; `getApiKey` returns |

How they interact. `AgentSession.prompt` calls `Agent.prompt`, whose run calls
the provider and, for the calls of an answer, the scheduler. The run emits
events; the agent updates its own messages from them, and the session handles
them one after the other in `_agentEventQueue`, appending messages to the
session manager. At `agent_end` the handler may start a retry timer, a fallback
or a compaction, each of which later calls `agent.continue()` from a timer. The
session manager rebuilds the messages after a restart, a compaction or a switch;
the loop validates them before every request. The todo tools change a list in
the session, which the session manager persists like a message. Before a request
the session asks the credential storage for a key. Workspace, credentials and
the long-horizon records are shared with other processes through files only.

What is hard. Each process runs on one JavaScript thread, so inside it the
interleavings are those at `await`s: between the polls of the loop and the
user's calls, between events and their delayed handlers, between a timer and an
abort, between workers of the scheduler, between the exit of a child and the
call that starts or stops it. Between processes there are only files, of which
some are locked and some are not, and each process may die inside a write. The
rules for tool calls and results must hold after every combination of failure,
abort, crash, trim and cut. The full list, line by line, is `hazards` in
`PROJECT.json`.

### Not modelled

| part | why |
|---|---|
| mission engine, store, approvals (`core/mission/`) | a graph of guarded transitions of the same kind as the long-horizon execution, with one writer in the product (only the command line's create, start and status reach it); seen while reading: section 5 |
| reliability (`core/reliability/`) | checks of an answer against regular expressions and files, without state between calls |
| settings, resources, command line | configuration input and output; the two writers of `settings-manager.ts` are described in section 5 |
| storm breaker, loop guard, subagent registry | synchronous counters and lists that affect no other state; a delegated run is an agent session of its own |
| routing and budget (`core/routing/`) | scoring and sums in floating point |
| providers, MCP, extensions | external code; seen as an answer, a failure, an exception or a delay |
| tools, tool-call repair, context engine | file and process effects, text processing; what their calls do to the conversation is in Agent and Scheduler |
| rpc, print and interactive modes, terminal and web interfaces, Slack bot, pods, evaluation | front ends, layout, remote commands and measurements |

The front ends, providers, generated model tables and text processing make up
most of the lines of the repository, and they hold no protocol of their own that
a model could say something about; what is left of the core's own state machines
is the mission engine.

## 2. Modules

```
ToolBatch            contract of the scheduler
   ^ implemented by
Scheduler  <- SchedulerProofs                                    MCScheduler
Transcript <- TranscriptCheck <- TranscriptProofs          \
Transcript <- SessionRestore, Compaction                         MCConversation
SessionManager <- MCSessionManager                         /
Transcript <- Agent; Agent, TranscriptProofs <- AgentProofs
AgentSession <- AgentSessionProofs
ExecutionRecord, Continuation, RequirementLedger                 MCLongHorizon  \
   ExecutionRecord, Continuation, RequirementLedger,
   TranscriptProofs <- LongHorizonProofs
SessionManager <- MCSessionManager, TodoList <- MCTodoList                       MCRecords
Jobs, LanguageServers, AuthStorage <- ProcessesProofs                           /
Workspace, TodoList <- FilesProofs; Workspace                    MCWorkspace
SessionManager, SessionRestore, Compaction, TranscriptProofs <- SessionProofs
```

MCConversation, MCLongHorizon and MCRecords are sums: a behaviour is one of one
of their components, and the others keep their initial states. They check
components side by side, they do not compose them; every property of such a run
speaks of one component.

An action is the code between two points at which other code can run: two
`await`s in the runtime, two system calls that touch a shared file, two lines
written to a session file. Where a long synchronous stretch would make a huge
action (the loop of `partitionWaves`, the loop that creates workers), it is cut
into iterations and a phase variable keeps every other action out meanwhile.

**ToolBatch** is what the agent loop may rely on: each call is started at most
once and reported; it starts (or is reported as cancelled) only after the calls
it must follow are reported; at most `GlobalMax` run; nothing starts after an
abort.

**Scheduler** has one variable per variable of `run`, `partitionWaves` and
`runWave`. A call is reduced to the fields that the classification reads: effects
(mutating, unknown scope, `parallelSafe`), `concurrencySafe`, tool, host, server,
resource, and the calls it consumes. `CheckSlot` is the check inside
`waitForSlot`, used by a claim and by the 1 ms timer (`Recheck`); `ReportAndClaim`
is `decSlot`, the push of the result and the top of the worker's loop, one
synchronous segment. `emittedByCallId` counts from 1 so that 0 is a missing key.

**Transcript** holds messages as role, call ids, "failed" flag and answered id,
and the validators as step operators over their local variables; `WellFormed` is
the declarative definition they are compared with. **TranscriptCheck** feeds them
one message at a time. **SessionRestore** is a conversation persisted message by
message, killed anywhere and opened again.

**SessionManager** keeps `disk` (files as sequences of lines), the manager's
fields and whether a process runs. A method computes the new manager and leaves
the lines it writes in `writing`; `WriteLine` puts one on disk, `Stop` kills the
process, possibly leaving half a line. Migration gives version-1 entries ids and
parents. `CURRENT_SESSION_VERSION` is 3 as in the code.

**Compaction** works on the path from root to leaf; sizes are weights from a
small set, and a summary is the set of entries it was written from, directly or
through an earlier summary. It includes the backward scan over non-messages,
split turns and the span check that refuses a cut.

**Agent** has the fields of `Agent` and, per run, the loop's own copy of the
messages, the calls being prepared or executed and the results so far. Tool
execution is "sequential" or "parallel" as in the configuration; hooks may throw,
providers may answer, fail, or throw.

**AgentSession** abstracts a message to how it ended and keeps all of the
control around runs. `Macrotask` says when timers, the network and the user can
act: after the microtasks have run, or earlier when an extension delays a
handler (`SlowExtensions`). `QuickRuns` says whether a run may end within the 100 ms
of a timer that was set before it. Token thresholds and cut positions are left open.
It uses the agent as a single run; module Agent has the inside.

**TodoList** represents a place in the tree of entries by what the last entries
before it say: the list, the engine, what the model was told last and which
updates it got an answer for. A tool call is one synchronous function that leaves
the entries it appends in `appends`; `AppendNext` writes one, and the process may
die between two. `TodoSpec` is one session opened by one process after another;
`RoamingSpec` adds navigation, forks, new sessions, switches and `reload`. The
engine that `todo_read` and `todo_update` captured when they were made
(`captured`) is kept apart from the one of the session.

**ExecutionRecord** is the transition graph with `applyExecutionTransition` and
the replay that validates a record read from a file; **Continuation** the
commands that read the scheduler's file, read the revision of the execution,
decide, and rename a new file over it, each of them a process that may overlap
with another or die; **RequirementLedger** evidence, transitions, their policy
and the authoritative validation. A digest is what it is computed from.

**Workspace** has one action per system call that another process can see:
creating the lease, writing its record, reading a precondition, writing a file,
writing the transaction's record. Users edit in between, processes die in
between, and an operator rolls back from the last persisted record. The disk fails
too: `errors` says for which process and at which site (the lease file, the journal
of `appendEvent`, the start of the transaction, its later records, the files), and
each `await` of `performMutation` that can throw has its own action or disjunct
(`AcquireFails`, `StartFails`, `JournalFails`, `WriteFails`, `RecordFails`,
`RestoreGoesWrong`, `RollbackFails`, `ReleaseUnrecorded`, the failing half of
`Release`), which goes where the code's `catch` goes. A write that is cut short, by
an error or a crash, leaves the file `Torn` or the record `Unreadable`. Run ids are
taken to be different, as those of the only caller are.

**Jobs** separates the pid from the start identity of a process: the system gives
a free pid to somebody else. Reading a record and writing it back are two steps,
so `onExit` can come between those of a tool call. `RequireIsDefined` says whether
the module loader provides `require` (Bun) or not (Node).

**LanguageServers** numbers the processes of one key; the end of a process, the
event that tells of it, and the registration of its handler are separate steps.

**AuthStorage** numbers tokens as they are issued; the provider takes each refresh
token once. `Progress(p)` is the next step of a process that is in a call. The
lock is that of proper-lockfile: one whose holder died, or that was not renewed
in time, may be taken over. `writeFileSync` truncates the file before it writes, in
`BeginWrite` and in `Persist`, and `release()` is awaited in a step of its own
(`Release`). A write that dies or fails in between leaves a part that does not
parse, or an empty file, which reads as no credentials (`Truncated`); `erased`
remembers that it did.

The correspondence of every definition to its lines is `map` in `PROJECT.json`.
Operators whose name contains an underscore and a suffix (`Suits_AnyContent`,
`Finally_NotAfterThrow`) are mutants: plausible bugs, at least one per property,
each of which TLC catches. They are used by no specification.

## 3. Runs

Run one with `tlc -config X.cfg M`.

| run | module, cfg | shows |
|---|---|---|
| scheduler | MCScheduler, Scheduler.cfg | order, limits, slot accounting, canonical results, refinement of ToolBatch, and that every batch returns |
| conversation | MCConversation, Conversation.cfg | validators are exact; the restore trims exactly what it should; what a compaction leaves can be sent and the first forgets nothing; entries form a tree and a file read again restores them, with branches and forks in a second file; readable files only grow |
| agent_loop | Agent, AgentLoop.cfg | loop and state agree, requests are sendable, inputs conserved and in order, `isStreaming` while a run works, every run ends |
| session_retry | AgentSession, SessionRetry.cfg | conversation and session agree, only failures are removed, retries bounded |
| session_returns | AgentSession, SessionReturns.cfg | nobody waits on a lost promise; `prompt()` returns |
| records | MCRecords, Records.cfg | execution, commands and ledger are sound; a blocked mission resumes where it was; session files of any version, with labels, branches and forks, restore; revisions of the todo list name one list and updates spare others; jobs are accounted for and strangers spared; no language server is stranded, restarts are bounded |
| workspace | MCWorkspace, Workspace.cfg | the lease is exclusive and released, a transaction atomic, a rollback spares the user's edits |
| credentials | AuthStorage, Credentials.cfg | the stored token is unused, other credentials are kept, the loser uses the winner's token, `getApiKey` returns |
| session_hangs | AgentSession, SessionHangs.cfg | *violation*: a fatal error in the run of a retry leaves `prompt()` waiting |
| rollback_repeats | MCWorkspace, RollbackRepeats.cfg | *violation*: the second rollback of a failed batch takes the first one's work for drift |
| two_servers | LanguageServers, LspOneServer.cfg | *violation*: a request during a restart starts a second server |
| todos_of_branch | MCTodoList, TodosOfBranch.cfg | *violation*: after a navigation the todo list is that of the branch that was left |

**Bounds, and why they are enough.**

* Scheduler: three calls over eleven kinds, two tools, limits 1 and a pool of 2.
  Eleven kinds meet every branch of `isSerialBarrier` and `callsConflict`; three
  calls give a wave with a waiting worker, a call that overtakes it and a later
  wave. One call (the first) may be consumed. For larger batches there are the
  proofs.
* Conversation: every sequence of up to five messages over two call ids, a blank
  id, failed answers and user messages (the validator's memory is one span and
  the set of ids seen, and five messages hold two spans); for the restore nine
  messages, that is a damaged turn, a restart, a further turn and a second
  restart; for compaction paths of six entries, two sizes around a budget of 3
  and two calls, which hold two compactions with a split turn between them; two
  session files of four lines without labels, which are a header, a branching
  point and two children, with ids over twice that range so that a reused id
  would show. The second file is what a fork or a branch is written to.
* Agent: three inputs, one tool turn of up to two calls, one run at a time.
* Session: one retry, one fallback, two compactions, two prompts: every counter
  reaches its limit and is reset once. SessionReturns adds a steering message and
  extensions that delay the queue, and leaves out exceptions and fatal errors.
  Two runs that nobody asked for are under way at once only with `QuickRuns = TRUE`
  and three prompts and compactions (the second prompt's overflow stays, the third
  repairs it, its own run overflows again): SessionRetry.cfg with that, no fallback,
  exceptions or turns, and `RetriesBounded` as its only property passes too, and
  reaches the bound.
* Records: nine transitions of the execution block, resume and complete it; two
  commands and four events hold two cycles, scheduled for the revision of the execution, an
  older one or a later one (`Ahead = 1`); one requirement with a criterion that
  only a passing test proves and one that anything proves, with two pieces of
  evidence and four transitions, can be satisfied, regress and be satisfied again;
  two session files of three lines of any version, with labels, so that a labelled
  entry is branched or forked into the second (four lines without labels are in
  Conversation.cfg); lists of one item
  with two contents, revisions up to 3 and two snapshots, so that snapshots are
  evicted and updates come one and two revisions late; two pids and two starts, so
  that a pid is reused by the job itself or by a stranger; one restart and three
  servers.
* Workspace: two processes and two paths; one replaces a file and creates another,
  the other deletes the second; at most one edit of the user, one rollback by an
  operator and one kind of error (which may recur), two of the three together, and
  nothing after a lease was stolen (`FewDisturbances`, a CONSTRAINT of Workspace.cfg;
  the theorems have none of these bounds). Crashes are not bounded.
* Credentials: two processes, three tokens, one fault (a crash, a write that fails, a
  lost answer or a lost lock). `MayCall` bounds the calls that change credentials by
  the same number of tokens.

`CHECK_DEADLOCK FALSE` is said where the system may stop: an agent with no more
input, a session whose prompts are used up, a file nobody opens any more, and
wherever a bound is reached. The scheduler is checked for deadlock.

**Fairness.** `FairSpec` (scheduler): the synchronous steps and each call's timer
and microtasks happen, and each running call settles (tools return, or see the
abort signal). `FairAgentSpec`: whatever a run awaits is settled: providers
answer, fail or throw, tools return. `FairSessionSpec`: runs end, timers fire,
the handler and `prompt()` go on when what they await is settled. `FairAuthSpec`:
a process goes on with the call it is in, unless it dies, and the provider's
requests end. All of it is weak fairness of steps that the event loop takes once
they are possible; nothing is assumed of users, aborts, other processes or the
order of callbacks.

## 4. Proofs

Eight modules hold theorems; each holds for every value of the constants that
the named assumptions admit. Hypotheses beyond these (`~ListenersPrompt`,
`RequireIsDefined`, and those of the theorems about retries and the conversation of an agent session)
are part of the theorem and explained below; the runs make the same choices.

| theorem | module | states |
|---|---|---|
| `TypeCorrect` | SchedulerProofs | `TypeOK`; no counter becomes negative |
| `SlotsAccounted` | SchedulerProofs | `SlotAccounting`: counters equal the slots held until an abort, never more after it |
| `LimitsHold` | SchedulerProofs | `LimitsRespected`: global, per-tool, per-host and per-server limits |
| `ResultsCanonical` | SchedulerProofs | `CanonicalResults`: a batch returns one result per call, in call order |
| `OrderHolds` | SchedulerProofs | `OrderPreserved`: barriers and conflicting calls keep their order |
| `Refinement` | SchedulerProofs | `ImplementsToolBatch`: the scheduler implements the contract |
| `ValidatorsExact` | TranscriptProofs | `ValidatorsAreExact`: after each message, the loop's validator accepts exactly the well-formed transcripts, and the session's span check exactly the intact ones |
| `AcceptedMeansWellFormed` | TranscriptProofs | what `validateChatCompletionsTranscript` accepts is well formed, of any sequence of messages |
| `LoopSees` | AgentProofs | `LoopSeesState`: the run's copy of the conversation is the agent's |
| `StreamsWhileRunning` | AgentProofs | `StreamingWhileRunning`: a run that works is announced |
| `RequestsPassValidation` | AgentProofs | `RequestsAreSendable`: what a run sends passes the validation, unless a hook threw |
| `InputsArriveInOrder` | AgentProofs | `ConversationInOrder`: no input is lost, doubled or reordered; results come in call order |
| `WaitersHold` | AgentSessionProofs | `WaitersHoldPromise`: who waits holds a promise the session has |
| `SessionTyped` | AgentSessionProofs | `AgentSessionTypeOK`; counters of retries, fallbacks and events stay in range |
| `RetriesLimited` | AgentSessionProofs | `RetriesBounded`, under `PromptsWait`, `~SlowExtensions`, `MaxSteers = 0` |
| `AgentHoldsSession` | AgentSessionProofs | `StateMatchesSession`, under `PromptsWait`, `~SlowExtensions`, `~QuickRuns` |
| `FailuresRemoved` | AgentSessionProofs | `RemovesOnlyFailures`, an action property, under the same |
| `StoredTokenUnused` | ProcessesProofs | `StoredTokenIsUnused` |
| `CredentialsKept` | ProcessesProofs | `OtherCredentialsKept` |
| `LoserUsesTheWinner` | ProcessesProofs | `LoserUsesWinner`, an action property |
| `FilesOnlyGrow` | SessionProofs | `ReadableFilesOnlyGrow`, an action property |
| `RestoreIsExact` | SessionProofs | `RestoreTrimsExactly`: opening a session trims exactly the turn that was not answered |
| `CompactionsAreSound` | SessionProofs | `CompactionIsSound`: after any number of compactions what is sent between runs is well formed; the first forgets no message |
| `LeaseExclusive`, `LeaseReleased` | FilesProofs | `LeaseIsExclusive`, `LeaseIsReleased` |
| `RollbackSpares` | FilesProofs | `RollbackSparesUserEdits`, an action property |
| `TransactionsAreAtomic` | FilesProofs | `TransactionIsAtomic`: what the record says of a transaction is true of the files nobody else touched |
| `RevisionsNameLists` | FilesProofs | `RevisionNamesList`: a revision the model was told stands for the list it was told with, wherever the process died |
| `UpdatesSpare` | FilesProofs | `UpdatesSpareOthers`, an action property: no answered update is applied again, none overwrites what changed since |
| `StrangersSpared` | ProcessesProofs | `StrangersAreSpared` |
| `JobsAreAccountedFor` | ProcessesProofs | `JobIsAccountedFor` |
| `NoServerStranded` | ProcessesProofs | `NoServerIsStranded` |
| `RestartsAreBounded` | ProcessesProofs | `RestartsBounded` |
| `ExecutionsAreSound` | LongHorizonProofs | `ExecutionIsSound`: the record replays to its state; what completed was executed, verified and reviewed |
| `BlockedMissionsResume` | LongHorizonProofs | `ResumesWhereBlocked`, an action property |
| `LedgersAreSound` | LongHorizonProofs | `LedgerIsSound`: only claims invalidate a ledger, what is satisfied is proven, the reducers agree |
| `CommandsStaySound` | LongHorizonProofs | `CommandsAreSound`: the record replays, cycles are exclusive, the open one can be cancelled once the execution has reached its revision, answers are kept |

**Scheduler.** Assumptions: `SizeAssumption` (a finite batch),
`LimitsAssumption` (limits are natural numbers, the per-key ones positive: a zero
would make `waitForSlot` poll for ever; `GlobalMax` may be 0 since the code takes
at least one worker), `NoneAssumption` (an absent field is no tool, host, server
or resource) and `KindsAssumption` (calls have the shape of a `SchedulerCall`).
The call tables (`Kinds`, `Consumable`) are otherwise arbitrary.

*Limits.* That counters equal the slots held is not inductive. After an abort a
call passes `waitForSlot` without a slot and `decSlot` still runs for it, so what
is inductive is "equal until an abort, at most equal after it", together with who
holds a slot (`HoldShape`): a running call always holds one, because an aborted
call never starts. At the end of a wave the counters start from zero, which is
right only if nobody holds a slot then: `PoolShape` (every live worker has exactly
one active call), which needs that a worker claims a call nobody has claimed
(`Unreached`), which needs that no call is in two waves (`WaveShape`). `IInv` is
the conjunction.

*Order.* `OInv` adds what `partitionWaves` guarantees (`WaveOrder`: the waves
ascend, hold every call before the cursor, and no call of a wave must follow
another of it) and what the workers have passed (`Passed`: earlier waves are
reported, the claimed prefix is claimed, and a worker returns only when nothing
is left to claim, so that a wave without workers is a reported wave). A claimed
call is in the running wave or an earlier one; a call it must follow is in a
strictly earlier one; hence it is reported.

*Results.* `RInv` adds `Collected`: the results of the running wave are its calls that
are done, those collected before are the calls of the earlier waves, and no call is
among them twice. A wave joins them sorted; the sort keeps what it sorts
(`SortKeeps`) and puts it in order (`SortAll`), both shown of the place of an entry,
the number of entries that do not come after it (`Places`).

*Refinement.* A call of the contract is pending until it starts. `StartCall` is
`Start` (one active call is not yet running, so fewer than `GlobalMax` are),
settling is `Report`, cancelling is `ReportCancelled`, an abort is `Stop`, and
all other steps are invisible, the claim that goes with a report included.

**Transcripts.** `TranscriptInv`: after every message the validator's variables are
read off the transcript (`Validated`: nothing was found wrong exactly if all spans
so far are in order, and then the open span is `Pending`, the ids seen are those
called and answered), and the second loop keeps the same books (`LoopsAgree`). The
theorem about whole sequences folds that step over them. The library states
induction over data with operators as parameters, which cannot be used here; it
is stated of sets of numbers instead (`Induction`, by the least number missing
from the set), and a fold is taken as the function on sets that it unfolds to
(`FoldsExist`, `FoldsInOrder`). Long-horizon proofs use the same lemmas.

**Agent.** The theorems assume that no listener of `agent_end` starts a run
(`~ListenersPrompt`): with one, the `finally` of a run clears the state of the
next (section 5) and neither property holds. `RunInv` says what the run's copy is
at each point: the conversation of the state, but for the results of a turn, which
join the copy when the turn ends; at most one run works, and it is announced.
`ConversationInv` adds what the conversation lacks: `TurnFits`, the calls without
a result are exactly those the run still prepares, executes or reports, numbered
without a gap; without a run nothing is pending, unless a hook threw. Since a
request is sent only when no call is left, it passes by `ValidatorsExact`'s lemmas.
`InputsDelivered` counts: each input is in exactly one of the conversation, the
two queues and what was cleared or reset, each queue holds its own kind in the
order given, and what has arrived came before what waits. Concatenation and
truncation of sequences of any elements are lemmas over `IsASeq`.

**Agent session.** `PromiseInv`: the callers are those there are, and each one
that waits has a promise. A step either leaves promise and callers, releases
everybody, or takes one caller to another place than waiting (`KeepsPromise`), and
`PromiseKept` shows once that this is enough. `CountInv`: the counter of retries
passes its limit only while a fallback model is looked for, which needs that the
handler under way is that of the `agent_end` at the head of the event queue.

*Runs nobody asked for.* `RunsInv` is an account. `Live` counts what a run may still
come of: timers, the run, and the ends of runs that wait to be handled, unless the
handler only compacts. `Cost` is the number of such runs so far, those that are due,
and those still to be paid for: the retries left to the model in use (`Budget`), the
retries and the first run of each further fallback (`Others`), and the repair of an
overflow (`Repair`). A step either keeps `Live` and does not raise `Cost`
(`StepSame`), or lets one run go and raises `Cost` by at most the retries, which
giving up gives back (`StepLess`); a success or a prompt starts to count anew
(`ResetKeeps`). Two runs may be under way at once (prompt() repaired an older
overflow, and its timer is still to fire), so retries may be given back once while
another run uses them: the bound is twice the retries, the runs of each fallback
model, and two. A bound with the retries once is false, and the one proved is
reached. The hypotheses are those of SessionRetry.cfg: overlapping callers repair
one overflow twice, a delayed handler lets several ends wait at once, and a steering
message makes a run that only compacts set a timer.

*The conversation.* `MatchInv` follows it through the event queue. `TurnInv`: the queue
holds at most one message and one end, and while an end waits no run goes on or is
about to. `CallersInv`: a prompt that compacts or is about to start is alone.
`FailureInv`: whoever may remove the last answer (the handler of a failed one before a
retry or a repair, and the one that looks for a fallback model) finds one that failed.
`HistoryInv`: without the answers that failed, the agent's messages are those the
session would be rebuilt with, and the one in the queue (`Matches`); and compactions
cut within the session. `ContextOf` says that an entry more is a message more, before
and after a compaction; under it are the lemmas about `Only`, the loop of
`buildSessionContext` (`OnlyOf`), by induction on the position. The hypotheses are
weaker than those about the runs in one respect, users may steer, and stronger in
another: no run ends before a timer that was set before it (`~QuickRuns`). Without
`PromptsWait` or `~QuickRuns` the first property is false (section 5); when users steer,
and handlers are delayed or runs are quick, the second is.

**Credentials.** `LockInv`: a process refreshes, writes or awaits a release exactly
when it holds the lock, and unless it awaits the release of a refresh that went well
the token in the file is not valid then, unless the lock was lost.
`BoundInv`: no token above `issued` is anywhere, so that a new token is a fresh
one. `UsedInv`: a token that is about to be written was never presented.
`KeyInv`: nobody changes the other credential between the time a refresh has read
it and the time it is written back, the file under a write holds nothing, and once
nobody writes it holds what was last written, or nothing if a write died or failed
since (`Expected`).

**Workspace.** `LeaseInv`: the record names the holder, an incomplete record
belongs to one who is still writing it, could not or died there, and nobody holds the
lease unnamed unless it was stolen. `UndoInv`: a rollback that
has looked at a file has not seen a text of the user there, or restores a deleted
file; the next file is the least of a set of numbers, which exists by well-founded
induction. `AtomicInv` speaks of each transaction while no lease was stolen: where
its call is (what it has written, which rollback is on), what every file holds that
nobody else touched and no write of its own tore (the content of the checkpoint, or
that of the batch where it was written), and what a rollback under way has left behind
it (the old content in every file it is done with). A file that differs from what the
transaction wrote is then one that was restored before, so a rollback may skip it.
Whether an error or a crash ends a step, what follows is one of few moves, each a
lemma: the call goes on (`CallMoves`), the record is written (`RecordMoves`), a
rollback goes on (`RollbackGoesOn`), and files that are marked as lost need not be
looked at (`FitsSpared`). A rollback that begins from a record that lags behind the
files, or is cut short after the confirmation (`outdated`), is exempt, as in the
property.

**Todo list.** What is inductive speaks of every place at which the process may
die: `TodoInv` says that appending the entries still to be appended, one after the
other, passes only places a process can be opened at (`SavedOk`), and ends with what
is in memory (`Pending`). At such a place nothing was told of a revision beyond that
of the saved engine, what was told of that very revision is the saved list, the
snapshots agree with what was told, and the ledger has every update that was answered
(`Knows`); the model's ledger grows without bound, the code's keeps the last 256 updates
(`todo-engine.ts:410`), so an answer older than those is not covered. The order of the entries matters: the engine goes first, so the saved list
lags behind a revision nobody was told of yet; the result comes last. `ListsInv`
adds, for `UpdatesSpare`, that no list has an id twice, in memory, on the branch, in
what the model was told, and in the entries still to come. For that `PlansAssumption`
says it of the lists `todo_write` is called with: the tool makes the ids the model
leaves out and does not compare the others. The theorems are about `TodoSpec`, one
session; with `RoamingSpec` both properties are false (section 5).

**Jobs.** `JobInv`: the record, and every copy of it that a call or a handler still
works on, names a process of the job or an adopted one, however old the copy is.
`JobsAreAccountedFor` assumes `RequireIsDefined`: under Node, where it does not hold,
`stop` calls a process gone that lives (section 5), and the property is false. Its
invariant has four parts: `PlaceInv` (a process lives at one pid, where every copy
of the record has it, and is over when its exit is handled), `CourseInv` (what the
call under way works on; a process is over when a call says it was stopped),
`HoldInv` (a living process of the job is named by a record that can be stopped,
gets SIGKILL or was just spawned, unless a copy overwrote a newer record or the
registry died) and `ReportInv` (the exit of a process the record calls running is
on its way to the record).

**Language servers.** `HeldInv` makes the first part of `NoServerIsStranded`
inductive: a startup that was given up has its process on the way to SIGKILL.
`CrashedServersLeave` proves the second, that a crashed server in the map has its
restart still to come. Restarts form chains from a server that was asked for to
the one that is not replaced yet (`LineageInv`: one replacement at a time, and only
of a server that has left the map). `RestartsCounted` charges every restart, begun
or waiting, to one unit of the counter at the end of a chain; the counters are at
most `MaxRestarts` and there are no more ends than beginnings, so the bound follows
by counting pairs.

**Long-horizon execution.** Here the history is the state, and every invariant says
that the record is the replay of its history; the lemmas `...Loop` say what the
loops of the validation compute, and `...OneMore` that one more event does not change
what they compute of those before.

*Executions* (`RecordInv`): the replay ends in the state of the record, transitions
and their ids are numbered, a blocked mission was blocked by its last transition,
and the phase (that of the state, or of what was blocked) has been reached through
the ones before it. The replay and the record may differ in `blockedFromState` after
the end, when nothing follows.

*Ledgers* (`LedgerInv`): the revision recorded for a regression is the last one, and
what is satisfied was satisfied last by evidence added since. `deriveCurrentStates`
replays from the end state and not from the initial one: the proof follows each
requirement to its first transition, from where the two replays agree.

*Commands.* `RecInv`: the open cycle is the last event of the history, or the last two
when it was dispatched, it is what the replay has at its end, and no event before it
belongs to it. It holds of the file and of every copy a command has read, since
overlapping commands put copies back. `SoloInv`: while no two commands overlap,
the one that runs has read the file as it is, and the answers are its events. The
theorem assumes nothing about the revisions cycles are scheduled for (`Ahead` is any
number): a cycle scheduled for a later revision can be neither dispatched nor
cancelled before the execution gets there (section 5), and the property says just that.

**Session file.** `FilesOnlyGrow` needs little of the state (`SessionFilesInv`: a file
is a sequence of lines, and the manager names its file) and `DisksAssumption`, which
says that of the disks one starts from. The work is in the operations: a new
session and a branch take a name that is free, and the only rewrite is of a file
that could not be read or has to be migrated.

`RestoreIsExact` is about two scans of a whole path. `Scanned` says what
`validateToolSpanIntegrity` holds after reading a part of the transcript, and
`SpanCheckFinds` follows: it names exactly the calls without a result. `TrimsStranded`
says what the trim of `buildSessionContext` leaves: all but the last assistant message
with an unanswered call. `RestoreInv` says what the file holds wherever the process
stops: each id is called once, by a call before its result, every other message
after a call is a result of it until all are answered, and ids are numbered in
order. So at most one message is stranded, what is left is well formed (`WithoutIsCoherent`)
and `AcceptedMeansWellFormed` and its converse carry that to the validator.

**Compaction.** `CompactionsAreSound` assumes only `CompactionAssumption` (numbers are
numbers). That what is sent is well formed is not inductive: a later compaction
cuts somewhere else. `Turns` therefore speaks of every position after the last
compaction at which the kept messages do not begin with a tool result: from each,
the messages up to the leaf, behind a summary, are `Consistent` (every call has its
result, but for those the run still waits for), and so are those the model is sent.
`TurnsGrow` carries that over any other entry; `CutIsClean` shows that wherever
`findCutPoint` stops, whatever the sizes, and however far it walks back over entries
without a message, what is kept begins with no result, and `TurnsCut` that a cut
there keeps `Turns`. The new calls are new because ids are numbered (`PathCalls` is
`1..n`). The proof does not use `validateCompactionSpanIntegrity`: the choice of
the cut alone keeps calls and results together. `CoveredRemembers` is the other half:
before a first compaction each message is at or after the cut, in the history, or in
the prefix of the split turn. Of later compactions only the first half holds
(section 5).

**Only model-checked.** Liveness (`EventuallyReturned`, `RunsEnd`, `PromptReturns`,
`GetApiKeyReturns`), which with fairness is out of reach of the prover. Without a
proof so far: `EntriesFormTree` and `ReloadRestores` of the session manager, which
need what a file that is read again contains, line by line.

## 5. Where the code and its documents disagree

Four disagreements have a run and a finding:

* **`prompt()` can wait for ever** (`session_hangs`). When the run of a retry
  ends with an error that is not retried, nothing resolves the retry promise
  (`core/agent-session.ts:705`).
* **A rollback reports drift that nobody caused** (`rollback_repeats`). `apply()`
  undoes a partial batch before it throws (`core/safety/transaction.ts:251`), and
  `performMutation` rolls back once more (`core/safety/manager.ts:354`); the files
  the first rollback restored no longer are what the transaction wrote, so the
  second asks for manual recovery. `docs/safe-autonomous-execution.md:90` says
  that a rollback is idempotent.
* **Two servers for one key** (`two_servers`). `restartServer` removes the crashed
  server and enters the new one only when it has started
  (`core/lsp/manager.ts:228`); `getServer` starts another one meanwhile. The
  comment at line 17 says this is prevented.
* **The todo list of another branch** (`todos_of_branch`). `navigateTree` and
  `fork` take the messages from the new branch, but neither the list nor its
  engine (`core/agent-session.ts:3996`). `docs/rpc.md:403` calls the list the
  state of the current branch.

The modules also state properties that the code does not have. They are in no
run; the change to a cfg that shows each is given.

| property | to see it | code | says |
|---|---|---|---|
| `DependencyOrder` | add it to Scheduler.cfg | `agent/scheduler.ts:127`: a call joins the wave of a call it consumes when that is still open | comment at line 9 |
| `RestoredRequestsAreSendable` | add it to Conversation.cfg | `session-manager.ts:456`: the orphaned results are computed before the damaged assistant message is removed, and its results that had arrived stay | comment at line 453 |
| `OneHeader` | add it to Conversation.cfg | `session-manager.ts:922` writes the held-back header after one that is there | comment at line 1483 |
| `SessionIsSound` (`BranchReachesRoot`) | Conversation.cfg with `Labels = {todo}` | `session-manager.ts:1431` drops label entries that others have as parent | `getBranch`, line 1284 |
| `SessionIsSound` (`IdsIdentifyEntries`) | Conversation.cfg with `InitialDisks <- AnyVersion` | `forkFrom` (line 1568) copies version-1 entries under a current header | line 1563 |
| `SummariesAccumulate` | add it to Conversation.cfg | `compaction.ts:915`: a split turn without history before it drops the earlier summary | `docs/compaction.md:104` |
| `KeptIsNotForgotten` | add it to Conversation.cfg | `compaction.ts:767`: the second compaction starts after the first one's entry, so what that kept is neither kept nor summarised | `docs/compaction.md:3` |
| `ResultsInCallOrder` | without its premise `toolExecution = "sequential"` | `agent-loop.ts:490` emits a refused call's result before earlier calls have run | comment at line 497 |
| `StreamingWhileRunning` | AgentLoop.cfg with `ListenersPrompt = TRUE`, `MaxRuns = 2` | `agent.ts:612`: the `finally` of one run clears the state of the next | message at line 405 |
| `RequestsAreSendable` | without its premise `~threw` | `agent-loop.ts:682`: a throwing `afterToolCall` leaves calls unanswered | validation refuses later requests |
| `ReturnsAfterRetry` | add it to SessionReturns.cfg as a PROPERTY | `agent-session.ts:665` resolves on the first good answer, while the run goes on | line 3504 |
| `AbortStopsRetrying` | add it to SessionReturns.cfg | `agent-session.ts:3497`: an abort between two delays does not stop the next | `docs/rpc.md:610` |
| `RemovesOnlyFailures` | SessionRetry.cfg with `MaxSteers = 1` and `QuickRuns = TRUE` or `SlowExtensions = TRUE` | `agent-session.ts:3418` removes the last assistant message, whichever it is by then | line 3416 |
| `StateMatchesSession` | SessionRetry.cfg with `PromptsWait = FALSE` | `agent-session.ts:1626`: a compaction that overlaps a run replaces messages not yet persisted | `docs/sdk.md:177` |
| `StateMatchesSession` | SessionRetry.cfg with `QuickRuns = TRUE`, three prompts and compactions, no fallback, exceptions or turns | `agent-session.ts:2859`: the timer that prompt()'s compaction leaves starts a run while the overflow of the prompt's own run is compacted, which replaces the agent's messages (`:1626`) before the answer of that run is persisted | `docs/sdk.md:177` |
| `RetriesBounded` | the same with `PromptsWait = FALSE` | overlapping callers recover from one overflow twice | bound of `maxRetries` |
| `ObservedRevisionsGrow` | add it to Records.cfg | `long-horizon/continuation-scheduler.ts:238`: a cycle is scheduled for the revision its request expects, which may be older than the one the cancellation before it observed | `core/long-horizon/docs/cs-matrix.md:50` |
| `AnyOpenCycleCanBeCancelled` | add it to Records.cfg | `long-horizon/continuation-scheduler.ts:238`: the revision that SCHEDULE expects is never compared with the execution's, so a cycle scheduled for a later revision can be neither dispatched nor cancelled until the execution gets there | `core/long-horizon/docs/cs-matrix.md:18` |
| `JobIsAccountedFor` | Records.cfg with `RequireIsDefined = FALSE` | `jobs/process-identity.ts:62` calls `require` in an ES module; under Node every process then counts as gone, and `stop` leaves it running | the package is `"type": "module"` |
| `CredentialsPreserved` | add it to Credentials.cfg | `auth-storage.ts:99`: a write that dies or fails after the truncation leaves an empty file, which line 238 reads as no credentials, and the next login writes only its own | comment at line 466 |
| `AnyFailureReleases` | add it to Workspace.cfg | `safety/manager.ts:361` releases the lease for two kinds of errors only; line 294 is outside any `try`, and lines 353 and 355 skip the release when the journal cannot be written | comment at line 239 |
| `FailedWritesAreUndone` | add it to Workspace.cfg | `safety/transaction.ts:211` and `:226` truncate or create the file before `appliedSha` and `changed` are set, so line 355 skips it, and the record says rolled back | comment at line 95 |
| `RevisionNamesList`, `UpdatesSpareOthers` | in TodosOfBranch.cfg | the engine of another branch or session: revisions and snapshots of what the model was told elsewhere | `docs/rpc.md:403` |

The passing runs therefore hold under what their cfg or the property itself says:
listeners do not prompt, nobody steers during a retry in SessionRetry and runs there
last longer than the timers set before them (`QuickRuns = FALSE`), callers wait
until all events are handled, sessions of old versions are not forked (in Conversation.cfg), `require` is there, the
todo list stays on its branch. `PromptReturns` passes when
errors are retryable and no run throws. Reported events are kept
(`AnswersAreKept`, in `CommandsAreSound`) while no two commands overlap; with two,
what one of them reported may be missing, and the history still replays.

**What the exceptions in the properties stand for.**

* *Leases.* Two processes that recover the same stale lease may both hold it
  (`lease.ts:99`; variable `stolen`). The lease stays behind when its file cannot
  be written, read or removed, when `appendEvent` fails at `manager.ts:294`, `:302`,
  `:353` or `:355`, and when the transaction cannot be begun or its checkpoint not
  made (`:300`, `:301`, `:361`). A failure at `:350` rolls a confirmed transaction back
  although its lease is gone.
* *Transactions.* A file whose write or restore is cut short stays as it is, and the
  record says rolled back all the same (`spoiled`; `transaction.ts:211`, `:226`,
  `:355`, `:382`, `:398`). A crash mid-batch leaves a record without paths, so that an
  operator's rollback restores nothing and says rolled back, and a rollback of a
  confirmed transaction that is cut short leaves it called confirmed (`outdated`). A
  file the transaction deleted and the user made again is overwritten by a rollback.
* *Credentials.* A lock lost in a slow refresh lets two processes refresh, and the
  first one to create the file does so without the lock (`auth-storage.ts:56`). A
  write that dies or fails half way may erase all credentials (`erased`; lines 99 and
  144). A process that lost the race cannot read the winner's token while the winner
  awaits `release()` (line 152) or died before it, and reports a failure then.
* *Jobs.* A handler that read a record writes it over a newer one (`lost`); a
  registry that dies between starting a process and writing its pid forgets it;
  adoption goes by pid and name although `registry.ts:435` says it does not, and
  the late SIGKILL does not look at the identity again.
* *Language servers.* A server that another one displaced in the map, or that was
  still starting at `shutdownAll`, is nobody's (`displaced`).
* *Todo list.* A status is taken as it is when the snapshot had to make room
  (it is evicted twice per update, since `recordState` is called twice), and an
  update of status and content whose status is there already replaces the content
  without comparison.

**Seen while modelling, without a property.** `docs/rpc.md:61` says a steering
message skips the remaining tools, the loop executes them all; a message steered
after the last poll stays queued until the next run; the per-message validation
at `agent-session.ts:669` rejects tool turns that are still in progress and the
error is swallowed. After `/new` or a switch the todo tools keep the engine they
were made with: it answers "already applied" for updates of another session, and
is persisted into the new file. After a navigation a mere `todo_read` persists the
engine, not the list, onto the new branch. `todo_write` takes a list that differs
only in ids for no change. The heartbeat of the lease is never called, and the
wrapped edit and write tools take no lease. A server that ends with code 0 stays
degraded, and the next `getServer` after a crash loop starts with a counter of 0.
In `settings-manager.ts` no lock is taken when the file does not exist yet
(`:208`), and the marks of fields that were set during a write are cleared with
those of the write (`:492`). In `core/mission/store.ts:147` an expired lease
stays in the list and hides the one that replaced it.

## 6. Plan

1. Mission engine and store: task graph, approvals, crash between write
   and rename; the settings file and its two writers.
2. Composition: AgentSession over Agent, with a refinement from the runs of Agent
   to the single run AgentSession uses; the todo list over the session manager.
3. An abstract file with atomic updates, implemented by AuthStorage while no lock
   is lost.
4. Proofs: that a session file holds the entries of the
   process that writes it, from which `EntriesFormTree` and `ReloadRestores` follow.
5. Front ends: the queue of the Slack bot, RPC requests and responses, the input
   buffer of the terminal interface.
