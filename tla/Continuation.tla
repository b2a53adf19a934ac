---------------------------- MODULE Continuation ----------------------------
(***************************************************************************)
(* packages/coding-agent/src/core/long-horizon/continuation-scheduler.ts   *)
(* and the continuation commands of cli.ts: the cycles in which the work   *)
(* on an execution record is continued.                                    *)
(*                                                                         *)
(* The scheduler record is a file with the history of its events.  Every   *)
(* command is a process: it reads the file, reads the revision of the      *)
(* execution record, decides, and replaces the file by renaming a new one  *)
(* over it.  Commands may overlap, and may die before they write.          *)
(*                                                                         *)
(* A digest is what it is computed from: that of a history is the sequence *)
(* of its events' ids, which are distinct in a record.                     *)
(***************************************************************************)
EXTENDS Integers, Sequences, SequencesExt, FiniteSetsExt

CONSTANTS
    Commands,         \* processes that may run at the same time
    Continuations,    \* dispatchedContinuationId
    Ahead,            \* how far a request may be ahead of the execution's revision
    MaxEvents,        \* bound on the events ever persisted
    MaxRevision       \* bound on the execution's revision

ASSUME ContinuationAssumption == {Ahead, MaxEvents, MaxRevision} \subseteq Nat

VARIABLES
    scheduler,    \* ContinuationSchedulerRecord in the file, a new one if there is none
    revision,     \* revision of the execution record, in its file
    command,      \* what each process has read
    answers,      \* the events commands reported as persisted
    overlapped    \* did two commands ever run at the same time?

continuationVars == <<scheduler, revision, command, answers, overlapped>>

Absent == 0         \* an absent cycleId, revision or continuation
NoRevision == -1

\* initializeContinuationScheduler
NewScheduler == [state |-> "IDLE", events |-> <<>>, historyDigest |-> <<>>]

ComputeHistoryDigest(events) == [i \in DOMAIN events |-> events[i].eventId]
SchedulerRevision(record) == Len(record.events)

\* A request: expected is the expectedExecutionRevision of SCHEDULE, continuation
\* the id that DISPATCH and CONSUME name.
Request(kind, id, cycle, rev, expected, continuation) ==
    [kind |-> kind, eventId |-> id, cycleId |-> cycle, schedulerRevision |-> rev,
     expected |-> expected, continuation |-> continuation]

\* Requests with an id no caller has used.
NewRequests(record) ==
    LET id == Cardinality(answers) + 1
        revs == 0..SchedulerRevision(record)
        cycles == {e.eventId : e \in ToSet(record.events)}
    IN  {Request("SCHEDULE", id, id, rev, e, Absent) : rev \in revs, e \in 0..(revision + Ahead)}
        \cup {Request(k, id, c, rev, NoRevision, w) :
            k \in {"DISPATCH", "CONSUME"}, c \in cycles, rev \in revs, w \in Continuations}
        \cup {Request(k, id, c, rev, NoRevision, Absent) :
            k \in {"CANCEL", "ABANDON"}, c \in cycles, rev \in revs}

\* The request of an event, sent again.
RequestOf(e) ==
    Request(e.kind, e.eventId, e.cycleId, e.requestSchedulerRevision, e.expected, e.continuation)

Closes(e) == e.kind \in {"CONSUME", "CANCEL", "ABANDON"}

-----------------------------------------------------------------------------
(* The decision *)

\* findActiveScheduleEvent, findActiveDispatchEvent: the last one of a cycle that
\* no later event closed; 0 if there is none.
FindActive(events, kind) ==
    LET open == {i \in DOMAIN events :
                   /\ events[i].kind = kind
                   /\ \A j \in (i + 1)..Len(events) :
                        ~(Closes(events[j]) /\ events[j].cycleId = events[i].cycleId)}
    IN  IF open = {} THEN 0 ELSE Max(open)

\* checkIdempotency: an event with the id of the request decides the answer.
Existing(record, request) ==
    SelectInSeq(record.events, LAMBDA e : e.eventId = request.eventId)

SameFingerprint(e, request) ==
    /\ e.kind = request.kind /\ e.cycleId = request.cycleId
    /\ e.requestSchedulerRevision = request.schedulerRevision
    /\ e.expected = request.expected /\ e.continuation = request.continuation

\* Mutant: a dispatch that got no answer is repeated.
FromStates_Redispatch(kind) ==
    CASE kind = "SCHEDULE" -> {"IDLE"}
      [] kind = "CONSUME" -> {"DISPATCHED"}
      [] OTHER -> {"SCHEDULED", "DISPATCHED"}

FromStates(kind) ==
    CASE kind = "SCHEDULE" -> {"IDLE"}
      [] kind = "DISPATCH" -> {"SCHEDULED"}
      [] kind = "CONSUME" -> {"DISPATCHED"}
      [] OTHER -> {"SCHEDULED", "DISPATCHED"}

ToState(kind) ==
    CASE kind = "SCHEDULE" -> "SCHEDULED"
      [] kind = "DISPATCH" -> "DISPATCHED"
      [] OTHER -> "IDLE"

\* Mutant: a superseded cycle cannot be cancelled.
RevisionAllows_CancelCurrent(kind, due, current) ==
    CASE kind \in {"DISPATCH", "CONSUME", "CANCEL"} -> current = due
      [] kind = "ABANDON" -> current > due

\* The supersession guards: current is the revision of the execution record, due the
\* one the cycle was scheduled for.
RevisionAllows(kind, due, current) ==
    CASE kind \in {"DISPATCH", "CONSUME"} -> current = due
      [] kind = "CANCEL" -> current >= due
      [] kind = "ABANDON" -> current > due

\* The fresh guards of the five mutations, in a record without the event.
FreshGuards(record, request, current) ==
    LET cycle == FindActive(record.events, "SCHEDULE")
        dispatch == FindActive(record.events, "DISPATCH")
    IN  /\ request.schedulerRevision = SchedulerRevision(record)
        /\ record.state \in FromStates(request.kind)
        /\ request.kind # "SCHEDULE" =>
             /\ cycle # 0 /\ record.events[cycle].eventId = request.cycleId
             /\ RevisionAllows(request.kind, record.events[cycle].expected, current)
        /\ request.kind = "CONSUME" =>
             dispatch # 0 /\ record.events[dispatch].continuation = request.continuation

\* Mutant: the revision of the cycle is recorded as the observed one.
EventFor_Due(record, request, current) ==
    LET observed == IF request.kind = "SCHEDULE" THEN request.expected
                    ELSE record.events[FindActive(record.events, "SCHEDULE")].expected
    IN  [eventId |-> request.eventId, kind |-> request.kind, cycleId |-> request.cycleId,
         requestSchedulerRevision |-> request.schedulerRevision, observed |-> observed,
         fromState |-> record.state, toState |-> ToState(request.kind),
         revisionBefore |-> SchedulerRevision(record), previousEventDigest |-> record.historyDigest,
         expected |-> request.expected, continuation |-> request.continuation]

\* The event a fresh request appends.
EventFor(record, request, current) ==
    LET observed == CASE request.kind = "SCHEDULE" -> request.expected
                      [] request.kind \in {"DISPATCH", "CONSUME"} ->
                           record.events[FindActive(record.events, "SCHEDULE")].expected
                      [] OTHER -> current
    IN  [eventId |-> request.eventId, kind |-> request.kind, cycleId |-> request.cycleId,
         requestSchedulerRevision |-> request.schedulerRevision, observed |-> observed,
         fromState |-> record.state, toState |-> ToState(request.kind),
         revisionBefore |-> SchedulerRevision(record), previousEventDigest |-> record.historyDigest,
         expected |-> request.expected, continuation |-> request.continuation]

WithEvent(record, e) ==
    LET events == Append(record.events, e)
    IN  [state |-> e.toState, events |-> events, historyDigest |-> ComputeHistoryDigest(events)]

-----------------------------------------------------------------------------
(* replayAndVerifyEvents *)

Unscheduled == [cycle |-> Absent, due |-> NoRevision, continuation |-> Absent]

\* What the replay of the events before position i expects of event i.
ReplayEvent(run, e, i, events) ==
    LET ok == /\ run.ok
              /\ e.previousEventDigest = ComputeHistoryDigest(SubSeq(events, 1, i - 1))
              /\ \A j \in 1..(i - 1) : events[j].eventId # e.eventId
              /\ e.revisionBefore = i - 1
              /\ e.fromState = run.state /\ e.fromState \in FromStates(e.kind)
              /\ e.toState = ToState(e.kind)
              /\ e.cycleId = IF e.kind = "SCHEDULE" THEN e.eventId ELSE run.active.cycle
              /\ CASE e.kind = "SCHEDULE" -> e.observed = e.expected
                   [] e.kind \in {"DISPATCH", "CONSUME"} -> e.observed = run.active.due
                   [] e.kind = "CANCEL" -> e.observed >= run.active.due
                   [] e.kind = "ABANDON" -> e.observed > run.active.due
              /\ e.kind = "CONSUME" => e.continuation = run.active.continuation
    IN  [ok |-> ok, state |-> e.toState,
         active |-> CASE e.kind = "SCHEDULE" ->
                           [cycle |-> e.cycleId, due |-> e.expected, continuation |-> Absent]
                      [] e.kind = "DISPATCH" -> [run.active EXCEPT !.continuation = e.continuation]
                      [] OTHER -> Unscheduled]

\* validateSchedulerStructure and the replay; the state in the file is not compared
\* with the replayed one.
ReplayAccepts(record) ==
    LET events == record.events
        run[i \in 0..Len(events)] ==
            IF i = 0 THEN [ok |-> TRUE, state |-> "IDLE", active |-> Unscheduled]
            ELSE ReplayEvent(run[i - 1], events[i], i, events)
    IN  /\ record.historyDigest = ComputeHistoryDigest(events)
        /\ run[Len(events)].ok

-----------------------------------------------------------------------------
(* The commands *)

NoCommand == [at |-> "idle", record |-> NewScheduler, current |-> NoRevision]

ContinuationInit ==
    /\ scheduler = NewScheduler /\ revision = 0
    /\ command = [c \in Commands |-> NoCommand] /\ answers = {} /\ overlapped = FALSE

\* A transition is applied to the execution record.
AdvanceExecution ==
    /\ revision < MaxRevision /\ revision' = revision + 1
    /\ UNCHANGED <<scheduler, command, answers, overlapped>>

\* continuation init writes an empty record, also over an existing one: a new
\* history begins.  It is not run while another command is under way.
InitScheduler ==
    /\ \A c \in Commands : command[c].at = "idle"
    /\ scheduler # NewScheduler /\ scheduler' = NewScheduler
    /\ answers' = {} /\ overlapped' = FALSE
    /\ UNCHANGED <<revision, command>>

ReadScheduler(c) ==
    /\ command[c].at = "idle"
    /\ command' = [command EXCEPT ![c] = [at |-> "scheduler", record |-> scheduler, current |-> NoRevision]]
    /\ overlapped' = (overlapped \/ \E d \in Commands : command[d].at # "idle")
    /\ UNCHANGED <<scheduler, revision, answers>>

\* readExecutionForBinding
ReadExecution(c) ==
    /\ command[c].at = "scheduler"
    /\ command' = [command EXCEPT ![c].at = "ready", ![c].current = revision]
    /\ UNCHANGED <<scheduler, revision, answers, overlapped>>

\* Mutant: SCHEDULE starts from a new record whether there is a file or not.
Persist_NewRecord(c, request) ==
    LET record == IF request.kind = "SCHEDULE" THEN NewScheduler ELSE command[c].record
        e == EventFor(record, request, command[c].current)
    IN  /\ command[c].at = "ready" /\ Cardinality(answers) < MaxEvents
        /\ Existing(record, request) = 0
        /\ FreshGuards(record, request, command[c].current)
        /\ scheduler' = WithEvent(record, e)
        /\ answers' = answers \cup {e}
        /\ command' = [command EXCEPT ![c] = NoCommand]
        /\ UNCHANGED <<revision, overlapped>>

\* The request is new and allowed: the file is replaced.
Persist(c, request) ==
    LET record == command[c].record
        e == EventFor(record, request, command[c].current)
    IN  /\ command[c].at = "ready" /\ Cardinality(answers) < MaxEvents
        /\ Existing(record, request) = 0
        /\ FreshGuards(record, request, command[c].current)
        /\ scheduler' = WithEvent(record, e)
        /\ answers' = answers \cup {e}
        /\ command' = [command EXCEPT ![c] = NoCommand]
        /\ UNCHANGED <<revision, overlapped>>

\* The request is a retry: it is answered with its event, and the record that was
\* read is written back.
PersistAgain(c, request) ==
    LET record == command[c].record
        i == Existing(record, request)
    IN  /\ command[c].at = "ready" /\ i # 0
        /\ SameFingerprint(record.events[i], request)
        /\ scheduler' = record
        /\ answers' = answers \cup {record.events[i]}
        /\ command' = [command EXCEPT ![c] = NoCommand]
        /\ UNCHANGED <<revision, overlapped>>

\* The request is refused, or the process dies.
GiveUp(c) ==
    /\ command[c].at # "idle"
    /\ command' = [command EXCEPT ![c] = NoCommand]
    /\ UNCHANGED <<scheduler, revision, answers, overlapped>>

ContinuationNext ==
    \/ AdvanceExecution \/ InitScheduler
    \/ \E c \in Commands :
         \/ ReadScheduler(c) \/ ReadExecution(c) \/ GiveUp(c)
         \/ \E request \in NewRequests(command[c].record) : Persist(c, request)
         \/ \E e \in answers : Persist(c, RequestOf(e)) \/ PersistAgain(c, RequestOf(e))

ContinuationSpec == ContinuationInit /\ [][ContinuationNext]_continuationVars

-----------------------------------------------------------------------------
\* However commands overlap, die and are retried, the file always holds a record
\* that the replay accepts, in the state its last event led to.
SchedulerReplays ==
    /\ ReplayAccepts(scheduler)
    /\ scheduler.state = IF scheduler.events = <<>> THEN "IDLE" ELSE Last(scheduler.events).toState

\* docs/cs-matrix.md, line 107: "Exact retries ... return the persisted original
\* event unchanged".  As long as no two commands ran at the same time, what was
\* reported and what the history holds are the same: a retry neither repeats an
\* event nor loses a later one.
AnswersAreKept == ~overlapped => answers = ToSet(scheduler.events)

\* A cycle is dispatched at most once, and consumed only for the revision it was
\* scheduled for, with the continuation it was dispatched to.
CyclesAreExclusive ==
    \A i, j \in DOMAIN scheduler.events :
        LET e == scheduler.events[i]
            d == scheduler.events[j]
        IN  /\ i < j /\ e.kind = d.kind => e.cycleId # d.cycleId
            /\ i < j /\ Closes(e) => e.cycleId # d.cycleId
            /\ (e.kind = "CONSUME" /\ d.kind = "DISPATCH" /\ e.cycleId = d.cycleId) =>
                 e.continuation = d.continuation /\ e.observed = d.observed

\* The request by which whoever has read both files cancels the open cycle.
CancelRequest(cycle) ==
    Request("CANCEL", Absent, scheduler.events[cycle].eventId, SchedulerRevision(scheduler),
            NoRevision, Absent)

\* A record that is not idle has an open cycle, and that one can be cancelled as soon as
\* the execution has reached the revision it was scheduled for, and no sooner: SCHEDULE
\* does not compare that revision with the execution's (line 238), so it may be a later one.
OpenCycleCanBeCancelled ==
    LET cycle == FindActive(scheduler.events, "SCHEDULE")
    IN  scheduler.state # "IDLE" =>
            /\ cycle # 0
            /\ FreshGuards(scheduler, CancelRequest(cycle), revision)
                 <=> scheduler.events[cycle].expected <= revision

\* docs/cs-matrix.md, line 18: CANCEL leads from SCHEDULED and DISPATCHED to IDLE, of any
\* cycle.
AnyOpenCycleCanBeCancelled ==
    LET cycle == FindActive(scheduler.events, "SCHEDULE")
    IN  scheduler.state # "IDLE" => FreshGuards(scheduler, CancelRequest(cycle), revision)

\* What every record the commands leave in the file has to be: a history that
\* replays, with cycles that are not repeated and can be cancelled in time, and with every event
\* that was reported.
CommandsAreSound ==
    SchedulerReplays /\ CyclesAreExclusive /\ OpenCycleCanBeCancelled /\ AnswersAreKept

\* docs/cs-matrix.md, line 50: observedExecutionRevision "Must be nondecreasing".
ObservedRevisionsGrow ==
    \A i, j \in DOMAIN scheduler.events :
        i < j => scheduler.events[i].observed <= scheduler.events[j].observed
=============================================================================
