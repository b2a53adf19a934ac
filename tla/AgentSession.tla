---------------------------- MODULE AgentSession ----------------------------
(***************************************************************************)
(* packages/coding-agent/src/core/agent-session.ts: what a session does    *)
(* around the agent's runs.  The events of a run are handled one after the *)
(* other in _agentEventQueue: messages are persisted, and the end of a run *)
(* may start a retry after a delay, switch to a fallback model, or compact *)
(* the conversation; each of these waits, and then calls agent.continue()  *)
(* from a timer.  Meanwhile prompt(), steer(), abort() and abortRetry()    *)
(* may be called.                                                          *)
(*                                                                         *)
(* The agent is what this code uses of it (module Agent has the rest).  A  *)
(* message is its kind: "user"; "tools", an answer with tool calls and     *)
(* their results; "ok", an answer that ends a run; or how an answer        *)
(* failed: "retryable", "fatal", "overflow" or "aborted".  retry.enabled   *)
(* and compaction.enabled are true, and the model in use has an API key.   *)
(***************************************************************************)
EXTENDS Integers, Sequences, SequencesExt, FiniteSets

CONSTANTS
    Outcomes,        \* how a run may end: "ok" and failures
    Throws,          \* may a run end in an exception?
    MaxRetries,      \* settings.maxRetries
    Fallbacks,       \* the number of fallback models
    SlowExtensions,  \* may an extension delay the handling of an event?
    PromptsWait,     \* do callers wait until all events are handled?
    QuickRuns,       \* may a run end before a timer of 100 ms that was set before it?
    MaxPrompts, MaxTurns, MaxSteers, MaxCompactions   \* bounds

ASSUME SessionAssumption ==
    /\ {"ok"} \subseteq Outcomes /\ Outcomes \subseteq {"ok", "retryable", "fatal", "overflow"}
    /\ {Throws, SlowExtensions, PromptsWait, QuickRuns} \subseteq BOOLEAN
    /\ {MaxRetries, Fallbacks, MaxPrompts, MaxTurns, MaxSteers, MaxCompactions} \subseteq Nat

VARIABLES
    messages,     \* agent.state.messages
    queued,       \* agent.hasQueuedMessages()
    run,          \* the agent's run: the caller of prompt() it belongs to, if any
    session,      \* the entries of the branch: message kinds and "compaction"
    kept,         \* firstKeptEntryId of the last compaction, as a position
    events,       \* _agentEventQueue; its head is being handled
    handler,      \* where the handler of the head waits
    lastAssistant,          \* _lastAssistantMessage
    retryAttempt,           \* _retryAttempt
    retryPromise,           \* is there a _retryPromise?
    sleep,                  \* _retryAbortController: "none", "armed" or "aborted"
    fallbackIndex,          \* _fallbackIndex + 1
    overflowAttempted,      \* _overflowRecoveryAttempted
    timers,                 \* scheduled calls of agent.continue()
    callers,                \* the calls of prompt()
    seen                    \* history for the properties

agentVars == <<messages, queued, run>>
retryVars == <<lastAssistant, retryAttempt, retryPromise, sleep, fallbackIndex, overflowAttempted>>
vars == <<agentVars, session, kept, events, handler, retryVars, timers, callers, seen>>

Prompts == 1..MaxPrompts
None == "none"
NoRun == [on |-> FALSE, by |-> 0, aborted |-> FALSE]
Free == [at |-> "free", retry |-> FALSE, cut |-> 0]
Caller(at) == [at |-> at, retry |-> FALSE, cut |-> 0]

MessageKinds == {"user", "tools", "ok", "retryable", "fatal", "overflow", "aborted"}
IsAssistant(kind) == kind \notin {"user", "summary", "tools", None}   \* as a last message
IsError(kind) == kind \in {"retryable", "fatal", "overflow"}          \* stopReason "error"

MessageEnd(kind) == [type |-> "message_end", kind |-> kind]
AgentEnd(kind) == [type |-> "agent_end", kind |-> kind]

SessionInit ==
    /\ messages = <<>> /\ queued = 0 /\ run = NoRun
    /\ session = <<>> /\ kept = 0 /\ events = <<>> /\ handler = Free
    /\ lastAssistant = None /\ retryAttempt = 0 /\ retryPromise = FALSE /\ sleep = "none"
    /\ fallbackIndex = 0 /\ overflowAttempted = FALSE
    /\ timers = 0 /\ callers = [i \in Prompts |-> Caller("none")]
    /\ seen = [autoRuns |-> 0, stopped |-> FALSE, steers |-> 0, turns |-> 0]

\* A timer, the network or the user acts only when the microtasks are done: the
\* handler has nothing to do or waits for something, and so has prompt().
Macrotask ==
    \/ SlowExtensions
    \/ /\ events = <<>> \/ handler.at # "free"
       /\ \A i \in Prompts : callers[i].at # "ready"

-----------------------------------------------------------------------------
(* Operators shared by the handlers *)

\* Mutant: slice(0, -2).
DropLast_OffByOne(ms) ==
    IF ms # <<>> /\ IsAssistant(Last(ms)) THEN SubSeq(ms, 1, Len(ms) - 2) ELSE ms

DropLast(ms) == IF ms # <<>> /\ IsAssistant(Last(ms)) THEN Front(ms) ELSE ms

LastCompaction(s) == SelectLastInSeq(s, LAMBDA k : k = "compaction")

\* What a sequence has of these kinds, in its order.
Only(s, kinds) ==
    LET upTo[n \in 0..Len(s)] ==
            IF n = 0 THEN <<>>
            ELSE IF s[n] \in kinds THEN Append(upTo[n - 1], s[n]) ELSE upTo[n - 1]
    IN  upTo[Len(s)]

\* buildSessionContext
Context(s, first) ==
    IF LastCompaction(s) = 0 THEN s
    ELSE <<"summary">> \o Only(SubSeq(s, first, Len(s)), MessageKinds)

\* Those that wait in waitForRetry() go on.
Resolved(cs) == [i \in Prompts |-> IF cs[i].at = "waiting" THEN Caller("returned") ELSE cs[i]]
ResolveRetry == retryPromise' = FALSE /\ callers' = Resolved(callers)
KeepRetry == UNCHANGED <<retryPromise, callers>>

EndEvent == events' = Tail(events) /\ handler' = Free

\* _checkCompaction.  An overflow is repaired once; an answer since the last
\* compaction (after an error, one that counted its tokens) may pass the
\* threshold.  Whether it does, and where prepareCompaction cuts, is left open.
SinceCompaction ==
    SubSeq(session, LastCompaction(session) + 1, Len(session))
        \o FlattenSeq([i \in DOMAIN events |->
               IF events[i].type = "message_end" THEN <<events[i].kind>> ELSE <<>>])
Fresh(kind) ==
    \E k \in Range(SinceCompaction) :
        IF kind \in {"retryable", "fatal"} THEN k \in {"tools", "ok"} ELSE k # "user"
NeedsOverflowRecovery(kind) == kind = "overflow" /\ ~overflowAttempted /\ Fresh(kind)
MayCompact(kind) == kind \notin {None, "overflow"} /\ Fresh(kind)
CanPrepare == /\ LastCompaction(session) < Len(session)
              /\ Cardinality({i \in DOMAIN session : session[i] = "compaction"}) < MaxCompactions
Cuts == (LastCompaction(session) + 1)..Len(session)

\* The end of the handler of agent_end.
CheckCompaction(kind, ms) ==
    \/ /\ NeedsOverflowRecovery(kind)
       /\ overflowAttempted' = TRUE /\ messages' = DropLast(ms)
       /\ IF CanPrepare
            THEN /\ \E cut \in Cuts : handler' = [at |-> "compacting", retry |-> TRUE, cut |-> cut]
                 /\ UNCHANGED events
            ELSE EndEvent
    \/ /\ MayCompact(kind) /\ kind # "aborted" /\ CanPrepare
       /\ \E cut \in Cuts : handler' = [at |-> "compacting", retry |-> FALSE, cut |-> cut]
       /\ messages' = ms /\ UNCHANGED <<events, overflowAttempted>>
    \/ /\ ~NeedsOverflowRecovery(kind)
       /\ EndEvent
       /\ messages' = ms /\ UNCHANGED overflowAttempted

\* Mutant: the agent is not given the compacted conversation.
FinalizeCompaction_NoReload(cut, retry) ==
    /\ session' = Append(session, "compaction") /\ kept' = cut
    /\ timers' = IF retry \/ queued > 0 THEN timers + 1 ELSE timers
    /\ UNCHANGED messages

\* _finalizeCompaction and what _runAutoCompaction does after it.
FinalizeCompaction(cut, retry) ==
    LET entries == Append(session, "compaction")
        context == Context(entries, cut)
    IN  /\ session' = entries /\ kept' = cut
        /\ messages' = IF retry /\ IsError(Last(context)) THEN Front(context) ELSE context
        /\ timers' = IF retry \/ queued > 0 THEN timers + 1 ELSE timers

-----------------------------------------------------------------------------
(* Runs of the agent *)

\* agent.prompt() and agent.continue() start a run with a user message or without.
StartRun(by, prompts) ==
    /\ run' = [NoRun EXCEPT !.on = TRUE, !.by = by]
    /\ messages' = messages \o prompts
    /\ events' = events \o [i \in DOMAIN prompts |-> MessageEnd("user")]

\* An answer with tool calls; the loop goes on.
RunTurn ==
    /\ run.on /\ ~run.aborted /\ seen.turns < MaxTurns /\ Macrotask
    /\ seen' = [seen EXCEPT !.turns = @ + 1]
    /\ messages' = Append(messages, "tools")
    /\ events' = Append(events, MessageEnd("tools"))
    /\ UNCHANGED <<queued, run, session, kept, handler, retryVars, timers, callers>>

\* The loop takes the queued message.
RunTakesQueued ==
    /\ run.on /\ ~run.aborted /\ queued > 0 /\ Macrotask
    /\ queued' = 0
    /\ messages' = Append(messages, "user")
    /\ events' = Append(events, MessageEnd("user"))
    /\ seen' = [seen EXCEPT !.autoRuns = 0]
    /\ UNCHANGED <<run, session, kept, handler, retryVars, timers, callers>>

\* The end of a run: agent_end is emitted, _handleAgentEvent makes the promise of
\* a retry before the event is queued, and prompt() goes on to waitForRetry().
RunOver(kind, ended) ==
    /\ run' = NoRun
    /\ messages' = Append(messages, kind)
    /\ events' = events \o ended
    /\ retryPromise' = (retryPromise \/ kind = "retryable")
    /\ callers' = IF run.by = 0 THEN callers
                  ELSE [callers EXCEPT ![run.by] =
                           Caller(IF retryPromise' THEN "waiting" ELSE "returned")]

RunEnds(kind) ==
    /\ run.on /\ Macrotask /\ (QuickRuns \/ timers = 0)
    /\ IF kind = "aborted" THEN run.aborted ELSE kind \in Outcomes
    /\ kind = "ok" => queued = 0
    /\ RunOver(kind, <<MessageEnd(kind), AgentEnd(kind)>>)
    /\ UNCHANGED <<queued, session, kept, handler, lastAssistant, retryAttempt, sleep,
                   fallbackIndex, overflowAttempted, timers, seen>>

\* The catch block of _runLoop: no message_end is emitted.
RunThrows(kind) ==
    /\ Throws /\ run.on /\ Macrotask /\ (QuickRuns \/ timers = 0)
    /\ kind \in IF run.aborted THEN {"aborted"} ELSE Outcomes \cap {"retryable", "fatal"}
    /\ RunOver(kind, <<AgentEnd(kind)>>)
    /\ UNCHANGED <<queued, session, kept, handler, lastAssistant, retryAttempt, sleep,
                   fallbackIndex, overflowAttempted, timers, seen>>

\* A timer calls agent.continue(); its errors are ignored.
ContinueFires ==
    LET last == IF messages = <<>> THEN None ELSE Last(messages)
    IN  /\ timers > 0 /\ Macrotask /\ timers' = timers - 1
        /\ \/ /\ ~run.on /\ messages # <<>> /\ ~IsAssistant(last)
              /\ StartRun(0, <<>>)
              /\ seen' = [seen EXCEPT !.autoRuns = @ + 1] /\ UNCHANGED queued
           \/ /\ ~run.on /\ IsAssistant(last) /\ queued > 0
              /\ StartRun(0, <<"user">>)
              /\ queued' = 0 /\ seen' = [seen EXCEPT !.autoRuns = 0]
           \/ /\ run.on \/ messages = <<>> \/ (IsAssistant(last) /\ queued = 0)
              /\ UNCHANGED <<agentVars, events, seen>>
        /\ UNCHANGED <<session, kept, handler, retryVars, callers>>

-----------------------------------------------------------------------------
(* The event queue *)

AtHead(type) == events # <<>> /\ handler.at = "free" /\ Head(events).type = type

\* Mutant: every answer, also a failed one, resets the counter of retries.
HandleMessageEnd_AlwaysResets ==
    LET kind == Head(events).kind
    IN  /\ AtHead("message_end")
        /\ session' = Append(session, kind)
        /\ lastAssistant' = IF kind = "user" THEN lastAssistant ELSE kind
        /\ overflowAttempted' = FALSE
        /\ IF kind # "user" /\ retryAttempt > 0
             THEN retryAttempt' = 0 /\ ResolveRetry
             ELSE KeepRetry /\ UNCHANGED retryAttempt
        /\ EndEvent
        /\ UNCHANGED <<agentVars, kept, sleep, fallbackIndex, timers, seen>>

\* A message is persisted; an answer without error ends a retry.
HandleMessageEnd ==
    LET kind == Head(events).kind
        success == kind # "user" /\ ~IsError(kind)
    IN  /\ AtHead("message_end")
        /\ session' = Append(session, kind)
        /\ lastAssistant' = IF kind = "user" THEN lastAssistant ELSE kind
        /\ overflowAttempted' = (overflowAttempted /\ kind # "user" /\ ~success)
        /\ IF success /\ retryAttempt > 0
             THEN retryAttempt' = 0 /\ ResolveRetry
             ELSE KeepRetry /\ UNCHANGED retryAttempt
        /\ seen' = IF success THEN [seen EXCEPT !.autoRuns = 0] ELSE seen
        /\ EndEvent
        /\ UNCHANGED <<agentVars, kept, sleep, fallbackIndex, timers>>

\* Mutant: giving up neither tries a fallback model nor resolves the promise.
HandleRetryable_NoResolve ==
    /\ AtHead("agent_end") /\ lastAssistant = "retryable" /\ lastAssistant' = None
    /\ IF retryAttempt < MaxRetries
         THEN /\ retryAttempt' = retryAttempt + 1 /\ retryPromise' = TRUE
              /\ messages' = DropLast(messages)
              /\ sleep' = "armed" /\ handler' = [Free EXCEPT !.at = "sleeping"]
              /\ UNCHANGED <<events, overflowAttempted, callers>>
         ELSE /\ retryAttempt' = 0 /\ KeepRetry
              /\ CheckCompaction("retryable", messages)
              /\ UNCHANGED sleep
    /\ UNCHANGED <<queued, run, session, kept, fallbackIndex, timers, seen>>

\* _handleRetryableError, up to its wait.
HandleRetryable ==
    /\ AtHead("agent_end") /\ lastAssistant = "retryable" /\ lastAssistant' = None
    /\ IF retryAttempt < MaxRetries
         THEN /\ retryAttempt' = retryAttempt + 1 /\ retryPromise' = TRUE
              /\ messages' = DropLast(messages)
              /\ sleep' = "armed" /\ handler' = [Free EXCEPT !.at = "sleeping"]
              /\ UNCHANGED <<events, fallbackIndex, overflowAttempted, callers>>
         ELSE IF fallbackIndex < Fallbacks
         THEN /\ retryAttempt' = retryAttempt + 1 /\ retryPromise' = TRUE
              /\ fallbackIndex' = fallbackIndex + 1
              /\ handler' = [Free EXCEPT !.at = "fallback", !.retry = TRUE]
              /\ UNCHANGED <<messages, events, sleep, overflowAttempted, callers>>
         ELSE /\ retryAttempt' = 0 /\ ResolveRetry
              /\ CheckCompaction("retryable", messages)
              /\ UNCHANGED <<sleep, fallbackIndex>>
    /\ UNCHANGED <<queued, run, session, kept, timers, seen>>

\* The delay is over: continue() is called in a timer.
WakeUp ==
    /\ handler.at = "sleeping" /\ sleep = "armed"
    /\ sleep' = "none" /\ timers' = timers + 1 /\ EndEvent
    /\ UNCHANGED <<agentVars, session, kept, lastAssistant, retryAttempt, retryPromise,
                   fallbackIndex, overflowAttempted, callers, seen>>

\* The delay was aborted.
SleepAborted ==
    /\ handler.at = "sleeping" /\ sleep = "aborted"
    /\ sleep' = "none" /\ retryAttempt' = 0 /\ ResolveRetry
    /\ CheckCompaction("retryable", messages)
    /\ UNCHANGED <<queued, run, session, kept, lastAssistant, fallbackIndex, timers, seen>>

\* agent_end after any other answer: an error may switch to a fallback model.
HandleAgentEnd ==
    /\ AtHead("agent_end") /\ lastAssistant # "retryable" /\ lastAssistant' = None
    /\ \/ /\ lastAssistant = None
          /\ EndEvent /\ UNCHANGED <<messages, fallbackIndex, overflowAttempted>>
       \/ /\ lastAssistant = "fatal" /\ fallbackIndex < Fallbacks
          /\ fallbackIndex' = fallbackIndex + 1
          /\ handler' = [Free EXCEPT !.at = "fallback"]
          /\ UNCHANGED <<messages, events, overflowAttempted>>
       \/ /\ lastAssistant # None /\ ~(lastAssistant = "fatal" /\ fallbackIndex < Fallbacks)
          /\ CheckCompaction(lastAssistant, messages)
          /\ UNCHANGED fallbackIndex
    /\ UNCHANGED <<queued, run, session, kept, retryAttempt, retryPromise, sleep, timers, callers, seen>>

\* Mutant: the promise is dropped without being resolved.
FallbackReady_DropsPromise ==
    /\ handler.at = "fallback"
    /\ messages' = DropLast(messages) /\ retryAttempt' = 0 /\ timers' = timers + 1
    /\ retryPromise' = FALSE
    /\ EndEvent
    /\ UNCHANGED <<queued, run, session, kept, lastAssistant, sleep, fallbackIndex,
                   overflowAttempted, callers, seen>>

\* _handleFallback: the model has an API key; the run is restarted with it.
FallbackReady ==
    /\ handler.at = "fallback"
    /\ messages' = DropLast(messages) /\ retryAttempt' = 0 /\ timers' = timers + 1
    /\ IF handler.retry THEN ResolveRetry ELSE KeepRetry
    /\ EndEvent
    /\ UNCHANGED <<queued, run, session, kept, lastAssistant, sleep, fallbackIndex, overflowAttempted, seen>>

\* It has none: the next one is tried, if there is one.
FallbackNoKey ==
    /\ handler.at = "fallback"
    /\ IF fallbackIndex < Fallbacks
         THEN /\ fallbackIndex' = fallbackIndex + 1 /\ KeepRetry
              /\ UNCHANGED <<messages, events, handler, retryAttempt, overflowAttempted>>
         ELSE /\ IF handler.retry THEN ResolveRetry /\ retryAttempt' = 0
                                  ELSE KeepRetry /\ UNCHANGED retryAttempt
              /\ CheckCompaction(IF handler.retry THEN "retryable" ELSE "fatal", messages)
              /\ UNCHANGED fallbackIndex
    /\ UNCHANGED <<queued, run, session, kept, lastAssistant, sleep, timers, seen>>

HandlerCompacts ==
    /\ handler.at = "compacting"
    /\ FinalizeCompaction(handler.cut, handler.retry)
    /\ EndEvent
    /\ UNCHANGED <<queued, run, retryVars, callers, seen>>

\* No key, nothing to compact, an error, or abortCompaction().
HandlerCompactionFails ==
    /\ handler.at = "compacting"
    /\ EndEvent
    /\ UNCHANGED <<agentVars, session, kept, retryVars, timers, callers, seen>>

-----------------------------------------------------------------------------
(* Calls from outside *)

Quiet == ~run.on /\ events = <<>> /\ \A i \in Prompts : callers[i].at \notin {"compacting", "ready"}

\* prompt() checks the last answer, aborted or not, before it starts the run.
PromptCompactions(retry) ==
    IF CanPrepare THEN [at : {"compacting"}, retry : {retry}, cut : Cuts] ELSE {Caller("ready")}

LastAnswer ==
    LET i == SelectLastInSeq(messages, LAMBDA k : k \notin {"user", "summary"})
    IN  IF i = 0 THEN None ELSE messages[i]

Prompt(i) ==
    /\ Macrotask /\ ~run.on /\ callers[i].at = "none"
    /\ \A j \in Prompts : j < i => callers[j].at = "returned"
    /\ PromptsWait => Quiet /\ timers = 0
    /\ \/ /\ NeedsOverflowRecovery(LastAnswer)
          /\ overflowAttempted' = TRUE /\ messages' = DropLast(messages)
          /\ \E next \in PromptCompactions(TRUE) : callers' = [callers EXCEPT ![i] = next]
       \/ /\ MayCompact(LastAnswer)
          /\ \E next \in PromptCompactions(FALSE) : callers' = [callers EXCEPT ![i] = next]
          /\ UNCHANGED <<messages, overflowAttempted>>
       \/ /\ ~NeedsOverflowRecovery(LastAnswer)
          /\ callers' = [callers EXCEPT ![i] = Caller("ready")]
          /\ UNCHANGED <<messages, overflowAttempted>>
    /\ UNCHANGED <<queued, run, session, kept, events, handler, lastAssistant, retryAttempt,
                   retryPromise, sleep, fallbackIndex, timers, seen>>

PromptCompacted(i) ==
    /\ callers[i].at = "compacting"
    /\ \/ FinalizeCompaction(callers[i].cut, callers[i].retry)
       \/ UNCHANGED <<messages, session, kept, timers>>      \* it failed or was aborted
    /\ callers' = [callers EXCEPT ![i] = Caller("ready")]
    /\ UNCHANGED <<queued, run, events, handler, retryVars, seen>>

\* agent.prompt() is called; it throws when a timer started a run meanwhile.
PromptStarts(i) ==
    /\ callers[i].at = "ready"
    /\ \/ /\ ~run.on
          /\ callers' = [callers EXCEPT ![i] = Caller("running")]
          /\ StartRun(i, <<"user">>)
          /\ seen' = [seen EXCEPT !.autoRuns = 0, !.stopped = FALSE]
       \/ /\ run.on
          /\ callers' = [callers EXCEPT ![i] = Caller("returned")]
          /\ UNCHANGED <<run, messages, events, seen>>
    /\ UNCHANGED <<queued, session, kept, handler, retryVars, timers>>

Steer ==
    /\ Macrotask /\ seen.steers < MaxSteers /\ queued = 0
    /\ queued' = 1 /\ seen' = [seen EXCEPT !.steers = @ + 1]
    /\ UNCHANGED <<messages, run, session, kept, events, handler, retryVars, timers, callers>>

\* abortRetry(); abort() also aborts the agent's run.
AbortRetry(andRun) ==
    /\ Macrotask
    /\ retryPromise \/ sleep = "armed" \/ (andRun /\ run.on /\ ~run.aborted)
    /\ sleep' = IF sleep = "armed" THEN "aborted" ELSE sleep
    /\ IF retryPromise THEN ResolveRetry ELSE KeepRetry
    /\ run' = IF andRun /\ run.on THEN [run EXCEPT !.aborted = TRUE] ELSE run
    /\ seen' = [seen EXCEPT !.stopped = TRUE]
    /\ UNCHANGED <<messages, queued, session, kept, events, handler, lastAssistant, retryAttempt,
                   fallbackIndex, overflowAttempted, timers>>

RunStep == RunTurn \/ RunTakesQueued \/ (\E kind \in Outcomes \cup {"aborted"} : RunEnds(kind) \/ RunThrows(kind))

HandlerStep ==
    \/ HandleMessageEnd \/ HandleRetryable \/ WakeUp \/ SleepAborted \/ HandleAgentEnd
    \/ FallbackReady \/ FallbackNoKey \/ HandlerCompacts \/ HandlerCompactionFails

PromptStep == \E i \in Prompts : PromptCompacted(i) \/ PromptStarts(i)

OutsideStep ==
    \/ \E i \in Prompts : Prompt(i)
    \/ Steer
    \/ \E andRun \in BOOLEAN : AbortRetry(andRun)

SessionNext == RunStep \/ HandlerStep \/ ContinueFires \/ PromptStep \/ OutsideStep

AgentSessionSpec == SessionInit /\ [][SessionNext]_vars

\* Runs end, timers fire, and whatever a handler or a prompt awaits is settled.
FairSessionSpec ==
    /\ AgentSessionSpec
    /\ WF_vars(RunStep) /\ WF_vars(HandlerStep) /\ WF_vars(ContinueFires) /\ WF_vars(PromptStep)

-----------------------------------------------------------------------------
\* Type invariant: the handler waits for what it says it waits for.
TypeOK ==
    /\ handler.at \in {"free", "sleeping", "fallback", "compacting"}
    /\ handler.at # "free" => events # <<>> /\ Head(events).type = "agent_end"
    /\ (handler.at = "sleeping") = (sleep # "none")
    /\ retryAttempt \in 0..(MaxRetries + 1) /\ fallbackIndex \in 0..Fallbacks

\* Whoever waits in waitForRetry() can still be released: the promise it awaits is
\* the one the session holds, however the calls of prompt(), the retries and the
\* aborts overlap.
WaitersHoldPromise == \A i \in Prompts : callers[i].at = "waiting" => retryPromise

Visible(s) == Only(s, {"user", "tools", "ok", "summary"})

\* docs/sdk.md, line 177: state.messages is the "conversation history".  When
\* everything is handled, the agent holds what the session would be rebuilt with.
StateMatchesSession ==
    (Quiet /\ handler.at = "free") => Visible(messages) = Visible(Context(session, kept))

\* However runs fail, the counters stay in their ranges and a prompt is answered or
\* given up after a bounded number of runs nobody asked for: the retries of every
\* model, the first run of every fallback, one after an overflow, and, when prompt()
\* repairs an older overflow first, the run its timer starts and the retries that begin
\* again when one of the two runs is given up.
RetriesBounded ==
    TypeOK /\ seen.autoRuns <= ((2 * MaxRetries + Fallbacks * (MaxRetries + 1)) + 2)

\* agent-session.ts, line 3416: what is removed before a retry is the "error
\* message".  All that a step other than a compaction takes from the conversation is
\* one answer at its end, and one that failed.
RemovesOnlyFailures ==
    [][session' = session \/ Last(session') # "compaction" =>
          \/ IsPrefix(messages, messages')
          \/ messages' = Front(messages) /\ IsError(Last(messages))]_vars

\* agent-session.ts, line 3389: retries are resolved "so waitForRetry() completes".
\* Every call of prompt() returns.
PromptReturns == \A i \in Prompts : callers[i].at # "none" ~> callers[i].at = "returned"

\* agent-session.ts, line 3504: waitForRetry() waits "for any in-progress retry to
\* complete".  Unless it was aborted, prompt() returns when no retry is running or
\* about to.
ReturnsAfterRetry ==
    [][\A i \in Prompts :
          callers[i].at = "waiting" /\ callers'[i].at = "returned" /\ ~seen'.stopped =>
              timers' = 0 /\ (run'.on => run'.by # 0)]_vars

\* docs/rpc.md, line 610: abort_retry will "cancel the delay and stop retrying".
AbortStopsRetrying == ~(seen.stopped /\ sleep = "armed")
=============================================================================
