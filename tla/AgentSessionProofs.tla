------------------------- MODULE AgentSessionProofs -------------------------
(***************************************************************************)
(* Theorems about AgentSession, for any number of prompts, retries and     *)
(* fallback models: who waits for a retry holds its promise, the counters  *)
(* stay in range, the runs nobody asked for are bounded, and the agent     *)
(* holds the conversation that its session would be rebuilt with.          *)
(***************************************************************************)
EXTENDS AgentSession, FiniteSetTheorems, SequenceTheorems, WellFoundedInduction, TLAPS

-----------------------------------------------------------------------------
(* The promise of a retry                                                  *)

\* What makes WaitersHoldPromise inductive.
PromiseInv == DOMAIN callers = Prompts /\ WaitersHoldPromise

\* resolveRetry lets everybody go on.
LEMMA NobodyWaits ==
    /\ DOMAIN Resolved(callers) = Prompts
    /\ \A i \in Prompts : Resolved(callers)[i].at # "waiting"
BY DEF Resolved, Caller

\* How a step may change what is known of the callers and of the promise: nobody begins to
\* wait, everybody is released, or one caller goes on to something else than waiting.
KeepsPromise ==
    \/ callers' = callers /\ (retryPromise => retryPromise')
    \/ callers' = Resolved(callers)
    \/ /\ retryPromise' = retryPromise
       /\ \E i \in Prompts : \E next : next.at # "waiting" /\ callers' = [callers EXCEPT ![i] = next]

\* waitForRetry: none of these leaves a caller with a promise that nobody resolves.
LEMMA PromiseKept == ASSUME PromiseInv, KeepsPromise PROVE PromiseInv'
<1>1. CASE callers' = callers /\ (retryPromise => retryPromise')
  BY <1>1 DEF PromiseInv, WaitersHoldPromise
<1>2. CASE callers' = Resolved(callers)
  BY <1>2, NobodyWaits DEF PromiseInv, WaitersHoldPromise
<1>3. CASE /\ retryPromise' = retryPromise
           /\ \E i \in Prompts : \E next : next.at # "waiting" /\ callers' = [callers EXCEPT ![i] = next]
  BY <1>3 DEF PromiseInv, WaitersHoldPromise
<1> QED
  BY <1>1, <1>2, <1>3 DEF KeepsPromise

\* Where the calls go that neither wait nor are resolved.
LEMMA OtherPlaces ==
    /\ \A at : Caller(at).at = at
    /\ \A retry : \A next \in PromptCompactions(retry) : next.at # "waiting"
BY DEF Caller, PromptCompactions

\* Every step of a run, a handler, a prompt or an abort keeps the promise of those who
\* wait: the end of a run makes one before anybody waits for it.
LEMMA PromiseHeld == AgentSessionSpec => []PromiseInv
<1>1. SessionInit => PromiseInv
  BY DEF SessionInit, PromiseInv, WaitersHoldPromise, Caller
<1>2. PromiseInv /\ [SessionNext]_vars => PromiseInv'
  <2> SUFFICES ASSUME PromiseInv, [SessionNext]_vars PROVE PromiseInv'
    OBVIOUS
  <2>1. ASSUME RunTurn \/ RunTakesQueued \/ ContinueFires \/ Steer \/ UNCHANGED vars PROVE KeepsPromise
    BY <2>1 DEF RunTurn, RunTakesQueued, ContinueFires, Steer, vars, retryVars, KeepsPromise
  <2>2. ASSUME NEW kind \in Outcomes \cup {"aborted"}, RunEnds(kind) \/ RunThrows(kind) PROVE PromiseInv'
    <3>1. /\ retryPromise' = (retryPromise \/ kind = "retryable")
          /\ callers' = IF run.by = 0 THEN callers
                        ELSE [callers EXCEPT ![run.by] = Caller(IF retryPromise' THEN "waiting" ELSE "returned")]
      BY <2>2 DEF RunEnds, RunThrows, RunOver
    <3>2. CASE retryPromise'
      BY <3>1, <3>2 DEF PromiseInv, WaitersHoldPromise
    <3>3. CASE ~retryPromise'
      <4>1. ~retryPromise
        BY <3>1, <3>3
      <4>2. callers' = callers \/ callers' = [callers EXCEPT ![run.by] = Caller("returned")]
        BY <3>1, <3>3
      <4> QED
        BY <3>3, <4>1, <4>2, OtherPlaces DEF PromiseInv, WaitersHoldPromise
    <3> QED
      BY <3>2, <3>3
  <2>3. ASSUME HandleMessageEnd \/ WakeUp \/ HandleAgentEnd \/ HandlerCompacts \/ HandlerCompactionFails PROVE KeepsPromise
    BY <2>3 DEF HandleMessageEnd, WakeUp, HandleAgentEnd, HandlerCompacts, HandlerCompactionFails,
       ResolveRetry, KeepRetry, KeepsPromise, retryVars
  <2>4. ASSUME HandleRetryable \/ SleepAborted \/ FallbackReady \/ FallbackNoKey PROVE KeepsPromise
    BY <2>4 DEF HandleRetryable, SleepAborted, FallbackReady, FallbackNoKey, ResolveRetry, KeepRetry, KeepsPromise
  <2>5. ASSUME NEW i \in Prompts, Prompt(i) PROVE KeepsPromise
    <3>1. retryPromise' = retryPromise
      BY <2>5 DEF Prompt
    <3>2. \/ \E retry : \E next \in PromptCompactions(retry) : callers' = [callers EXCEPT ![i] = next]
          \/ callers' = [callers EXCEPT ![i] = Caller("ready")]
      BY <2>5 DEF Prompt
    <3> QED
      BY <3>1, <3>2, OtherPlaces DEF KeepsPromise
  <2>6. ASSUME NEW i \in Prompts, PromptCompacted(i) \/ PromptStarts(i) PROVE KeepsPromise
    <3>1. /\ retryPromise' = retryPromise
          /\ \E at \in {"ready", "running", "returned"} : callers' = [callers EXCEPT ![i] = Caller(at)]
      BY <2>6 DEF PromptCompacted, PromptStarts, retryVars
    <3> QED
      BY <3>1, OtherPlaces DEF KeepsPromise
  <2>7. ASSUME NEW andRun \in BOOLEAN, AbortRetry(andRun) PROVE KeepsPromise
    BY <2>7 DEF AbortRetry, ResolveRetry, KeepRetry, KeepsPromise
  <2> QED
    BY <2>1, <2>2, <2>3, <2>4, <2>5, <2>6, <2>7, PromiseKept
       DEF SessionNext, RunStep, HandlerStep, PromptStep, OutsideStep
<1> QED
  BY <1>1, <1>2, PTL DEF AgentSessionSpec

\* prompt(): for any number of overlapping prompts, retries, fallbacks and aborts, whoever
\* waits for a retry waits for the promise the session still holds.
THEOREM WaitersHold == AgentSessionSpec => []WaitersHoldPromise
<1>1. PromiseInv => WaitersHoldPromise
  BY DEF PromiseInv
<1> QED
  BY <1>1, PromiseHeld, PTL

-----------------------------------------------------------------------------
(* The event queue, the handler of its head and the counters               *)

Kinds == Outcomes \cup {"user", "tools", "aborted"}
Events == [type : {"message_end", "agent_end"}, kind : Kinds]
Places == {"free", "sleeping", "fallback", "compacting"}
IsHandler(h) == DOMAIN h = {"at", "retry", "cut"} /\ h.at \in Places /\ h.retry \in BOOLEAN

\* What makes TypeOK inductive: the counter of retries passes its limit only while a
\* fallback model is looked for.
CountInv ==
    /\ events \in Seq(Events) /\ IsHandler(handler)
    /\ handler.at # "free" => events # <<>> /\ Head(events).type = "agent_end"
    /\ (handler.at = "sleeping") = (sleep # "none")
    /\ retryAttempt \in 0..(MaxRetries + 1) /\ fallbackIndex \in 0..Fallbacks
    /\ ~(handler.at = "fallback" /\ handler.retry) => retryAttempt <= MaxRetries

\* What is emitted goes to the end of the queue: the event under way stays its head.
LEMMA HeadStays ==
    ASSUME NEW S, NEW s \in Seq(S), NEW t \in Seq(S)
    PROVE  s \o t \in Seq(S) /\ (s # <<>> => s \o t # <<>> /\ Head(s \o t) = Head(s))
OBVIOUS

\* Handlers that go on to another place.
LEMMA HandlerGoesTo ==
    ASSUME NEW h, IsHandler(h), NEW place \in Places
    PROVE  /\ IsHandler([h EXCEPT !.at = place])
           /\ [h EXCEPT !.at = place].at = place /\ [h EXCEPT !.at = place].retry = h.retry
           /\ IsHandler([h EXCEPT !.at = place, !.retry = TRUE])
           /\ [h EXCEPT !.at = place, !.retry = TRUE].at = place /\ [h EXCEPT !.at = place, !.retry = TRUE].retry
BY DEF IsHandler

\* A handler that has ended.
LEMMA FreeHandler == IsHandler(Free) /\ Free.at = "free" /\ ~Free.retry
BY DEF Free, IsHandler, Places

\* _checkCompaction leaves the handler free or compacting.
LEMMA CheckLeaves ==
    ASSUME NEW kind, NEW ms, CheckCompaction(kind, ms)
    PROVE  \/ events' = Tail(events) /\ handler' = Free
           \/ UNCHANGED events /\ IsHandler(handler') /\ handler'.at = "compacting"
<1>1. \A retry \in BOOLEAN : \A cut :
         LET h == [at |-> "compacting", retry |-> retry, cut |-> cut] IN IsHandler(h) /\ h.at = "compacting"
  BY DEF IsHandler, Places
<1>2. \/ events' = Tail(events) /\ handler' = Free
      \/ UNCHANGED events /\ \E retry \in BOOLEAN : \E cut : handler' = [at |-> "compacting", retry |-> retry, cut |-> cut]
  BY DEF CheckCompaction, EndEvent
<1> QED
  BY <1>1, <1>2

\* Events are appended to the queue, whoever handles its head.
LEMMA EventsAppended ==
    ASSUME CountInv, NEW t \in Seq(Events), events' = events \o t,
           UNCHANGED <<handler, sleep, retryAttempt, fallbackIndex>>
    PROVE  CountInv'
BY HeadStays DEF CountInv

\* The handler of the head ends, or goes on to compact.
LEMMA HandlerEnds ==
    ASSUME CountInv, events # <<>>,
           \/ events' = Tail(events) /\ handler' = Free
           \/ UNCHANGED events /\ IsHandler(handler') /\ handler'.at = "compacting" /\ Head(events).type = "agent_end",
           sleep' = "none", retryAttempt' \in 0..MaxRetries, fallbackIndex' \in 0..Fallbacks
    PROVE  CountInv'
<1>1. MaxRetries \in Nat /\ Tail(events) \in Seq(Events)
  BY SessionAssumption DEF CountInv
<1>2. handler' = Free \/ handler'.at = "compacting"
  OBVIOUS
<1> QED
  BY <1>1, <1>2, FreeHandler DEF CountInv

\* What a run emits.
LEMMA Emitted ==
    ASSUME NEW kind \in Kinds
    PROVE  /\ <<MessageEnd(kind)>> \in Seq(Events) /\ <<AgentEnd(kind)>> \in Seq(Events)
           /\ <<MessageEnd(kind), AgentEnd(kind)>> \in Seq(Events) /\ MessageEnd(kind) \in Events
BY DEF MessageEnd, AgentEnd, Events

\* The messages that start a run: none, or one of the user.
LEMMA EmittedPrompts ==
    /\ [i \in DOMAIN <<>> |-> MessageEnd("user")] \in Seq(Events)
    /\ [i \in DOMAIN <<"user">> |-> MessageEnd("user")] \in Seq(Events)
<1>1. MessageEnd("user") \in Events
  BY Emitted DEF Kinds
<1>2. \A n \in Nat : [i \in 1..n |-> MessageEnd("user")] \in Seq(Events)
  BY <1>1
<1>3. DOMAIN <<>> = 1..0 /\ DOMAIN <<"user">> = 1..1
  OBVIOUS
<1> QED
  BY <1>2, <1>3

\* Every step of a run, a handler, a prompt or an abort keeps the counters in range.
LEMMA CountsBounded == AgentSessionSpec => []CountInv
<1>a. MaxRetries \in Nat /\ Fallbacks \in Nat /\ Outcomes \subseteq {"ok", "retryable", "fatal", "overflow"}
  BY SessionAssumption
<1>1. SessionInit => CountInv
  BY <1>a, FreeHandler DEF SessionInit, CountInv
<1>2. CountInv /\ [SessionNext]_vars => CountInv'
  <2> SUFFICES ASSUME CountInv, [SessionNext]_vars PROVE CountInv'
    OBVIOUS
  <2>c. /\ events \in Seq(Events) /\ IsHandler(handler)
        /\ handler.at # "free" => events # <<>> /\ Head(events).type = "agent_end"
        /\ (handler.at = "sleeping") = (sleep # "none")
        /\ retryAttempt \in 0..(MaxRetries + 1) /\ fallbackIndex \in 0..Fallbacks
        /\ ~(handler.at = "fallback" /\ handler.retry) => retryAttempt \in 0..MaxRetries
    BY <1>a DEF CountInv
  <2>1. CASE RunTurn \/ RunTakesQueued
    <3>1. \E kind \in Kinds : events' = Append(events, MessageEnd(kind))
      BY <2>1 DEF RunTurn, RunTakesQueued, Kinds
    <3>2. \E kind \in Kinds : events' = events \o <<MessageEnd(kind)>>
      <4>1. \A e \in Events : Append(events, e) = events \o <<e>>
        BY <2>c
      <4>2. \A kind \in Kinds : MessageEnd(kind) \in Events
        BY Emitted
      <4> QED
        BY <3>1, <4>1, <4>2
    <3>3. UNCHANGED <<handler, sleep, retryAttempt, fallbackIndex>>
      BY <2>1 DEF RunTurn, RunTakesQueued, retryVars
    <3> QED
      BY <3>2, <3>3, Emitted, EventsAppended
  <2>2. ASSUME NEW kind \in Outcomes \cup {"aborted"}, RunEnds(kind) \/ RunThrows(kind) PROVE CountInv'
    <3>1. /\ \E t \in {<<MessageEnd(kind), AgentEnd(kind)>>, <<AgentEnd(kind)>>} : events' = events \o t
          /\ UNCHANGED <<handler, sleep, retryAttempt, fallbackIndex>>
      BY <2>2 DEF RunEnds, RunThrows, RunOver
    <3>2. kind \in Kinds
      BY DEF Kinds
    <3> QED
      BY <3>1, <3>2, Emitted, EventsAppended
  <2>3. CASE ContinueFires \/ \E i \in Prompts : PromptStarts(i)
    <3>1. /\ UNCHANGED <<handler, sleep, retryAttempt, fallbackIndex>>
          /\ \/ events' = events
             \/ events' = events \o [i \in DOMAIN <<>> |-> MessageEnd("user")]
             \/ events' = events \o [i \in DOMAIN <<"user">> |-> MessageEnd("user")]
      BY <2>3 DEF ContinueFires, PromptStarts, StartRun, retryVars
    <3>2. CASE events' = events
      BY <3>1, <3>2 DEF CountInv
    <3> QED
      BY <3>1, <3>2, EmittedPrompts, EventsAppended
  <2>4. CASE HandleMessageEnd
    <3>1. /\ events # <<>> /\ handler.at = "free" /\ events' = Tail(events) /\ handler' = Free
          /\ UNCHANGED <<sleep, fallbackIndex>> /\ retryAttempt' \in {0, retryAttempt}
      BY <2>4 DEF HandleMessageEnd, AtHead, EndEvent
    <3> QED
      BY <1>a, <2>c, <3>1, HandlerEnds
  <2>5. CASE HandleRetryable
    <3>1. events # <<>> /\ handler.at = "free" /\ Head(events).type = "agent_end"
      BY <2>5 DEF HandleRetryable, AtHead
    <3>2. CASE retryAttempt < MaxRetries
      <4>1. /\ retryAttempt' = retryAttempt + 1 /\ sleep' = "armed" /\ handler' = [Free EXCEPT !.at = "sleeping"]
            /\ UNCHANGED <<events, fallbackIndex>>
        BY <2>5, <3>2 DEF HandleRetryable
      <4>2. IsHandler(handler') /\ handler'.at = "sleeping"
        BY <4>1, FreeHandler, HandlerGoesTo DEF Places
      <4> QED
        BY <1>a, <2>c, <3>1, <3>2, <4>1, <4>2 DEF CountInv
    <3>3. CASE ~(retryAttempt < MaxRetries) /\ fallbackIndex < Fallbacks
      <4>1. /\ retryAttempt' = retryAttempt + 1 /\ fallbackIndex' = fallbackIndex + 1
            /\ handler' = [Free EXCEPT !.at = "fallback", !.retry = TRUE] /\ UNCHANGED <<events, sleep>>
        BY <2>5, <3>3 DEF HandleRetryable
      <4>2. IsHandler(handler') /\ handler'.at = "fallback" /\ handler'.retry
        BY <4>1, FreeHandler, HandlerGoesTo DEF Places
      <4>3. retryAttempt' \in 0..(MaxRetries + 1) /\ fallbackIndex' \in 0..Fallbacks
        BY <1>a, <2>c, <3>1, <3>3, <4>1
      <4> QED
        BY <2>c, <3>1, <4>1, <4>2, <4>3 DEF CountInv
    <3>4. CASE ~(retryAttempt < MaxRetries) /\ ~(fallbackIndex < Fallbacks)
      <4>1. retryAttempt' = 0 /\ CheckCompaction("retryable", messages) /\ UNCHANGED <<sleep, fallbackIndex>>
        BY <2>5, <3>4 DEF HandleRetryable
      <4> QED
        BY <1>a, <2>c, <3>1, <4>1, CheckLeaves, HandlerEnds
    <3> QED
      BY <3>2, <3>3, <3>4
  <2>6. CASE WakeUp
    <3>1. /\ handler.at = "sleeping" /\ sleep' = "none" /\ events' = Tail(events) /\ handler' = Free
          /\ UNCHANGED <<retryAttempt, fallbackIndex>>
      BY <2>6 DEF WakeUp, EndEvent
    <3> QED
      BY <2>c, <3>1, HandlerEnds
  <2>7. CASE SleepAborted
    <3>1. /\ handler.at = "sleeping" /\ sleep' = "none" /\ retryAttempt' = 0 /\ fallbackIndex' = fallbackIndex
          /\ CheckCompaction("retryable", messages)
      BY <2>7 DEF SleepAborted
    <3> QED
      BY <1>a, <2>c, <3>1, CheckLeaves, HandlerEnds
  <2>8. CASE HandleAgentEnd
    <3>1. /\ events # <<>> /\ handler.at = "free" /\ Head(events).type = "agent_end" /\ UNCHANGED <<retryAttempt, sleep>>
      BY <2>8 DEF HandleAgentEnd, AtHead
    <3>2. CASE EndEvent /\ UNCHANGED fallbackIndex
      BY <2>c, <3>1, <3>2, HandlerEnds DEF EndEvent
    <3>3. CASE /\ fallbackIndex < Fallbacks /\ fallbackIndex' = fallbackIndex + 1
               /\ handler' = [Free EXCEPT !.at = "fallback"] /\ UNCHANGED events
      <4>1. IsHandler(handler') /\ handler'.at = "fallback"
        BY <3>3, FreeHandler, HandlerGoesTo DEF Places
      <4>2. fallbackIndex' \in 0..Fallbacks /\ retryAttempt <= MaxRetries
        BY <1>a, <2>c, <3>1, <3>3
      <4> QED
        BY <2>c, <3>1, <3>3, <4>1, <4>2 DEF CountInv
    <3>4. CASE CheckCompaction(lastAssistant, messages) /\ UNCHANGED fallbackIndex
      BY <2>c, <3>1, <3>4, CheckLeaves, HandlerEnds
    <3> QED
      BY <2>8, <3>2, <3>3, <3>4 DEF HandleAgentEnd
  <2>9. CASE FallbackReady
    <3>1. /\ handler.at = "fallback" /\ retryAttempt' = 0 /\ UNCHANGED <<sleep, fallbackIndex>>
          /\ events' = Tail(events) /\ handler' = Free
      BY <2>9 DEF FallbackReady, EndEvent
    <3> QED
      BY <1>a, <2>c, <3>1, HandlerEnds
  <2>10. CASE FallbackNoKey
    <3>1. handler.at = "fallback" /\ sleep' = sleep
      BY <2>10 DEF FallbackNoKey
    <3>2. CASE fallbackIndex < Fallbacks
      <4>1. fallbackIndex' = fallbackIndex + 1 /\ UNCHANGED <<events, handler, retryAttempt>>
        BY <2>10, <3>2 DEF FallbackNoKey
      <4>2. fallbackIndex' \in 0..Fallbacks
        BY <1>a, <2>c, <3>2, <4>1
      <4> QED
        BY <3>1, <4>1, <4>2 DEF CountInv
    <3>3. CASE ~(fallbackIndex < Fallbacks)
      <4>1. /\ fallbackIndex' = fallbackIndex
            /\ retryAttempt' = IF handler.retry THEN 0 ELSE retryAttempt
            /\ \E kind : CheckCompaction(kind, messages)
        BY <2>10, <3>3 DEF FallbackNoKey
      <4>2. retryAttempt' \in 0..MaxRetries
        BY <1>a, <2>c, <4>1
      <4> QED
        BY <2>c, <3>1, <4>1, <4>2, CheckLeaves, HandlerEnds
    <3> QED
      BY <3>2, <3>3
  <2>11. CASE HandlerCompacts \/ HandlerCompactionFails
    <3>1. /\ handler.at = "compacting" /\ events' = Tail(events) /\ handler' = Free
          /\ UNCHANGED <<sleep, retryAttempt, fallbackIndex>>
      BY <2>11 DEF HandlerCompacts, HandlerCompactionFails, EndEvent, retryVars
    <3> QED
      BY <2>c, <3>1, HandlerEnds
  <2>12. CASE \/ \E i \in Prompts : Prompt(i) \/ PromptCompacted(i)
              \/ Steer \/ UNCHANGED vars
    <3>1. UNCHANGED <<events, handler, sleep, retryAttempt, fallbackIndex>>
      BY <2>12 DEF Prompt, PromptCompacted, Steer, vars, retryVars
    <3> QED
      BY <3>1 DEF CountInv
  <2>13. ASSUME NEW andRun \in BOOLEAN, AbortRetry(andRun) PROVE CountInv'
    <3>1. /\ UNCHANGED <<events, handler, retryAttempt, fallbackIndex>>
          /\ sleep' = IF sleep = "armed" THEN "aborted" ELSE sleep
      BY <2>13 DEF AbortRetry
    <3>2. (sleep' # "none") = (sleep # "none")
      BY <3>1
    <3> QED
      BY <3>1, <3>2 DEF CountInv
  <2> QED
    BY <2>1, <2>2, <2>3, <2>4, <2>5, <2>6, <2>7, <2>8, <2>9, <2>10, <2>11, <2>12, <2>13
       DEF SessionNext, RunStep, HandlerStep, PromptStep, OutsideStep
<1> QED
  BY <1>1, <1>2, PTL DEF AgentSessionSpec

\* The handlers of events: for any number of retries and fallback models, a handler waits
\* for what it says it waits for, and the counters of retries and models stay in range.
THEOREM SessionTyped == AgentSessionSpec => []TypeOK
<1>1. CountInv => TypeOK
  BY DEF CountInv, TypeOK, IsHandler, Places
<1> QED
  BY <1>1, CountsBounded, PTL
-----------------------------------------------------------------------------
(* The runs nobody asked for                                               *)

One(b) == IF b THEN 1 ELSE 0

\* The ends of runs that are still to be handled.
Ends(es) == {i \in DOMAIN es : es[i].type = "agent_end"}
NumEnds(es) == Cardinality(Ends(es))

\* The handler of this end is to call continue().
Restarts(h) == h.at \in {"sleeping", "fallback"} \/ (h.at = "compacting" /\ h.retry)

\* The handler compacts the conversation, and that is all.
Dead(h) == h.at = "compacting" /\ ~h.retry

\* The runs that are under way or may still come of what is under way: timers, the run, and
\* the ends in the queue but one of which only the conversation is compacted.
Live == ((timers + One(run.on)) + NumEnds(events))
            - One(Dead(handler))

\* The retries and first runs that the models after the one in use are good for.
Others(fi) == (Fallbacks - fi) * (MaxRetries + 1)

\* The retries that are left: a fallback model starts with all of them.
Budget(h, ra, fi) == (IF h.at = "fallback" THEN MaxRetries ELSE MaxRetries - ra) + Others(fi)

\* May an overflow still be repaired?
UserIn(es) == \E i \in DOMAIN es : es[i] = MessageEnd("user")
Repair(attempted, es) == One(~attempted \/ UserIn(es))

\* The runs nobody asked for: those so far, those due, and those still to be paid for.
Due == seen.autoRuns + (timers + One(Restarts(handler)))
Cost == Due + (Budget(handler, retryAttempt, fallbackIndex) + Repair(overflowAttempted, events))

\* Giving up resets the counter of retries: for another run that is under way the retries
\* begin again.
Again(n) == IF n = 2 THEN MaxRetries ELSE 0

Bound == (2 * MaxRetries + Others(0)) + 2

\* Callers that have left prompt() to compact or to start a run.
Busy(cs) == {i \in Prompts : cs[i].at \in {"compacting", "ready"}}

\* A prompt compacts and starts in quiet; the timer of its compaction is then the only one.
CallersInv ==
    /\ \A i, j \in Busy(callers) : i = j
    /\ Busy(callers) # {} => ~run.on /\ events = <<>> /\ handler.at = "free" /\ timers <= 1
    /\ \A i \in Prompts : callers[i].at = "compacting" => timers = 0

\* The queue: a message of the user is handled before anything follows it, and after a run
\* its end comes last.
UserFirst(es) == \A i \in DOMAIN es : i # 1 => es[i] # MessageEnd("user")
QueueInv ==
    /\ queued = 0 /\ timers \in Nat /\ DOMAIN callers = Prompts
    /\ run \in [on : BOOLEAN, by : Prompts \cup {0}, aborted : BOOLEAN]
    /\ seen \in [autoRuns : Nat, stopped : BOOLEAN, steers : Nat, turns : Nat]
    /\ overflowAttempted \in BOOLEAN
    /\ UserFirst(events)
    /\ ~run.on /\ events # <<>> => events[Len(events)].type = "agent_end"

\* The inductive invariant of RetriesBounded, beyond CountInv: every run to come is paid
\* for by a retry, a fallback model or the repair of an overflow.
RunsInv ==
    /\ QueueInv /\ CallersInv
    /\ Live \in 0..2
    /\ seen.autoRuns <= Bound
    /\ Busy(callers) = {} /\ Live > 0 => Cost + Again(Live) <= Bound

\* The ends of runs in a queue can be counted.
LEMMA EndsCounted == ASSUME NEW s \in Seq(Events)
                     PROVE  IsFiniteSet(Ends(s)) /\ NumEnds(s) \in Nat
<1>1. DOMAIN s = 1..Len(s) /\ Len(s) \in Nat
  OBVIOUS
<1>2. IsFiniteSet(1..Len(s)) /\ Ends(s) \subseteq 1..Len(s)
  BY <1>1, FS_Interval DEF Ends
<1> QED
  BY <1>2, FS_Subset, FS_CardinalityType DEF NumEnds

\* An event is put at the end of the queue.
LEMMA EndsAdded ==
    ASSUME NEW s \in Seq(Events), NEW e \in Events
    PROVE  /\ NumEnds(Append(s, e)) = NumEnds(s) + One(e.type = "agent_end")
           /\ e # MessageEnd("user") => (UserIn(Append(s, e)) <=> UserIn(s))
           /\ e # MessageEnd("user") /\ UserFirst(s) => UserFirst(Append(s, e))
           /\ Append(s, e) # <<>> /\ Append(s, e)[Len(Append(s, e))] = e
<1> DEFINE t == Append(s, e)  n == Len(s)
<1>1. /\ n \in Nat /\ DOMAIN s = 1..n /\ DOMAIN t = 1..(n + 1) /\ Len(t) = n + 1 /\ t # <<>>
      /\ t[n + 1] = e /\ \A i \in 1..n : t[i] = s[i]
  OBVIOUS
<1> HIDE DEF t, n
<1>2. Ends(t) = IF e.type = "agent_end" THEN Ends(s) \cup {n + 1} ELSE Ends(s)
  BY <1>1 DEF Ends
<1>3. n + 1 \notin Ends(s)
  BY <1>1 DEF Ends
<1>4. NumEnds(t) = NumEnds(s) + One(e.type = "agent_end")
  <2>1. CASE e.type = "agent_end"
    BY <2>1, <1>2, <1>3, EndsCounted, FS_AddElement DEF NumEnds, One
  <2>2. CASE e.type # "agent_end"
    BY <2>2, <1>2, EndsCounted DEF NumEnds, One
  <2> QED
    BY <2>1, <2>2
<1>5. ASSUME e # MessageEnd("user") PROVE UserIn(t) <=> UserIn(s)
  BY <1>1, <1>5 DEF UserIn
<1>6. ASSUME e # MessageEnd("user"), UserFirst(s) PROVE UserFirst(t)
  BY <1>1, <1>6 DEF UserFirst
<1> QED
  BY <1>1, <1>4, <1>5, <1>6 DEF t

\* The head of the queue is taken.
LEMMA EndsTaken ==
    ASSUME NEW s \in Seq(Events), s # <<>>
    PROVE  /\ NumEnds(s) = NumEnds(Tail(s)) + One(Head(s).type = "agent_end")
           /\ Tail(s) \in Seq(Events)
           /\ UserFirst(s) => UserFirst(Tail(s)) /\ ~UserIn(Tail(s))
           /\ UserFirst(s) => (UserIn(s) <=> Head(s) = MessageEnd("user"))
           /\ Tail(s) # <<>> => Tail(s)[Len(Tail(s))] = s[Len(s)]
<1> DEFINE t == Tail(s)  n == Len(s)
<1>1. /\ n \in Nat /\ n >= 1 /\ DOMAIN s = 1..n /\ DOMAIN t = 1..(n - 1) /\ Len(t) = n - 1
      /\ t \in Seq(Events) /\ Head(s) = s[1] /\ (t # <<>> => n - 1 >= 1)
      /\ \A i \in 1..(n - 1) : t[i] = s[i + 1]
  OBVIOUS
<1> HIDE DEF t, n
<1> DEFINE f == [i \in Ends(t) |-> i + 1]  R == Ends(s) \ {1}
<1>2. f \in Bijection(Ends(t), R)
  <2>1. ASSUME NEW i \in Ends(t) PROVE i + 1 \in R /\ i \in Nat
    BY <1>1 DEF Ends
  <2>2. ASSUME NEW j \in R PROVE j - 1 \in Ends(t) /\ (j - 1) + 1 = j
    <3>1. j \in 1..n /\ j # 1 /\ s[j].type = "agent_end"
      BY <1>1 DEF Ends
    <3>2. j - 1 \in 1..(n - 1) /\ (j - 1) + 1 = j
      BY <1>1, <3>1
    <3>3. t[j - 1] = s[j]
      BY <1>1, <3>2
    <3> QED
      BY <1>1, <3>1, <3>2, <3>3 DEF Ends
  <2>3. f \in [Ends(t) -> R]
    BY <2>1
  <2>4. \A i, j \in Ends(t) : f[i] = f[j] => i = j
    BY <2>1
  <2>5. \A j \in R : \E i \in Ends(t) : f[i] = j
    BY <2>2
  <2> QED
    BY <2>3, <2>4, <2>5 DEF Bijection, Injection, Surjection, IsInjective
<1>3. Cardinality(R) = NumEnds(t)
  BY <1>1, <1>2, EndsCounted, FS_Bijection DEF ExistsBijection, NumEnds
<1>4. 1 \in Ends(s) <=> Head(s).type = "agent_end"
  BY <1>1 DEF Ends
<1>5. NumEnds(s) = NumEnds(t) + One(Head(s).type = "agent_end")
  <2>1. Cardinality(R) = IF 1 \in Ends(s) THEN NumEnds(s) - 1 ELSE NumEnds(s)
    BY EndsCounted, FS_RemoveElement DEF NumEnds
  <2>2. NumEnds(s) \in Nat
    BY EndsCounted
  <2> HIDE DEF R
  <2> QED
    BY <1>3, <1>4, <2>1, <2>2 DEF One
<1>6. ASSUME UserFirst(s) PROVE UserFirst(t) /\ ~UserIn(t) /\ (UserIn(s) <=> Head(s) = MessageEnd("user"))
  <2>1. ASSUME NEW i \in 1..(n - 1) PROVE t[i] # MessageEnd("user")
    <3>1. i + 1 \in 1..n /\ i + 1 # 1 /\ t[i] = s[i + 1]
      BY <1>1
    <3> QED
      BY <1>1, <1>6, <3>1 DEF UserFirst
  <2>2. UserFirst(t) /\ ~UserIn(t)
    BY <1>1, <2>1 DEF UserFirst, UserIn
  <2>3. UserIn(s) <=> Head(s) = MessageEnd("user")
    <3>1. 1 \in DOMAIN s /\ Head(s) = s[1]
      BY <1>1
    <3> QED
      BY <1>6, <3>1 DEF UserFirst, UserIn
  <2> QED
    BY <2>2, <2>3
<1>7. t # <<>> => t[Len(t)] = s[Len(s)]
  BY <1>1 DEF n
<1> QED
  BY <1>1, <1>5, <1>6, <1>7 DEF t

\* The runs that the other models are good for.
LEMMA OthersLeft ==
    /\ Others(0) \in Nat /\ MaxRetries \in Nat /\ Fallbacks \in Nat
    /\ \A fi \in 0..Fallbacks : Others(fi) \in Nat /\ Others(fi) <= Others(0)
    /\ \A fi \in 0..Fallbacks : fi < Fallbacks => Others(fi) = (Others(fi + 1) + MaxRetries) + 1
<1>1. MaxRetries \in Nat /\ Fallbacks \in Nat
  BY SessionAssumption
<1>2. \A d \in Nat : d * (MaxRetries + 1) \in Nat
  BY <1>1
<1>3. \A d \in Nat : (d + 1) * (MaxRetries + 1) = (d * (MaxRetries + 1) + MaxRetries) + 1
  BY <1>1
<1>4. \A d, e \in Nat : (d + e) * (MaxRetries + 1) = d * (MaxRetries + 1) + e * (MaxRetries + 1)
  BY <1>1
<1>5. ASSUME NEW fi \in 0..Fallbacks PROVE Others(fi) \in Nat /\ Others(fi) <= Others(0)
  <2>1. Fallbacks - fi \in Nat /\ fi \in Nat /\ Fallbacks - 0 = (Fallbacks - fi) + fi
    BY <1>1
  <2>2. Others(0) = (Fallbacks - fi) * (MaxRetries + 1) + fi * (MaxRetries + 1)
    BY <1>4, <2>1 DEF Others
  <2> QED
    BY <1>2, <2>1, <2>2 DEF Others
<1>6. ASSUME NEW fi \in 0..Fallbacks, fi < Fallbacks
      PROVE  Others(fi) = (Others(fi + 1) + MaxRetries) + 1
  <2>1. Fallbacks - (fi + 1) \in Nat /\ Fallbacks - fi = (Fallbacks - (fi + 1)) + 1
    BY <1>1, <1>6
  <2> QED
    BY <1>3, <2>1 DEF Others
<1>7. 0 \in 0..Fallbacks
  BY <1>1
<1> QED
  BY <1>1, <1>5, <1>6, <1>7

\* What is still to come is a number, and limited.
LEMMA CostTypes ==
    ASSUME NEW h, NEW ra \in 0..(MaxRetries + 1), NEW fi \in 0..Fallbacks,
           ~(h.at = "fallback" /\ h.retry) => ra <= MaxRetries
    PROVE  /\ Budget(h, ra, fi) \in Nat /\ Budget(h, ra, fi) <= MaxRetries + Others(0)
           /\ One(Restarts(h)) \in 0..1
           /\ \A attempted, es : Repair(attempted, es) \in 0..1
<1>1. /\ Others(fi) \in Nat /\ Others(fi) <= Others(0) /\ Others(0) \in Nat /\ MaxRetries \in Nat
  BY OthersLeft
<1>2. Budget(h, ra, fi) \in Nat /\ Budget(h, ra, fi) <= MaxRetries + Others(0)
  BY <1>1 DEF Budget
<1> QED
  BY <1>2 DEF One, Repair

\* An end that only compacts the conversation is in the queue.
LEMMA DeadCounted ==
    ASSUME NEW es \in Seq(Events), NEW h,
           h.at # "free" => es # <<>> /\ Head(es).type = "agent_end"
    PROVE  /\ One(Dead(h)) \in 0..1
           /\ One(Dead(h)) <= NumEnds(es)
<1>1. CASE h.at = "compacting"
  <2>1. es # <<>> /\ Head(es).type = "agent_end"
    BY <1>1
  <2>2. NumEnds(es) = NumEnds(Tail(es)) + 1 /\ Tail(es) \in Seq(Events)
    BY <2>1, EndsTaken DEF One, Dead
  <2>3. NumEnds(Tail(es)) \in Nat
    BY <2>2, EndsCounted
  <2> QED
    BY <2>2, <2>3 DEF One, Dead
<1>2. CASE h.at # "compacting"
  <2>1. NumEnds(es) \in Nat
    BY EndsCounted
  <2> QED
    BY <1>2, <2>1 DEF One, Dead
<1> QED
  BY <1>1, <1>2

\* No run is missing.
LEMMA LiveNat ==
    ASSUME NEW n \in Nat, NEW r, NEW es \in Seq(Events), NEW h,
           h.at # "free" => es # <<>> /\ Head(es).type = "agent_end"
    PROVE  ((n + One(r.on)) + NumEnds(es)) - One(Dead(h)) \in Nat
<1>1. /\ One(Dead(h)) \in 0..1
      /\ One(Dead(h)) <= NumEnds(es)
  BY DeadCounted
<1>2. NumEnds(es) \in Nat
  BY EndsCounted
<1>3. One(r.on) \in 0..1
  BY DEF One
<1> QED
  BY <1>1, <1>2, <1>3

\* A step under which no run gets lost and the runs to come cost no more keeps the bound:
\* a run that is given up leaves the retries of a model to the other one.
LEMMA StepKeeps ==
    ASSUME CountInv, CountInv', RunsInv, Busy(callers) = {}, QueueInv', Busy(callers') = {},
           Live' <= Live,
           Cost' <= Cost + (IF Live' < Live THEN MaxRetries ELSE 0),
           seen'.autoRuns <= seen.autoRuns \/ Live' > 0
    PROVE  RunsInv'
<1>1. /\ Due \in Nat /\ Due' \in Nat /\ seen'.autoRuns <= Due' /\ seen'.autoRuns \in Nat
      /\ seen.autoRuns \in Nat
  <2>1. /\ seen \in [autoRuns : Nat, stopped : BOOLEAN, steers : Nat, turns : Nat] /\ timers \in Nat
        /\ seen' \in [autoRuns : Nat, stopped : BOOLEAN, steers : Nat, turns : Nat] /\ timers' \in Nat
    BY DEF RunsInv, QueueInv
  <2>2. seen.autoRuns \in Nat /\ seen'.autoRuns \in Nat
    BY <2>1
  <2>3. One(Restarts(handler)) \in Nat /\ One(Restarts(handler')) \in Nat
    BY DEF One
  <2> QED
    BY <2>1, <2>2, <2>3 DEF Due
<1>2. Cost \in Nat /\ Cost' \in Nat /\ Due' <= Cost'
  <2>1. /\ Budget(handler, retryAttempt, fallbackIndex) \in Nat /\ Repair(overflowAttempted, events) \in Nat
    <3>1. /\ retryAttempt \in 0..(MaxRetries + 1) /\ fallbackIndex \in 0..Fallbacks
          /\ ~(handler.at = "fallback" /\ handler.retry) => retryAttempt <= MaxRetries
      BY DEF CountInv
    <3>2. Repair(overflowAttempted, events) \in Nat
      BY DEF Repair, One
    <3> QED
      BY <3>1, <3>2, CostTypes
  <2>2. /\ Budget(handler', retryAttempt', fallbackIndex') \in Nat /\ Repair(overflowAttempted', events') \in Nat
    <3>1. /\ retryAttempt' \in 0..(MaxRetries + 1) /\ fallbackIndex' \in 0..Fallbacks
          /\ ~(handler'.at = "fallback" /\ handler'.retry) => retryAttempt' <= MaxRetries
      BY DEF CountInv
    <3>2. Repair(overflowAttempted', events') \in Nat
      BY DEF Repair, One
    <3> QED
      BY <3>1, <3>2, CostTypes
  <2> HIDE DEF Due
  <2> QED
    BY <1>1, <2>1, <2>2 DEF Cost
<1>3. MaxRetries \in Nat /\ Bound \in Nat
  BY OthersLeft DEF Bound
<1>4. Live \in 0..2 /\ seen.autoRuns <= Bound /\ (Live > 0 => Cost + Again(Live) <= Bound)
  BY DEF RunsInv
<1>5. Live' \in Nat
  <2>1. /\ timers' \in Nat /\ events' \in Seq(Events)
        /\ handler'.at # "free" => events' # <<>> /\ Head(events').type = "agent_end"
    BY DEF QueueInv, CountInv
  <2> QED
    BY <2>1, LiveNat DEF Live
<1> HIDE DEF Cost, Live, Due, Bound
<1>6. Live' \in 0..2 /\ (Live' > 0 => Cost' + Again(Live') <= Bound)
  <2>1. Live \in 0..2 /\ Live' \in 0..2
    BY <1>4, <1>5
  <2>2. CASE Live' < Live
    <3>1. Cost' <= Cost + MaxRetries
      BY <2>2
    <3>2. Live' > 0 => Live = 2 /\ Live' = 1
      BY <2>1, <2>2
    <3>3. Again(2) = MaxRetries /\ Again(1) = 0
      BY DEF Again
    <3> QED
      BY <1>2, <1>3, <1>4, <2>1, <3>1, <3>2, <3>3
  <2>3. CASE Live' = Live
    <3>1. Cost' <= Cost
      BY <1>2, <2>1, <2>3
    <3>2. Again(Live) \in Nat
      BY <1>3 DEF Again
    <3> QED
      BY <1>2, <1>3, <1>4, <2>1, <2>3, <3>1, <3>2
  <2> QED
    BY <2>1, <2>2, <2>3
<1>7. seen'.autoRuns <= Bound
  <2>1. CASE Live' > 0
    <3>1. Again(Live') \in Nat
      BY <1>3 DEF Again
    <3> QED
      BY <1>1, <1>2, <1>3, <1>6, <2>1, <3>1
  <2>2. CASE seen'.autoRuns <= seen.autoRuns
    BY <1>1, <1>3, <1>4, <2>2
  <2> QED
    BY <2>1, <2>2
<1>8. CallersInv'
  BY DEF CallersInv, Busy
<1> QED
  BY <1>6, <1>7, <1>8 DEF RunsInv

\* Nobody prepares a run while another one or a handler is under way.
LEMMA NobodyBusy ==
    ASSUME RunsInv, run.on \/ events # <<>> \/ handler.at # "free"
    PROVE  Busy(callers) = {}
BY DEF RunsInv, CallersInv

\* Callers that wait, return or run are not busy.
LEMMA BusyKept ==
    ASSUME DOMAIN callers = Prompts,
           \/ callers' = callers
           \/ callers' = Resolved(callers)
           \/ \E i \in Prompts : \E at \in {"waiting", "returned", "running"} :
                 callers' = [callers EXCEPT ![i] = Caller(at)]
    PROVE  Busy(callers') \subseteq Busy(callers) /\ DOMAIN callers' = Prompts
<1>1. CASE callers' = callers
  BY <1>1
<1>2. CASE callers' = Resolved(callers)
  BY <1>2 DEF Resolved, Busy, Caller
<1>3. ASSUME NEW i \in Prompts, NEW at \in {"waiting", "returned", "running"},
             callers' = [callers EXCEPT ![i] = Caller(at)]
      PROVE  Busy(callers') \subseteq Busy(callers) /\ DOMAIN callers' = Prompts
  BY <1>3 DEF Busy, Caller
<1> QED
  BY <1>1, <1>2, <1>3

\* The numbers the invariant speaks of.
LEMMA Numbers ==
    ASSUME CountInv, RunsInv
    PROVE  /\ events \in Seq(Events) /\ NumEnds(events) \in Nat /\ timers \in Nat
           /\ seen \in [autoRuns : Nat, stopped : BOOLEAN, steers : Nat, turns : Nat]
           /\ seen.autoRuns \in Nat /\ MaxRetries \in Nat /\ Fallbacks \in Nat
           /\ Budget(handler, retryAttempt, fallbackIndex) \in Nat
           /\ Repair(overflowAttempted, events) \in 0..1
           /\ retryAttempt \in 0..(MaxRetries + 1) /\ fallbackIndex \in 0..Fallbacks
           /\ run \in [on : BOOLEAN, by : Prompts \cup {0}, aborted : BOOLEAN] /\ run.on \in BOOLEAN
           /\ DOMAIN callers = Prompts /\ queued = 0 /\ UserFirst(events)
<1>1. /\ events \in Seq(Events) /\ retryAttempt \in 0..(MaxRetries + 1) /\ fallbackIndex \in 0..Fallbacks
      /\ ~(handler.at = "fallback" /\ handler.retry) => retryAttempt <= MaxRetries
  BY DEF CountInv
<1>2. /\ timers \in Nat /\ run \in [on : BOOLEAN, by : Prompts \cup {0}, aborted : BOOLEAN]
      /\ seen \in [autoRuns : Nat, stopped : BOOLEAN, steers : Nat, turns : Nat]
      /\ DOMAIN callers = Prompts /\ queued = 0 /\ UserFirst(events)
  BY DEF RunsInv, QueueInv
<1>3. seen.autoRuns \in Nat /\ run.on \in BOOLEAN
  BY <1>2
<1>4. Repair(overflowAttempted, events) \in 0..1
  BY DEF Repair, One
<1>5. Budget(handler, retryAttempt, fallbackIndex) \in Nat
  BY <1>1, CostTypes
<1>6. NumEnds(events) \in Nat
  BY <1>1, EndsCounted
<1> QED
  BY <1>1, <1>2, <1>3, <1>4, <1>5, <1>6, OthersLeft

\* The sums the invariant compares.
LEMMA Sums ==
    ASSUME CountInv, RunsInv
    PROVE  /\ Live \in 0..2 /\ Due \in Nat /\ Cost \in Nat
           /\ One(Restarts(handler)) \in 0..1 /\ One(run.on) \in 0..1
           /\ One(Dead(handler)) \in 0..1
           /\ One(Dead(handler)) <= NumEnds(events)
<1>1. One(Restarts(handler)) \in 0..1 /\ One(run.on) \in 0..1
  BY DEF One
<1>2. Due \in Nat
  <2>1. seen.autoRuns \in Nat /\ timers \in Nat
    BY Numbers
  <2> QED
    BY <1>1, <2>1 DEF Due
<1>3. Cost \in Nat
  <2>1. /\ Budget(handler, retryAttempt, fallbackIndex) \in Nat
        /\ Repair(overflowAttempted, events) \in 0..1
    BY Numbers
  <2> QED
    BY <1>2, <2>1 DEF Cost
<1>4. /\ One(Dead(handler)) \in 0..1
      /\ One(Dead(handler)) <= NumEnds(events)
  BY DeadCounted DEF CountInv
<1> QED
  BY <1>1, <1>2, <1>3, <1>4 DEF RunsInv

\* The history is not shortened.
LEMMA SeenKept ==
    ASSUME seen \in [autoRuns : Nat, stopped : BOOLEAN, steers : Nat, turns : Nat]
    PROVE  /\ [seen EXCEPT !.turns = @ + 1] \in [autoRuns : Nat, stopped : BOOLEAN, steers : Nat, turns : Nat]
           /\ [seen EXCEPT !.turns = @ + 1].autoRuns = seen.autoRuns
           /\ [seen EXCEPT !.autoRuns = @ + 1] \in [autoRuns : Nat, stopped : BOOLEAN, steers : Nat, turns : Nat]
           /\ [seen EXCEPT !.autoRuns = @ + 1].autoRuns = seen.autoRuns + 1
           /\ [seen EXCEPT !.autoRuns = 0] \in [autoRuns : Nat, stopped : BOOLEAN, steers : Nat, turns : Nat]
           /\ [seen EXCEPT !.autoRuns = 0].autoRuns = 0
           /\ [seen EXCEPT !.stopped = TRUE] \in [autoRuns : Nat, stopped : BOOLEAN, steers : Nat, turns : Nat]
           /\ [seen EXCEPT !.stopped = TRUE].autoRuns = seen.autoRuns
           /\ [seen EXCEPT !.autoRuns = 0, !.stopped = FALSE]
                    \in [autoRuns : Nat, stopped : BOOLEAN, steers : Nat, turns : Nat]
           /\ [seen EXCEPT !.autoRuns = 0, !.stopped = FALSE].autoRuns = 0
<1>1. /\ [seen EXCEPT !.turns = @ + 1] \in [autoRuns : Nat, stopped : BOOLEAN, steers : Nat, turns : Nat]
      /\ [seen EXCEPT !.turns = @ + 1].autoRuns = seen.autoRuns
  OBVIOUS
<1>2. /\ [seen EXCEPT !.autoRuns = @ + 1] \in [autoRuns : Nat, stopped : BOOLEAN, steers : Nat, turns : Nat]
      /\ [seen EXCEPT !.autoRuns = @ + 1].autoRuns = seen.autoRuns + 1
  OBVIOUS
<1>3. /\ [seen EXCEPT !.autoRuns = 0] \in [autoRuns : Nat, stopped : BOOLEAN, steers : Nat, turns : Nat]
      /\ [seen EXCEPT !.autoRuns = 0].autoRuns = 0
  OBVIOUS
<1>4. /\ [seen EXCEPT !.stopped = TRUE] \in [autoRuns : Nat, stopped : BOOLEAN, steers : Nat, turns : Nat]
      /\ [seen EXCEPT !.stopped = TRUE].autoRuns = seen.autoRuns
  OBVIOUS
<1>5. /\ [seen EXCEPT !.autoRuns = 0, !.stopped = FALSE] \in [autoRuns : Nat, stopped : BOOLEAN, steers : Nat, turns : Nat]
      /\ [seen EXCEPT !.autoRuns = 0, !.stopped = FALSE].autoRuns = 0
  OBVIOUS
<1> QED
  BY <1>1, <1>2, <1>3, <1>4, <1>5

\* A step after which as many runs may still come, and cost no more, keeps the bound.
LEMMA StepSame ==
    ASSUME CountInv, CountInv', RunsInv, Busy(callers) = {}, QueueInv', Busy(callers') = {},
           Live' = Live, Cost' <= Cost, seen'.autoRuns = seen.autoRuns \/ Live > 0
    PROVE  RunsInv'
<1> HIDE DEF Live, Cost
<1>1. Live \in 0..2 /\ seen.autoRuns \in Nat
  BY Sums, Numbers
<1>2. /\ Live' <= Live /\ Cost' <= Cost + (IF Live' < Live THEN MaxRetries ELSE 0)
      /\ seen'.autoRuns <= seen.autoRuns \/ Live' > 0
  <2>1. ~(Live' < Live) /\ Live' <= Live /\ Cost \in Nat
    BY <1>1, Sums
  <2>2. Cost + 0 = Cost
    BY <2>1
  <2> QED
    BY <1>1, <2>1, <2>2
<1> QED
  BY <1>2, StepKeeps

\* So does one after which a run less may come, and the retries it leaves are given back.
LEMMA StepLess ==
    ASSUME CountInv, CountInv', RunsInv, Busy(callers) = {}, QueueInv', Busy(callers') = {},
           Live' = Live - 1, Cost' <= Cost + MaxRetries, seen'.autoRuns = seen.autoRuns
    PROVE  RunsInv'
<1>1. Live \in 0..2 /\ seen.autoRuns \in Nat
  BY Sums, Numbers
<1> QED
  BY <1>1, StepKeeps

\* An answer with tool calls.
LEMMA TurnRuns ==
    ASSUME CountInv, CountInv', RunsInv, RunTurn
    PROVE  RunsInv'
<1>0. /\ run.on /\ seen' = [seen EXCEPT !.turns = @ + 1]
      /\ events' = Append(events, MessageEnd("tools"))
      /\ UNCHANGED <<queued, run, handler, retryVars, timers, callers>>
  BY DEF RunTurn
<1>1. Busy(callers) = {} /\ Busy(callers') = {}
  BY <1>0, NobodyBusy
<1>2. /\ MessageEnd("tools") \in Events /\ MessageEnd("tools").type = "message_end"
      /\ MessageEnd("tools") # MessageEnd("user")
  <2>1. "tools" \in Kinds
    BY DEF Kinds
  <2> QED
    BY <2>1, Emitted DEF MessageEnd
<1>3. /\ NumEnds(events') = NumEnds(events) /\ (UserIn(events') <=> UserIn(events)) /\ UserFirst(events')
  <2>1. /\ NumEnds(events') = NumEnds(events) + One(FALSE)
        /\ (UserIn(events') <=> UserIn(events)) /\ UserFirst(events')
    BY <1>0, <1>2, Numbers, EndsAdded DEF One
  <2> QED
    BY <2>1, Numbers DEF One
<1>4. seen'.autoRuns = seen.autoRuns /\ QueueInv'
  <2>1. /\ seen' \in [autoRuns : Nat, stopped : BOOLEAN, steers : Nat, turns : Nat]
        /\ seen'.autoRuns = seen.autoRuns
    BY <1>0, SeenKept DEF RunsInv, QueueInv
  <2> QED
    BY <1>0, <1>3, <2>1 DEF RunsInv, QueueInv, retryVars
<1>5. Live' = Live /\ Cost' = Cost
  BY <1>0, <1>3, <1>4 DEF Live, Cost, Due, Repair, retryVars
<1>6. Cost' <= Cost
  BY <1>5, Sums
<1> QED
  BY <1>1, <1>4, <1>5, <1>6, StepSame

\* A run ends, one way or the other: its end is one more to be handled.
LEMMA EndRuns ==
    ASSUME CountInv, CountInv', RunsInv,
           NEW kind \in Outcomes \cup {"aborted"}, RunEnds(kind) \/ RunThrows(kind)
    PROVE  RunsInv'
<1>0. /\ run.on /\ run' = NoRun
      /\ UNCHANGED <<queued, handler, retryAttempt, fallbackIndex, overflowAttempted, timers, seen>>
      /\ \/ events' = events \o <<MessageEnd(kind), AgentEnd(kind)>>
         \/ events' = events \o <<AgentEnd(kind)>>
      /\ callers' = IF run.by = 0 THEN callers
                    ELSE [callers EXCEPT ![run.by] = Caller(IF retryPromise' THEN "waiting" ELSE "returned")]
  BY DEF RunEnds, RunThrows, RunOver
<1>1. Busy(callers) = {}
  BY <1>0, NobodyBusy
<1>2. Busy(callers') = {} /\ DOMAIN callers' = Prompts
  <2>1. run.by \in Prompts \cup {0}
    BY Numbers
  <2>2. \/ callers' = callers
        \/ \E i \in Prompts : \E at \in {"waiting", "returned", "running"} :
              callers' = [callers EXCEPT ![i] = Caller(at)]
    BY <1>0, <2>1
  <2> QED
    BY <1>1, <2>2, Numbers, BusyKept
<1>3. /\ MessageEnd(kind) \in Events /\ MessageEnd(kind).type = "message_end"
      /\ MessageEnd(kind) # MessageEnd("user")
      /\ AgentEnd(kind) \in Events /\ AgentEnd(kind).type = "agent_end"
      /\ AgentEnd(kind) # MessageEnd("user")
  <2>1. kind \in Kinds /\ kind # "user"
    BY SessionAssumption DEF Kinds
  <2> QED
    BY <2>1 DEF MessageEnd, AgentEnd, Events
<1>4. /\ NumEnds(events') = NumEnds(events) + 1 /\ (UserIn(events') <=> UserIn(events)) /\ UserFirst(events')
      /\ events' # <<>> /\ events'[Len(events')].type = "agent_end"
  <2> DEFINE E == MessageEnd(kind)  A == AgentEnd(kind)
  <2>1. ASSUME NEW s \in Seq(Events), UserFirst(s)
        PROVE  /\ NumEnds(Append(s, A)) = NumEnds(s) + 1 /\ (UserIn(Append(s, A)) <=> UserIn(s))
               /\ UserFirst(Append(s, A)) /\ Append(s, A) # <<>>
               /\ Append(s, A)[Len(Append(s, A))].type = "agent_end"
    BY <1>3, <2>1, EndsAdded DEF One
  <2>2. /\ Append(events, E) \in Seq(Events) /\ NumEnds(Append(events, E)) = NumEnds(events)
        /\ (UserIn(Append(events, E)) <=> UserIn(events)) /\ UserFirst(Append(events, E))
    <3>1. NumEnds(Append(events, E)) = NumEnds(events) + 0 /\ Append(events, E) \in Seq(Events)
      BY <1>3, Numbers, EndsAdded DEF One
    <3>2. (UserIn(Append(events, E)) <=> UserIn(events)) /\ UserFirst(Append(events, E))
      BY <1>3, Numbers, EndsAdded
    <3> QED
      BY <3>1, <3>2, Numbers
  <2>3. \/ events' = Append(Append(events, E), A)
        \/ events' = Append(events, A)
    <3> HIDE DEF E, A
    <3>1. ASSUME NEW s \in Seq(Events), NEW e \in Events, NEW a \in Events
          PROVE  s \o <<e, a>> = Append(Append(s, e), a) /\ s \o <<a>> = Append(s, a)
      OBVIOUS
    <3>2. E \in Events /\ A \in Events
      BY <1>3 DEF E, A
    <3>3. events' = events \o <<E, A>> \/ events' = events \o <<A>>
      BY <1>0 DEF E, A
    <3> QED
      BY <3>1, <3>2, <3>3, Numbers
  <2> HIDE DEF E, A
  <2>4. CASE events' = Append(Append(events, E), A)
    BY <2>1, <2>2, <2>4
  <2>5. CASE events' = Append(events, A)
    BY <2>1, <2>5, Numbers
  <2> QED
    BY <2>3, <2>4, <2>5
<1>5. run' \in [on : BOOLEAN, by : Prompts \cup {0}, aborted : BOOLEAN] /\ ~run'.on
  BY <1>0 DEF NoRun
<1>6. QueueInv'
  BY <1>0, <1>2, <1>4, <1>5 DEF RunsInv, QueueInv
<1>7. Live' = Live
  BY <1>0, <1>4, <1>5, Numbers DEF Live, One
<1>8. Cost' = Cost
  BY <1>0, <1>4 DEF Cost, Due, Repair
<1>9. Cost' <= Cost /\ seen'.autoRuns = seen.autoRuns
  BY <1>0, <1>8, Sums
<1> QED
  BY <1>1, <1>2, <1>6, <1>7, <1>9, StepSame

\* A timer calls continue(): it starts a run, or nothing happens.
LEMMA ContinueRuns ==
    ASSUME ~SlowExtensions, CountInv, CountInv', RunsInv, ContinueFires
    PROVE  RunsInv'
<1>0. /\ timers > 0 /\ timers' = timers - 1 /\ Macrotask
      /\ UNCHANGED <<handler, retryAttempt, fallbackIndex, overflowAttempted, callers>>
  BY DEF ContinueFires, retryVars
<1>1. Busy(callers) = {} /\ Busy(callers') = {}
  <2>1. \A i \in Prompts : callers[i].at # "ready" /\ callers[i].at # "compacting"
    BY <1>0 DEF Macrotask, RunsInv, CallersInv
  <2> QED
    BY <1>0, <2>1 DEF Busy
<1>2. \/ /\ ~run.on /\ run' = [NoRun EXCEPT !.on = TRUE, !.by = 0] /\ queued' = queued
         /\ events' = events \o [i \in DOMAIN <<>> |-> MessageEnd("user")]
         /\ seen' = [seen EXCEPT !.autoRuns = @ + 1]
      \/ UNCHANGED <<queued, run, events, seen>>
  <2>1. queued = 0 /\ ~(queued > 0)
    BY Numbers
  <2> QED
    BY <2>1 DEF ContinueFires, StartRun, agentVars
<1>3. CASE UNCHANGED <<queued, run, events, seen>>
  <2>1. QueueInv'
    BY <1>0, <1>3, Numbers DEF RunsInv, QueueInv
  <2>2. timers \in Nat /\ timers' = timers - 1 /\ NumEnds(events) \in Nat /\ seen.autoRuns \in Nat
    BY <1>0, Numbers
  <2>3. Live' = Live - 1
    BY <1>0, <1>3, <2>2, Sums DEF Live
  <2>4. Cost' <= Cost + MaxRetries
    <3>1. Due' = Due - 1
      BY <1>0, <1>3, <2>2, Sums DEF Due
    <3>2. /\ Budget(handler, retryAttempt, fallbackIndex) \in Nat
          /\ Repair(overflowAttempted, events) \in 0..1 /\ MaxRetries \in Nat /\ Due \in Nat
      BY Numbers, Sums
    <3> QED
      BY <1>0, <1>3, <3>1, <3>2 DEF Cost
  <2> QED
    BY <1>1, <1>3, <2>1, <2>3, <2>4, StepLess
<1>4. CASE /\ ~run.on /\ run' = [NoRun EXCEPT !.on = TRUE, !.by = 0] /\ queued' = queued
           /\ events' = events \o [i \in DOMAIN <<>> |-> MessageEnd("user")]
           /\ seen' = [seen EXCEPT !.autoRuns = @ + 1]
  <2>1. events' = events
    <3>1. [i \in DOMAIN <<>> |-> MessageEnd("user")] = <<>>
      OBVIOUS
    <3> QED
      BY <1>4, <3>1, Numbers
  <2>2. run' \in [on : BOOLEAN, by : Prompts \cup {0}, aborted : BOOLEAN] /\ run'.on
    BY <1>4 DEF NoRun
  <2>3. /\ seen' \in [autoRuns : Nat, stopped : BOOLEAN, steers : Nat, turns : Nat]
        /\ seen'.autoRuns = seen.autoRuns + 1
    <3>1. seen \in [autoRuns : Nat, stopped : BOOLEAN, steers : Nat, turns : Nat]
      BY Numbers
    <3> QED
      BY <1>4, <3>1, SeenKept
  <2>4. QueueInv'
    <3>1. timers' \in Nat
      BY <1>0, Numbers
    <3> QED
      BY <1>0, <1>4, <2>1, <2>2, <2>3, <3>1 DEF RunsInv, QueueInv
  <2>5. timers \in Nat /\ timers' = timers - 1 /\ timers >= 1 /\ NumEnds(events) \in Nat /\ seen.autoRuns \in Nat
    BY <1>0, Numbers
  <2>6. Live' = Live
    <3>1. One(run.on) = 0 /\ One(run'.on) = 1
      BY <1>4, <2>2 DEF One
    <3> QED
      BY <1>0, <2>1, <2>5, <3>1, Sums DEF Live
  <2>7. Cost' <= Cost
    <3>1. Due' = Due
      BY <1>0, <2>3, <2>5, Sums DEF Due
    <3>2. Cost' = Cost
      BY <1>0, <2>1, <3>1 DEF Cost
    <3> QED
      BY <3>2, Sums
  <2>8. Live > 0
    BY <2>5, Sums DEF Live
  <2> QED
    BY <1>1, <2>4, <2>6, <2>7, <2>8, StepSame
<1> QED
  BY <1>2, <1>3, <1>4

\* A handler takes the head of the queue or leaves it there; prompt() and the run stay
\* where they are.
LEMMA HandlerQueue ==
    ASSUME CountInv, RunsInv, events # <<>>, UNCHANGED <<queued, run, seen>>,
           callers' = callers \/ callers' = Resolved(callers),
           timers' \in Nat, overflowAttempted' \in BOOLEAN,
           events' = events \/ events' = Tail(events)
    PROVE  Busy(callers) = {} /\ Busy(callers') = {} /\ QueueInv' /\ seen'.autoRuns = seen.autoRuns
<1>1. Busy(callers) = {}
  BY NobodyBusy
<1>2. Busy(callers') = {} /\ DOMAIN callers' = Prompts
  BY <1>1, Numbers, BusyKept
<1>3. UserFirst(events') /\ (~run.on /\ events' # <<>> => events'[Len(events')].type = "agent_end")
  <2>1. UserFirst(events) /\ events \in Seq(Events) /\ (~run.on /\ events # <<>> => events[Len(events)].type = "agent_end")
    BY Numbers DEF RunsInv, QueueInv
  <2>2. CASE events' = Tail(events)
    BY <2>1, <2>2, EndsTaken
  <2> QED
    BY <2>1, <2>2
<1> QED
  BY <1>1, <1>2, <1>3 DEF RunsInv, QueueInv

\* At the end of a run no message of the user waits to be handled.
LEMMA EndAtHead ==
    ASSUME CountInv, RunsInv, events # <<>>, Head(events).type = "agent_end"
    PROVE  /\ NumEnds(events) = NumEnds(Tail(events)) + 1 /\ NumEnds(Tail(events)) \in Nat
           /\ Repair(overflowAttempted, events) = One(~overflowAttempted)
           /\ \A attempted : Repair(attempted, events) = One(~attempted)
           /\ \A attempted : Repair(attempted, Tail(events)) = One(~attempted)
<1>1. Tail(events) \in Seq(Events) /\ NumEnds(events) = NumEnds(Tail(events)) + 1
  BY Numbers, EndsTaken DEF One
<1>2. ~UserIn(Tail(events)) /\ ~UserIn(events)
  <2>1. Head(events) # MessageEnd("user")
    BY DEF MessageEnd
  <2> QED
    BY <2>1, Numbers, EndsTaken
<1> QED
  BY <1>1, <1>2, EndsCounted DEF Repair, One

\* What a step adds and takes is what the number of runs changes by, ...
LEMMA LiveSum ==
    ASSUME NEW t \in Nat, NEW t1, NEW o \in Nat, NEW e \in Nat, NEW e1 \in Nat,
           NEW d \in Nat, NEW d1 \in Nat, NEW m \in Nat, NEW x \in Nat, NEW l \in Nat,
           t1 = t + m, e = e1 + x, m + d = (x + d1) - l
    PROVE  ((t1 + o) + e1) - d1 = (((t + o) + e) - d) - l
OBVIOUS

\* ... and what they cost.
LEMMA CostSum ==
    ASSUME NEW s \in Nat, NEW t \in Nat, NEW m \in Nat, NEW r \in Nat, NEW r1 \in Nat, NEW b \in Nat,
           NEW b1 \in Nat, NEW u \in Nat, NEW u1 \in Nat, NEW a \in Nat,
           (m + r1) + (b1 + u1) <= (r + a) + (b + u)
    PROVE  (s + ((t + m) + r1)) + (b1 + u1) <= ((s + (t + r)) + (b + u)) + a
OBVIOUS

\* A step of the handler sets as many timers, takes as many ends from the queue and lets
\* as many runs go as these numbers say, ...
Moved(more, less, ended) ==
    /\ events' = IF ended = 1 THEN Tail(events) ELSE events
    /\ timers' = timers + more
    /\ more + One(Dead(handler)) = (ended + One(Dead(handler'))) - less

\* ... and what is still to come costs no more, up to the retries a run let go gives back.
Paid(more, less) ==
    (more + One(Restarts(handler'))) + (Budget(handler', retryAttempt', fallbackIndex') + One(~overflowAttempted'))
        <= (One(Restarts(handler)) + (IF less = 1 THEN MaxRetries ELSE 0))
             + (Budget(handler, retryAttempt, fallbackIndex) + One(~overflowAttempted))

\* The handler of agent_end keeps the runs that may come, and what they cost.
LEMMA EndKeeps ==
    ASSUME CountInv, CountInv', RunsInv, events # <<>>, Head(events).type = "agent_end",
           UNCHANGED <<queued, run, seen>>, callers' = callers \/ callers' = Resolved(callers),
           timers' \in Nat, overflowAttempted' \in BOOLEAN,
           NEW more \in 0..1, NEW less \in 0..1, NEW ended \in 0..1,
           Moved(more, less, ended), Paid(more, less)
    PROVE  RunsInv'
<1>1. Busy(callers) = {} /\ Busy(callers') = {} /\ QueueInv' /\ seen'.autoRuns = seen.autoRuns
  BY HandlerQueue DEF Moved
<1>2. /\ NumEnds(events) = NumEnds(events') + ended /\ NumEnds(events') \in Nat
      /\ Repair(overflowAttempted, events) = One(~overflowAttempted)
      /\ Repair(overflowAttempted', events') = One(~overflowAttempted')
  <2>1. CASE ended = 1
    BY <2>1, EndAtHead DEF Moved
  <2>2. CASE ended = 0
    <3>1. events' = events
      BY <2>2 DEF Moved
    <3>2. NumEnds(events) = NumEnds(events) + 0 /\ NumEnds(events) \in Nat
      BY Numbers
    <3>3. /\ Repair(overflowAttempted, events) = One(~overflowAttempted)
          /\ Repair(overflowAttempted', events) = One(~overflowAttempted')
      BY EndAtHead
    <3> QED
      BY <2>2, <3>1, <3>2, <3>3
  <2> QED
    BY <2>1, <2>2
<1>3. timers \in Nat /\ run' = run /\ seen.autoRuns \in Nat /\ MaxRetries \in Nat
  BY Numbers
<1>4. Live' = Live - less
  <2> DEFINE o == One(run.on)  e == NumEnds(events)  e1 == NumEnds(events')
             d == One(Dead(handler))  d1 == One(Dead(handler'))
  <2>1. Live = ((timers + o) + e) - d /\ Live' = ((timers' + o) + e1) - d1
    BY <1>3 DEF Live
  <2>2. o \in Nat /\ d \in Nat /\ d1 \in Nat
    BY DEF One
  <2>3. timers' = timers + more /\ more + d = (ended + d1) - less
    BY DEF Moved
  <2>4. e = e1 + ended /\ e \in Nat /\ e1 \in Nat
    BY <1>2, Numbers
  <2> HIDE DEF o, e, e1, d, d1
  <2>5. more \in Nat /\ ended \in Nat /\ less \in Nat /\ timers \in Nat
    BY <1>3
  <2>6. ((timers' + o) + e1) - d1 = (((timers + o) + e) - d) - less
    BY <2>2, <2>3, <2>4, <2>5, LiveSum
  <2> QED
    BY <2>1, <2>6
<1>5. Cost' <= Cost + (IF less = 1 THEN MaxRetries ELSE 0)
  <2> DEFINE B == Budget(handler, retryAttempt, fallbackIndex)
             B1 == Budget(handler', retryAttempt', fallbackIndex')
             R == One(Restarts(handler))  R1 == One(Restarts(handler'))
             U == One(~overflowAttempted)  U1 == One(~overflowAttempted')
             A == IF less = 1 THEN MaxRetries ELSE 0
  <2>1. B \in Nat /\ B1 \in Nat
    <3>1. /\ retryAttempt' \in 0..(MaxRetries + 1) /\ fallbackIndex' \in 0..Fallbacks
          /\ ~(handler'.at = "fallback" /\ handler'.retry) => retryAttempt' <= MaxRetries
      BY DEF CountInv
    <3> QED
      BY <3>1, CostTypes, Numbers
  <2>2. R \in 0..1 /\ R1 \in 0..1 /\ U \in 0..1 /\ U1 \in 0..1 /\ A \in Nat
    BY <1>3 DEF One
  <2>3. Cost = (seen.autoRuns + (timers + R)) + (B + U)
    BY <1>2 DEF Cost, Due
  <2>4. Cost' = (seen'.autoRuns + (timers' + R1)) + (B1 + U1)
    BY <1>2 DEF Cost, Due
  <2>5. (more + R1) + (B1 + U1) <= (R + A) + (B + U) /\ timers' = timers + more
    BY DEF Paid, Moved
  <2> HIDE DEF B, B1, R, R1, U, U1, A
  <2>6. Cost' <= Cost + A
    <3>1. (seen.autoRuns + ((timers + more) + R1)) + (B1 + U1) <= ((seen.autoRuns + (timers + R)) + (B + U)) + A
      <4>1. /\ seen.autoRuns \in Nat /\ timers \in Nat /\ more \in Nat /\ R \in Nat /\ R1 \in Nat
            /\ B \in Nat /\ B1 \in Nat /\ U \in Nat /\ U1 \in Nat /\ A \in Nat
        BY <1>3, <2>1, <2>2
      <4> QED
        BY <2>5, <4>1, CostSum
    <3> QED
      BY <1>1, <2>3, <2>4, <2>5, <3>1
  <2> QED
    BY <2>6 DEF A
<1>6. CASE less = 0
  <2>1. Live' = Live /\ Cost' <= Cost
    BY <1>4, <1>5, <1>6, Sums
  <2> QED
    BY <1>1, <2>1, StepSame
<1>7. CASE less = 1
  <2>1. Live' = Live - 1 /\ Cost' <= Cost + MaxRetries
    BY <1>4, <1>5, <1>7
  <2> QED
    BY <1>1, <2>1, StepLess
<1> QED
  BY <1>6, <1>7

\* _checkCompaction: an overflow is repaired once, the conversation is compacted, or that
\* is all.
LEMMA CheckDoes ==
    ASSUME NEW kind, NEW ms, CheckCompaction(kind, ms), overflowAttempted \in BOOLEAN
    PROVE  /\ handler'.at # "fallback" /\ overflowAttempted' \in BOOLEAN
           /\ \/ /\ kind = "overflow" /\ ~overflowAttempted /\ overflowAttempted'
                 /\ UNCHANGED events /\ Restarts(handler') /\ ~Dead(handler')
              \/ /\ UNCHANGED <<events, overflowAttempted>> /\ ~Restarts(handler') /\ Dead(handler')
              \/ /\ events' = Tail(events) /\ overflowAttempted' \in {TRUE, overflowAttempted}
                 /\ ~Restarts(handler') /\ ~Dead(handler')
<1>1. ~Restarts(Free) /\ ~Dead(Free) /\ Free.at # "fallback"
  BY DEF Free, Restarts, Dead
<1>2. \A cut : LET h == [at |-> "compacting", retry |-> TRUE, cut |-> cut]
               IN  Restarts(h) /\ ~Dead(h) /\ h.at # "fallback"
  BY DEF Restarts, Dead
<1>3. \A cut : LET h == [at |-> "compacting", retry |-> FALSE, cut |-> cut]
               IN  ~Restarts(h) /\ Dead(h) /\ h.at # "fallback"
  BY DEF Restarts, Dead
<1>4. CASE /\ NeedsOverflowRecovery(kind) /\ overflowAttempted' = TRUE
           /\ IF CanPrepare
                THEN /\ \E cut \in Cuts : handler' = [at |-> "compacting", retry |-> TRUE, cut |-> cut]
                     /\ UNCHANGED events
                ELSE EndEvent
  <2>1. kind = "overflow" /\ ~overflowAttempted
    BY <1>4 DEF NeedsOverflowRecovery
  <2>2. CASE CanPrepare
    BY <1>2, <1>4, <2>1, <2>2
  <2>3. CASE ~CanPrepare
    BY <1>1, <1>4, <2>3 DEF EndEvent
  <2> QED
    BY <2>2, <2>3
<1>5. CASE /\ \E cut \in Cuts : handler' = [at |-> "compacting", retry |-> FALSE, cut |-> cut]
           /\ UNCHANGED <<events, overflowAttempted>>
  BY <1>3, <1>5
<1>6. CASE EndEvent /\ UNCHANGED overflowAttempted
  BY <1>1, <1>6 DEF EndEvent
<1> QED
  BY <1>4, <1>5, <1>6 DEF CheckCompaction

\* After _checkCompaction the run goes on when the overflow is repaired, and is let go
\* otherwise.
LEMMA CheckKeeps ==
    ASSUME CountInv, CountInv', RunsInv, events # <<>>, Head(events).type = "agent_end",
           UNCHANGED <<queued, run, seen, timers>>, callers' = callers \/ callers' = Resolved(callers),
           NEW kind, NEW ms, CheckCompaction(kind, ms), ~Dead(handler),
           Budget(handler', retryAttempt', fallbackIndex')
               <= Budget(handler, retryAttempt, fallbackIndex) + (IF kind = "overflow" THEN 0 ELSE MaxRetries)
    PROVE  RunsInv'
<1> DEFINE B == Budget(handler, retryAttempt, fallbackIndex)
           B1 == Budget(handler', retryAttempt', fallbackIndex')
<1>1. timers \in Nat /\ overflowAttempted \in BOOLEAN /\ timers' = timers /\ MaxRetries \in Nat
  BY Numbers DEF RunsInv, QueueInv
<1>2. B \in Nat /\ B1 \in Nat
  <2>1. /\ retryAttempt' \in 0..(MaxRetries + 1) /\ fallbackIndex' \in 0..Fallbacks
        /\ ~(handler'.at = "fallback" /\ handler'.retry) => retryAttempt' <= MaxRetries
    BY DEF CountInv
  <2> QED
    BY <2>1, CostTypes, Numbers
<1>3. B1 <= B + MaxRetries /\ (kind = "overflow" => B1 <= B)
  <2> HIDE DEF B, B1
  <2>1. B1 <= B + (IF kind = "overflow" THEN 0 ELSE MaxRetries)
    BY DEF B, B1
  <2> QED
    BY <1>1, <1>2, <2>1
<1>4. One(Restarts(handler)) \in 0..1 /\ One(Dead(handler)) = 0
  BY DEF One
<1>5. overflowAttempted' \in BOOLEAN
  BY <1>1, CheckDoes
<1>6. CASE /\ kind = "overflow" /\ ~overflowAttempted /\ overflowAttempted'
           /\ UNCHANGED events /\ Restarts(handler') /\ ~Dead(handler')
  <2>1. Moved(0, 0, 0)
    BY <1>1, <1>6 DEF Moved, One
  <2>2. /\ One(Restarts(handler')) = 1 /\ One(~overflowAttempted') = 0 /\ One(~overflowAttempted) = 1
    BY <1>6 DEF One
  <2>3. Paid(0, 0)
    <3> HIDE DEF B, B1
    <3>1. B1 <= B
      BY <1>3, <1>6
    <3>2. (0 + 1) + (B1 + 0) <= (One(Restarts(handler)) + 0) + (B + 1)
      BY <1>2, <1>4, <3>1
    <3> QED
      BY <2>2, <3>2 DEF Paid, B, B1
  <2> QED
    BY <1>1, <1>5, <2>1, <2>3, EndKeeps
<1>7. CASE /\ overflowAttempted' \in {TRUE, overflowAttempted} /\ ~Restarts(handler')
           /\ \/ UNCHANGED events /\ Dead(handler')
              \/ events' = Tail(events) /\ ~Dead(handler')
  <2>1. /\ One(Restarts(handler')) = 0 /\ One(~overflowAttempted') \in 0..1 /\ One(~overflowAttempted) \in 0..1
        /\ One(~overflowAttempted') <= One(~overflowAttempted)
    <3>1. One(Restarts(handler')) = 0 /\ One(~overflowAttempted') \in 0..1 /\ One(~overflowAttempted) \in 0..1
      BY <1>7 DEF One
    <3>2. overflowAttempted => overflowAttempted'
      BY <1>1, <1>7
    <3>3. One(~overflowAttempted') = 0 \/ One(~overflowAttempted) = 1
      BY <3>2 DEF One
    <3> QED
      BY <3>1, <3>3
  <2>2. Paid(0, 1)
    <3> DEFINE U == One(~overflowAttempted)  U1 == One(~overflowAttempted')
    <3> HIDE DEF B, B1, U, U1
    <3>1. U1 \in 0..1 /\ U \in 0..1 /\ U1 <= U
      BY <2>1 DEF U, U1
    <3>2. (0 + 0) + (B1 + U1) <= (One(Restarts(handler)) + MaxRetries) + (B + U)
      BY <1>1, <1>2, <1>3, <1>4, <3>1
    <3> QED
      BY <2>1, <3>2 DEF Paid, B, B1, U, U1
  <2>3. CASE UNCHANGED events /\ Dead(handler')
    <3>1. Moved(0, 1, 0)
      BY <1>1, <2>3 DEF Moved, One
    <3> QED
      BY <1>1, <1>5, <2>2, <3>1, EndKeeps
  <2>4. CASE events' = Tail(events) /\ ~Dead(handler')
    <3>1. Moved(0, 1, 1)
      BY <1>1, <2>4 DEF Moved, One
    <3> QED
      BY <1>1, <1>5, <2>2, <3>1, EndKeeps
  <2> QED
    BY <1>7, <2>3, <2>4
<1> QED
  BY <1>1, <1>6, <1>7, CheckDoes

\* A handler that waits has the end of a run at its head.
LEMMA Waiting ==
    ASSUME CountInv, handler.at # "free" \/ AtHead("agent_end")
    PROVE  events # <<>> /\ Head(events).type = "agent_end"
BY DEF CountInv, AtHead

\* The end of a run whose last answer may be tried again.
LEMMA RetryableRuns == ASSUME CountInv, CountInv', RunsInv, HandleRetryable PROVE RunsInv'
<1>0. /\ events # <<>> /\ Head(events).type = "agent_end" /\ handler.at = "free"
      /\ UNCHANGED <<queued, run, seen, timers>>
  BY DEF HandleRetryable, AtHead
<1>1. /\ timers \in Nat /\ overflowAttempted \in BOOLEAN /\ timers' = timers /\ MaxRetries \in Nat
      /\ retryAttempt \in 0..(MaxRetries + 1) /\ retryAttempt <= MaxRetries /\ fallbackIndex \in 0..Fallbacks
      /\ Others(fallbackIndex) \in Nat
  <2>1. retryAttempt <= MaxRetries
    BY <1>0 DEF CountInv
  <2> QED
    BY <1>0, <2>1, Numbers, OthersLeft DEF RunsInv, QueueInv
<1>2. /\ ~Dead(handler) /\ ~Restarts(handler)
      /\ Budget(handler, retryAttempt, fallbackIndex) = (MaxRetries - retryAttempt) + Others(fallbackIndex)
  BY <1>0 DEF Dead, Restarts, Budget
<1>3. One(~overflowAttempted) \in 0..1
  BY DEF One
<1>4. CASE retryAttempt < MaxRetries
  <2>1. /\ retryAttempt' = retryAttempt + 1 /\ handler' = [Free EXCEPT !.at = "sleeping"]
        /\ UNCHANGED <<events, fallbackIndex, overflowAttempted, callers>>
    BY <1>4 DEF HandleRetryable
  <2>2. ~Dead(handler') /\ Restarts(handler') /\ handler'.at # "fallback"
    BY <2>1 DEF Free, Dead, Restarts
  <2>3. Moved(0, 0, 0)
    BY <1>1, <1>2, <2>1, <2>2 DEF Moved, One
  <2>4. Paid(0, 0)
    <3>1. Budget(handler', retryAttempt', fallbackIndex') = (MaxRetries - (retryAttempt + 1)) + Others(fallbackIndex)
      BY <2>1, <2>2 DEF Budget
    <3>2. One(Restarts(handler')) = 1 /\ One(Restarts(handler)) = 0 /\ One(~overflowAttempted') = One(~overflowAttempted)
      BY <1>2, <2>1, <2>2 DEF One
    <3> DEFINE U == One(~overflowAttempted)  O == Others(fallbackIndex)
    <3> HIDE DEF U, O
    <3>3. U \in Nat /\ O \in Nat /\ retryAttempt \in Nat
      BY <1>1, <1>3 DEF U, O
    <3>4. (0 + 1) + (((MaxRetries - (retryAttempt + 1)) + O) + U) <= (0 + 0) + (((MaxRetries - retryAttempt) + O) + U)
      BY <1>1, <3>3
    <3> QED
      BY <1>2, <3>1, <3>2, <3>4 DEF Paid, U, O
  <2> QED
    BY <1>0, <1>1, <2>1, <2>3, <2>4, EndKeeps
<1>5. CASE ~(retryAttempt < MaxRetries) /\ fallbackIndex < Fallbacks
  <2>1. /\ retryAttempt' = retryAttempt + 1 /\ fallbackIndex' = fallbackIndex + 1
        /\ handler' = [Free EXCEPT !.at = "fallback", !.retry = TRUE]
        /\ UNCHANGED <<events, overflowAttempted, callers>>
    BY <1>5 DEF HandleRetryable
  <2>2. ~Dead(handler') /\ Restarts(handler') /\ handler'.at = "fallback"
    BY <2>1 DEF Free, Dead, Restarts
  <2>3. Moved(0, 0, 0)
    BY <1>1, <1>2, <2>1, <2>2 DEF Moved, One
  <2>4. Paid(0, 0)
    <3>1. Budget(handler', retryAttempt', fallbackIndex') = MaxRetries + Others(fallbackIndex + 1)
      BY <2>1, <2>2 DEF Budget
    <3>2. One(Restarts(handler')) = 1 /\ One(Restarts(handler)) = 0 /\ One(~overflowAttempted') = One(~overflowAttempted)
      BY <1>2, <2>1, <2>2 DEF One
    <3> DEFINE U == One(~overflowAttempted)  O == Others(fallbackIndex)  P == Others(fallbackIndex + 1)
    <3>3. U \in Nat /\ O \in Nat /\ P \in Nat /\ O = (P + MaxRetries) + 1 /\ MaxRetries - retryAttempt = 0
      <4>1. fallbackIndex + 1 \in 0..Fallbacks
        BY <1>1, <1>5, OthersLeft
      <4>2. P \in Nat /\ O = (P + MaxRetries) + 1
        BY <1>1, <1>5, <4>1, OthersLeft
      <4>3. MaxRetries - retryAttempt = 0
        BY <1>1, <1>5
      <4> QED
        BY <1>1, <1>3, <4>2, <4>3
    <3> HIDE DEF U, O, P
    <3>4. (0 + 1) + ((MaxRetries + P) + U) <= (0 + 0) + (((MaxRetries - retryAttempt) + O) + U)
      BY <1>1, <3>3
    <3> QED
      BY <1>2, <3>1, <3>2, <3>4 DEF Paid, U, O, P
  <2> QED
    BY <1>0, <1>1, <2>1, <2>3, <2>4, EndKeeps
<1>6. CASE ~(retryAttempt < MaxRetries) /\ ~(fallbackIndex < Fallbacks)
  <2>1. /\ retryAttempt' = 0 /\ callers' = Resolved(callers) /\ fallbackIndex' = fallbackIndex
        /\ CheckCompaction("retryable", messages)
    BY <1>6 DEF HandleRetryable, ResolveRetry
  <2>2. handler'.at # "fallback"
    BY <1>1, <2>1, CheckDoes
  <2>3. Budget(handler', retryAttempt', fallbackIndex') = (MaxRetries - 0) + Others(fallbackIndex)
    BY <2>1, <2>2 DEF Budget
  <2>4. Budget(handler', retryAttempt', fallbackIndex')
            <= Budget(handler, retryAttempt, fallbackIndex) + (IF "retryable" = "overflow" THEN 0 ELSE MaxRetries)
    <3> DEFINE O == Others(fallbackIndex)
    <3> HIDE DEF O
    <3>1. O \in Nat /\ retryAttempt \in Nat
      BY <1>1 DEF O
    <3>2. (MaxRetries - 0) + O <= ((MaxRetries - retryAttempt) + O) + MaxRetries
      BY <1>1, <3>1
    <3> QED
      BY <1>2, <2>3, <3>2 DEF O
  <2> QED
    BY <1>0, <1>2, <2>1, <2>4, CheckKeeps
<1> QED
  BY <1>4, <1>5, <1>6

\* The numbers a step of a handler compares.
LEMMA HandlerNumbers ==
    ASSUME CountInv, RunsInv
    PROVE  /\ timers \in Nat /\ overflowAttempted \in BOOLEAN /\ MaxRetries \in Nat
           /\ retryAttempt \in Nat /\ fallbackIndex \in 0..Fallbacks /\ Others(fallbackIndex) \in Nat
           /\ Budget(handler, retryAttempt, fallbackIndex) \in Nat
           /\ One(Restarts(handler)) \in 0..1 /\ One(~overflowAttempted) \in 0..1
           /\ ~(handler.at = "fallback" /\ handler.retry) => retryAttempt <= MaxRetries
<1>1. One(~overflowAttempted) \in 0..1
  BY DEF One
<1>2. ~(handler.at = "fallback" /\ handler.retry) => retryAttempt <= MaxRetries
  BY DEF CountInv
<1>3. timers \in Nat /\ overflowAttempted \in BOOLEAN
  BY DEF RunsInv, QueueInv
<1>4. retryAttempt \in 0..(MaxRetries + 1) /\ MaxRetries \in Nat /\ fallbackIndex \in 0..Fallbacks
  BY Numbers
<1>5. retryAttempt \in Nat
  BY <1>4
<1> QED
  BY <1>1, <1>2, <1>3, <1>4, <1>5, Numbers, Sums, OthersLeft

\* A handler that has ended starts nothing more.
LEMMA FreeDoes == ~Dead(Free) /\ ~Restarts(Free) /\ Free.at # "fallback" /\ One(Dead(Free)) = 0 /\ One(Restarts(Free)) = 0
BY DEF Free, Dead, Restarts, One

\* The handler ends and sets a timer for what it was to do: the run goes on.
LEMMA TimerRuns ==
    ASSUME CountInv, CountInv', RunsInv, Restarts(handler), EndEvent, timers' = timers + 1,
           UNCHANGED <<queued, run, seen, overflowAttempted>>, callers' = callers \/ callers' = Resolved(callers),
           Budget(handler', retryAttempt', fallbackIndex') = Budget(handler, retryAttempt, fallbackIndex)
    PROVE  RunsInv'
<1>1. events # <<>> /\ Head(events).type = "agent_end"
  BY Waiting DEF Restarts
<1>2. ~Dead(handler)
  BY DEF Dead, Restarts
<1>3. events' = Tail(events) /\ handler' = Free /\ timers' \in Nat
  BY HandlerNumbers DEF EndEvent
<1>4. Moved(1, 0, 1)
  BY <1>2, <1>3, FreeDoes DEF Moved, One
<1>5. Paid(1, 0)
  <2> DEFINE B == Budget(handler, retryAttempt, fallbackIndex)  U == One(~overflowAttempted)
  <2>1. B \in Nat /\ U \in Nat
    BY HandlerNumbers
  <2>2. /\ One(Restarts(handler)) = 1 /\ One(Restarts(handler')) = 0 /\ One(~overflowAttempted') = U
        /\ Budget(handler', retryAttempt', fallbackIndex') = B
    BY <1>3, FreeDoes DEF One
  <2> HIDE DEF B, U
  <2>3. (1 + 0) + (B + U) <= (1 + (IF 0 = 1 THEN MaxRetries ELSE 0)) + (B + U)
    BY <2>1
  <2>4. One(Restarts(handler)) = 1 /\ One(Restarts(handler')) = 0
    BY <2>2
  <2> QED
    BY ONLY <2>2, <2>3, <2>4 DEF Paid, B, U
<1> QED
  BY <1>1, <1>3, <1>4, <1>5, HandlerNumbers, EndKeeps

\* The delay is over, ...
LEMMA WakeRuns == ASSUME CountInv, CountInv', RunsInv, WakeUp PROVE RunsInv'
<1>1. /\ handler.at = "sleeping" /\ timers' = timers + 1 /\ EndEvent
      /\ UNCHANGED <<queued, run, seen, overflowAttempted, retryAttempt, fallbackIndex, callers>>
  BY DEF WakeUp, agentVars
<1>2. Restarts(handler)
  BY <1>1 DEF Restarts
<1>3. Budget(handler', retryAttempt', fallbackIndex') = Budget(handler, retryAttempt, fallbackIndex)
  BY <1>1, FreeDoes DEF Budget, EndEvent
<1> QED
  BY <1>1, <1>2, <1>3, TimerRuns

\* ... or it was aborted.
LEMMA SleepRuns == ASSUME CountInv, CountInv', RunsInv, SleepAborted PROVE RunsInv'
<1>1. /\ handler.at = "sleeping" /\ retryAttempt' = 0 /\ callers' = Resolved(callers)
      /\ CheckCompaction("retryable", messages) /\ UNCHANGED <<queued, run, seen, timers, fallbackIndex>>
  BY DEF SleepAborted, ResolveRetry
<1>2. events # <<>> /\ Head(events).type = "agent_end" /\ ~Dead(handler)
  BY <1>1, Waiting DEF Dead
<1>3. handler'.at # "fallback"
  BY <1>1, HandlerNumbers, CheckDoes
<1>4. Budget(handler', retryAttempt', fallbackIndex')
          <= Budget(handler, retryAttempt, fallbackIndex) + (IF "retryable" = "overflow" THEN 0 ELSE MaxRetries)
  <2> DEFINE O == Others(fallbackIndex)
  <2>1. /\ Budget(handler', retryAttempt', fallbackIndex') = (MaxRetries - 0) + O
        /\ Budget(handler, retryAttempt, fallbackIndex) = (MaxRetries - retryAttempt) + O
    BY <1>1, <1>3 DEF Budget
  <2>2. O \in Nat /\ retryAttempt \in Nat /\ retryAttempt <= MaxRetries /\ MaxRetries \in Nat
    BY <1>1, HandlerNumbers
  <2> HIDE DEF O
  <2>3. (MaxRetries - 0) + O <= ((MaxRetries - retryAttempt) + O) + MaxRetries
    BY <2>2
  <2> QED
    BY <2>1, <2>3
<1> QED
  BY <1>1, <1>2, <1>4, CheckKeeps

\* The end of a run whose last answer is not tried again.
LEMMA AgentEndRuns == ASSUME CountInv, CountInv', RunsInv, HandleAgentEnd PROVE RunsInv'
<1>0. /\ events # <<>> /\ Head(events).type = "agent_end" /\ handler.at = "free"
      /\ UNCHANGED <<queued, run, seen, timers, retryAttempt, callers>>
  BY DEF HandleAgentEnd, AtHead
<1>1. /\ timers \in Nat /\ overflowAttempted \in BOOLEAN /\ timers' = timers /\ MaxRetries \in Nat
      /\ retryAttempt \in Nat /\ retryAttempt <= MaxRetries /\ fallbackIndex \in 0..Fallbacks
      /\ Others(fallbackIndex) \in Nat
  BY <1>0, HandlerNumbers
<1>2. /\ ~Dead(handler) /\ One(Restarts(handler)) = 0 /\ One(Dead(handler)) = 0
      /\ Budget(handler, retryAttempt, fallbackIndex) = (MaxRetries - retryAttempt) + Others(fallbackIndex)
  BY <1>0 DEF Dead, Restarts, Budget, One
<1> DEFINE U == One(~overflowAttempted)  O == Others(fallbackIndex)
<1>3. U \in Nat /\ O \in Nat
  BY HandlerNumbers
<1>4. CASE EndEvent /\ UNCHANGED <<fallbackIndex, overflowAttempted>>
  <2>1. events' = Tail(events) /\ handler' = Free
    BY <1>4 DEF EndEvent
  <2>2. Moved(0, 1, 1)
    BY <1>1, <1>2, <2>1, FreeDoes DEF Moved
  <2>3. Paid(0, 1)
    <3>1. /\ Budget(handler', retryAttempt', fallbackIndex') = (MaxRetries - retryAttempt) + O
          /\ One(Restarts(handler')) = 0 /\ One(~overflowAttempted') = U
      BY <1>0, <1>4, <2>1, FreeDoes DEF Budget
    <3> HIDE DEF U, O
    <3>2. (0 + 0) + (((MaxRetries - retryAttempt) + O) + U) <= (0 + MaxRetries) + (((MaxRetries - retryAttempt) + O) + U)
      BY <1>1, <1>3
    <3> QED
      BY <1>2, <3>1, <3>2 DEF Paid, U, O
  <2> QED
    BY <1>0, <1>1, <1>4, <2>2, <2>3, EndKeeps
<1>5. CASE /\ fallbackIndex < Fallbacks /\ fallbackIndex' = fallbackIndex + 1
           /\ handler' = [Free EXCEPT !.at = "fallback"] /\ UNCHANGED <<events, overflowAttempted>>
  <2>1. ~Dead(handler') /\ Restarts(handler') /\ handler'.at = "fallback"
    BY <1>5 DEF Free, Dead, Restarts
  <2>2. Moved(0, 0, 0)
    BY <1>1, <1>2, <1>5, <2>1 DEF Moved, One
  <2>3. Paid(0, 0)
    <3> DEFINE P == Others(fallbackIndex + 1)
    <3>1. /\ Budget(handler', retryAttempt', fallbackIndex') = MaxRetries + P
          /\ One(Restarts(handler')) = 1 /\ One(~overflowAttempted') = U
      BY <1>5, <2>1 DEF Budget, One
    <3>2. P \in Nat /\ O = (P + MaxRetries) + 1
      <4>1. fallbackIndex + 1 \in 0..Fallbacks
        BY <1>1, <1>5, OthersLeft
      <4> QED
        BY <1>1, <1>5, <4>1, OthersLeft
    <3> HIDE DEF U, O, P
    <3>3. (0 + 1) + ((MaxRetries + P) + U) <= (0 + 0) + (((MaxRetries - retryAttempt) + O) + U)
      BY <1>1, <1>3, <3>2
    <3> QED
      BY <1>2, <3>1, <3>3 DEF Paid, U, O, P
  <2> QED
    BY <1>0, <1>1, <1>5, <2>2, <2>3, EndKeeps
<1>6. CASE CheckCompaction(lastAssistant, messages) /\ UNCHANGED fallbackIndex
  <2>1. handler'.at # "fallback"
    BY <1>1, <1>6, CheckDoes
  <2>2. Budget(handler', retryAttempt', fallbackIndex') = (MaxRetries - retryAttempt) + O
    BY <1>0, <1>6, <2>1 DEF Budget
  <2>3. Budget(handler', retryAttempt', fallbackIndex')
            <= Budget(handler, retryAttempt, fallbackIndex) + (IF lastAssistant = "overflow" THEN 0 ELSE MaxRetries)
    <3> HIDE DEF O
    <3>1. \A a \in {0, MaxRetries} : (MaxRetries - retryAttempt) + O <= ((MaxRetries - retryAttempt) + O) + a
      BY <1>1, <1>3
    <3> QED
      BY <1>2, <2>2, <3>1 DEF O
  <2> QED
    BY <1>0, <1>2, <1>6, <2>3, CheckKeeps
<1> QED
  BY <1>4, <1>5, <1>6 DEF HandleAgentEnd

\* The run is restarted with a fallback model, ...
LEMMA FallbackRuns == ASSUME CountInv, CountInv', RunsInv, FallbackReady PROVE RunsInv'
<1>1. /\ handler.at = "fallback" /\ timers' = timers + 1 /\ EndEvent /\ retryAttempt' = 0
      /\ UNCHANGED <<queued, run, seen, overflowAttempted, fallbackIndex>>
      /\ callers' = callers \/ callers' = Resolved(callers)
  BY DEF FallbackReady, ResolveRetry, KeepRetry
<1>2. Restarts(handler)
  BY <1>1 DEF Restarts
<1>3. Budget(handler', retryAttempt', fallbackIndex') = Budget(handler, retryAttempt, fallbackIndex)
  <2>1. /\ Budget(handler', retryAttempt', fallbackIndex') = (MaxRetries - 0) + Others(fallbackIndex)
        /\ Budget(handler, retryAttempt, fallbackIndex) = MaxRetries + Others(fallbackIndex)
    BY <1>1, FreeDoes DEF Budget, EndEvent
  <2>2. MaxRetries - 0 = MaxRetries
    BY HandlerNumbers
  <2> QED
    BY <2>1, <2>2
<1> QED
  BY <1>1, <1>2, <1>3, TimerRuns

\* ... or another one is tried, or it is given up.
LEMMA NoKeyRuns == ASSUME CountInv, CountInv', RunsInv, FallbackNoKey PROVE RunsInv'
<1>0. /\ handler.at = "fallback" /\ UNCHANGED <<queued, run, seen, timers>>
  BY DEF FallbackNoKey
<1>1. /\ events # <<>> /\ Head(events).type = "agent_end" /\ ~Dead(handler)
      /\ One(Dead(handler)) = 0 /\ One(Restarts(handler)) = 1
  BY <1>0, Waiting DEF Dead, Restarts, One
<1>2. /\ timers \in Nat /\ overflowAttempted \in BOOLEAN /\ timers' = timers /\ MaxRetries \in Nat
      /\ retryAttempt \in Nat /\ fallbackIndex \in 0..Fallbacks /\ Others(fallbackIndex) \in Nat
  BY <1>0, HandlerNumbers
<1>3. Budget(handler, retryAttempt, fallbackIndex) = MaxRetries + Others(fallbackIndex)
  BY <1>0 DEF Budget
<1> DEFINE O == Others(fallbackIndex)  U == One(~overflowAttempted)
<1>4. O \in Nat /\ U \in Nat
  BY HandlerNumbers
<1>5. CASE fallbackIndex < Fallbacks
  <2>1. fallbackIndex' = fallbackIndex + 1 /\ UNCHANGED <<events, handler, retryAttempt, overflowAttempted, callers>>
    BY <1>5 DEF FallbackNoKey, KeepRetry
  <2>2. Moved(0, 0, 0)
    BY <1>1, <1>2, <2>1 DEF Moved
  <2>3. Paid(0, 0)
    <3> DEFINE P == Others(fallbackIndex + 1)
    <3>1. /\ Budget(handler', retryAttempt', fallbackIndex') = MaxRetries + P
          /\ One(Restarts(handler')) = 1 /\ One(~overflowAttempted') = U
      BY <1>0, <1>1, <2>1 DEF Budget
    <3>2. P \in Nat /\ O = (P + MaxRetries) + 1
      <4>1. fallbackIndex + 1 \in 0..Fallbacks
        BY <1>2, <1>5, OthersLeft
      <4> QED
        BY <1>2, <1>5, <4>1, OthersLeft
    <3> HIDE DEF U, O, P
    <3>3. (0 + 1) + ((MaxRetries + P) + U) <= (1 + 0) + ((MaxRetries + O) + U)
      BY <1>2, <1>4, <3>2
    <3> QED
      BY <1>1, <1>3, <3>1, <3>3 DEF Paid, U, O, P
  <2> QED
    BY <1>0, <1>1, <1>2, <2>1, <2>2, <2>3, EndKeeps
<1>6. CASE ~(fallbackIndex < Fallbacks)
  <2>1. /\ fallbackIndex' = fallbackIndex /\ retryAttempt' \in {0, retryAttempt}
        /\ callers' = callers \/ callers' = Resolved(callers)
        /\ CheckCompaction(IF handler.retry THEN "retryable" ELSE "fatal", messages)
    BY <1>6 DEF FallbackNoKey, ResolveRetry, KeepRetry
  <2>2. PICK kind \in {"retryable", "fatal"} : CheckCompaction(kind, messages)
    BY <2>1
  <2>3. handler'.at # "fallback"
    BY <1>2, <2>2, CheckDoes
  <2>4. Budget(handler', retryAttempt', fallbackIndex') = (MaxRetries - retryAttempt') + O
    BY <2>1, <2>3 DEF Budget
  <2>5. Budget(handler', retryAttempt', fallbackIndex')
            <= Budget(handler, retryAttempt, fallbackIndex) + (IF kind = "overflow" THEN 0 ELSE MaxRetries)
    <3> HIDE DEF O
    <3>1. \A n \in Nat : (MaxRetries - n) + O <= (MaxRetries + O) + MaxRetries
      BY <1>2, <1>4
    <3>2. retryAttempt' \in Nat
      BY <1>2, <2>1
    <3>3. kind # "overflow"
      BY <2>2
    <3> QED
      BY <1>3, <2>4, <3>1, <3>2, <3>3 DEF O
  <2> QED
    BY <1>0, <1>1, <2>1, <2>2, <2>5, CheckKeeps
<1> QED
  BY <1>5, <1>6

\* The handler has compacted the conversation, or failed to.
LEMMA CompactRuns ==
    ASSUME CountInv, CountInv', RunsInv, HandlerCompacts \/ HandlerCompactionFails
    PROVE  RunsInv'
<1>0. /\ handler.at = "compacting" /\ EndEvent
      /\ UNCHANGED <<queued, run, seen, callers, overflowAttempted, retryAttempt, fallbackIndex>>
      /\ \/ timers' = timers
         \/ timers' = IF handler.retry \/ queued > 0 THEN timers + 1 ELSE timers
  BY DEF HandlerCompacts, HandlerCompactionFails, FinalizeCompaction, retryVars, agentVars
<1>1. events # <<>> /\ Head(events).type = "agent_end"
  BY <1>0, Waiting
<1>2. Budget(handler', retryAttempt', fallbackIndex') = Budget(handler, retryAttempt, fallbackIndex)
  BY <1>0, FreeDoes DEF Budget, EndEvent
<1>3. timers' = timers \/ (handler.retry /\ timers' = timers + 1)
  BY <1>0, Numbers
<1>4. CASE handler.retry /\ timers' = timers + 1
  <2>1. Restarts(handler)
    BY <1>0, <1>4 DEF Restarts
  <2> QED
    BY <1>0, <1>2, <1>4, <2>1, TimerRuns
<1>5. CASE timers' = timers
  <2> DEFINE B == Budget(handler, retryAttempt, fallbackIndex)  U == One(~overflowAttempted)
             R == One(Restarts(handler))
  <2>1. B \in Nat /\ U \in Nat /\ R \in 0..1 /\ MaxRetries \in Nat /\ timers \in Nat /\ overflowAttempted \in BOOLEAN
    BY HandlerNumbers
  <2>2. /\ events' = Tail(events) /\ handler' = Free /\ One(Restarts(handler')) = 0
        /\ One(~overflowAttempted') = U /\ One(Dead(handler')) = 0
    BY <1>0, FreeDoes DEF EndEvent
  <2>3. CASE handler.retry
    <3>1. One(Dead(handler)) = 0
      BY <2>3 DEF Dead, One
    <3>2. Moved(0, 1, 1)
      BY <1>5, <2>1, <2>2, <3>1 DEF Moved
    <3>3. Paid(0, 1)
      <4> HIDE DEF B, U, R
      <4>1. (0 + 0) + (B + U) <= (R + MaxRetries) + (B + U)
        BY <2>1
      <4> QED
        BY <1>2, <2>2, <4>1 DEF Paid, B, U, R
    <3> QED
      BY <1>0, <1>1, <1>5, <2>1, <3>2, <3>3, EndKeeps
  <2>4. CASE ~handler.retry
    <3>1. One(Dead(handler)) = 1
      BY <1>0, <2>4 DEF Dead, One
    <3>2. Moved(0, 0, 1)
      BY <1>5, <2>1, <2>2, <3>1 DEF Moved
    <3>3. Paid(0, 0)
      <4> HIDE DEF B, U, R
      <4>1. (0 + 0) + (B + U) <= (R + 0) + (B + U)
        BY <2>1
      <4> QED
        BY <1>2, <2>2, <4>1 DEF Paid, B, U, R
    <3> QED
      BY <1>0, <1>1, <1>5, <2>1, <3>2, <3>3, EndKeeps
  <2> QED
    BY <2>3, <2>4
<1> QED
  BY <1>3, <1>4, <1>5

\* An answer without error, or a prompt of the user, starts to count anew.
LEMMA ResetKeeps ==
    ASSUME CountInv', QueueInv', CallersInv', Live' \in 0..2, seen'.autoRuns = 0, Due' \in 0..1
    PROVE  RunsInv'
<1> DEFINE B == Budget(handler', retryAttempt', fallbackIndex')  P == Repair(overflowAttempted', events')
           O == Others(0)  A == Again(Live')  D == Due'
<1>1. MaxRetries \in Nat /\ O \in Nat
  BY OthersLeft
<1>2. B \in Nat /\ B <= MaxRetries + O
  <2>1. /\ retryAttempt' \in 0..(MaxRetries + 1) /\ fallbackIndex' \in 0..Fallbacks
        /\ ~(handler'.at = "fallback" /\ handler'.retry) => retryAttempt' <= MaxRetries
    BY DEF CountInv
  <2> QED
    BY <2>1, CostTypes
<1>3. P \in 0..1 /\ A \in Nat /\ A <= MaxRetries /\ D \in 0..1
  BY <1>1 DEF Repair, One, Again
<1>4. Cost' = D + (B + P) /\ Bound = (2 * MaxRetries + O) + 2
  BY DEF Cost, Bound
<1> HIDE DEF B, P, O, A, D
<1>5. (D + (B + P)) + A <= (2 * MaxRetries + O) + 2
  BY <1>1, <1>2, <1>3
<1>6. 0 <= (2 * MaxRetries + O) + 2
  BY <1>1
<1>7. Cost' + Again(Live') <= Bound /\ seen'.autoRuns <= Bound
  BY <1>4, <1>5, <1>6 DEF A
<1> QED
  BY <1>7 DEF RunsInv

\* A message is persisted.
LEMMA MessageRuns == ASSUME CountInv, CountInv', RunsInv, HandleMessageEnd PROVE RunsInv'
<1> DEFINE kind == Head(events).kind
           success == kind # "user" /\ ~IsError(kind)
<1>0. /\ events # <<>> /\ handler.at = "free" /\ Head(events).type = "message_end"
      /\ overflowAttempted' = (overflowAttempted /\ kind # "user" /\ ~success)
      /\ events' = Tail(events) /\ handler' = Free /\ UNCHANGED <<queued, run, fallbackIndex, timers>>
      /\ callers' = callers \/ callers' = Resolved(callers)
      /\ seen' = IF success THEN [seen EXCEPT !.autoRuns = 0] ELSE seen
      /\ retryAttempt' = IF success /\ retryAttempt > 0 THEN 0 ELSE retryAttempt
  <2>1. /\ events # <<>> /\ handler.at = "free" /\ Head(events).type = "message_end"
        /\ events' = Tail(events) /\ handler' = Free /\ UNCHANGED <<queued, run, fallbackIndex, timers>>
        /\ overflowAttempted' = (overflowAttempted /\ kind # "user" /\ ~success)
        /\ seen' = IF success THEN [seen EXCEPT !.autoRuns = 0] ELSE seen
    BY DEF HandleMessageEnd, AtHead, EndEvent, agentVars
  <2>2. IF success /\ retryAttempt > 0
          THEN retryAttempt' = 0 /\ callers' = Resolved(callers)
          ELSE callers' = callers /\ retryAttempt' = retryAttempt
    BY DEF HandleMessageEnd, ResolveRetry, KeepRetry
  <2> HIDE DEF success, kind
  <2> QED
    BY <2>1, <2>2
<1>1. /\ events \in Seq(Events) /\ UserFirst(events) /\ NumEnds(events) \in Nat /\ Tail(events) \in Seq(Events)
      /\ NumEnds(events) = NumEnds(Tail(events)) /\ NumEnds(Tail(events)) \in Nat
  <2>1. events \in Seq(Events) /\ UserFirst(events) /\ NumEnds(events) \in Nat
    BY Numbers
  <2>2. Tail(events) \in Seq(Events) /\ NumEnds(events) = NumEnds(Tail(events)) + 0
    BY <1>0, <2>1, EndsTaken DEF One
  <2>3. NumEnds(Tail(events)) \in Nat
    BY <2>2, EndsCounted
  <2> QED
    BY <2>1, <2>2, <2>3
<1>2. UserFirst(Tail(events)) /\ ~UserIn(Tail(events)) /\ (UserIn(events) <=> kind = "user")
  <2>1. Head(events) = MessageEnd("user") <=> kind = "user"
    <3>1. Head(events) \in Events
      BY <1>0, <1>1
    <3> QED
      BY <1>0, <3>1 DEF Events, MessageEnd
  <2> QED
    BY <1>0, <1>1, <2>1, EndsTaken
<1>3. Busy(callers) = {} /\ Busy(callers') = {} /\ DOMAIN callers' = Prompts
  <2>1. Busy(callers) = {}
    BY <1>0, NobodyBusy
  <2> QED
    BY <1>0, <2>1, Numbers, BusyKept
<1>4. /\ seen' \in [autoRuns : Nat, stopped : BOOLEAN, steers : Nat, turns : Nat]
      /\ seen'.autoRuns = IF success THEN 0 ELSE seen.autoRuns
  <2>1. seen \in [autoRuns : Nat, stopped : BOOLEAN, steers : Nat, turns : Nat]
    BY Numbers
  <2> QED
    BY <1>0, <2>1, SeenKept
<1>5. QueueInv'
  <2>1. ~run.on => events[Len(events)].type = "agent_end"
    BY <1>0 DEF RunsInv, QueueInv
  <2>2. ~run'.on /\ events' # <<>> => events'[Len(events')].type = "agent_end"
    BY <1>0, <1>1, <2>1, EndsTaken
  <2>3. overflowAttempted' \in BOOLEAN
    BY <1>0
  <2> QED
    BY <1>0, <1>2, <1>3, <1>4, <2>2, <2>3 DEF RunsInv, QueueInv
<1>6. Live' = Live /\ One(Dead(handler)) = 0 /\ One(Restarts(handler)) = 0 /\ One(Restarts(handler')) = 0
  <2>1. One(Dead(handler)) = 0 /\ One(Dead(handler')) = 0 /\ One(Restarts(handler)) = 0 /\ One(Restarts(handler')) = 0
    BY <1>0, FreeDoes DEF Dead, Restarts, One
  <2> QED
    BY <1>0, <1>1, <2>1 DEF Live
<1>7. CASE ~success
  <2>1. Repair(overflowAttempted', events') = Repair(overflowAttempted, events)
    <3>1. CASE kind = "user"
      BY <1>0, <1>2, <3>1 DEF Repair
    <3>2. CASE kind # "user"
      <4>1. overflowAttempted' = overflowAttempted
        BY <1>0, <1>7, <3>2 DEF RunsInv, QueueInv
      <4>2. UserIn(events') = FALSE /\ UserIn(events) = FALSE
        BY <1>0, <1>2, <3>2 DEF UserIn
      <4> QED
        BY <4>1, <4>2 DEF Repair
    <3> QED
      BY <3>1, <3>2
  <2>2. Budget(handler', retryAttempt', fallbackIndex') = Budget(handler, retryAttempt, fallbackIndex)
    BY <1>0, <1>7, FreeDoes DEF Budget
  <2>3. Cost' = Cost
    BY <1>0, <1>4, <1>6, <1>7, <2>1, <2>2 DEF Cost, Due
  <2>4. Cost' <= Cost /\ seen'.autoRuns = seen.autoRuns
    BY <1>4, <1>7, <2>3, Sums
  <2> QED
    BY <1>3, <1>5, <1>6, <2>4, StepSame
<1>8. CASE success
  <2>1. Live' \in 0..2
    BY <1>6, Sums
  <2>2. timers \in 0..1
    <3>1. NumEnds(events) >= 1 \/ One(run.on) = 1
      <4>1. CASE run.on
        BY <4>1 DEF One
      <4>2. CASE ~run.on
        <5>1. events[Len(events)].type = "agent_end" /\ Len(events) \in DOMAIN events
          BY <1>0, <1>1, <4>2 DEF RunsInv, QueueInv
        <5>2. Ends(events) # {}
          BY <5>1 DEF Ends
        <5>3. NumEnds(events) # 0
          BY <1>1, <5>2, EndsCounted, FS_EmptySet DEF NumEnds
        <5> QED
          BY <1>1, <5>3
      <4> QED
        BY <4>1, <4>2
    <3> DEFINE o == One(run.on)  e == NumEnds(events)
    <3>2. timers \in Nat /\ o \in Nat /\ e \in Nat
      BY <1>1, Numbers, Sums
    <3>3. ((timers + o) + e) - 0 \in 0..2
      BY <1>6, Sums DEF Live
    <3> HIDE DEF o, e
    <3> QED
      BY <3>1, <3>2, <3>3 DEF o, e
  <2>3. Due' \in 0..1 /\ seen'.autoRuns = 0
    BY <1>0, <1>4, <1>6, <1>8, <2>2 DEF Due
  <2>4. CallersInv'
    BY <1>3 DEF CallersInv, Busy
  <2> QED
    BY <1>5, <2>1, <2>3, <2>4, ResetKeeps
<1> QED
  BY <1>7, <1>8

\* Whoever is busy finds everything quiet; where the others are does not matter.
LEMMA BusyAlone ==
    ASSUME RunsInv, CountInv, NEW i \in Prompts, callers[i].at \in {"compacting", "ready"}
    PROVE  /\ ~run.on /\ events = <<>> /\ handler.at = "free" /\ timers \in 0..1 /\ Busy(callers) = {i}
           /\ callers[i].at = "compacting" => timers = 0
           /\ NumEnds(events) = 0 /\ ~UserIn(events)
<1>1. i \in Busy(callers)
  BY DEF Busy
<1>2. /\ ~run.on /\ events = <<>> /\ handler.at = "free" /\ timers <= 1 /\ timers \in Nat /\ Busy(callers) = {i}
      /\ callers[i].at = "compacting" => timers = 0
  BY <1>1 DEF RunsInv, CallersInv, QueueInv
<1>3. Ends(<<>>) = {} /\ ~UserIn(<<>>)
  BY DEF Ends, UserIn
<1>4. NumEnds(<<>>) = 0
  BY <1>3, FS_EmptySet DEF NumEnds
<1> QED
  BY <1>2, <1>3, <1>4

\* A prompt prepares its run while nothing else is under way.
LEMMA PreparesRuns ==
    ASSUME CountInv, CountInv', RunsInv, NEW i \in Prompts, ~run.on, events = <<>>, handler.at = "free",
           Busy(callers) \subseteq {i}, timers' \in 0..1,
           UNCHANGED <<queued, run, seen, events, handler>>, overflowAttempted' \in BOOLEAN,
           NEW next, callers' = [callers EXCEPT ![i] = next],
           next.at \in {"compacting", "ready"}, next.at = "compacting" => timers' = 0
    PROVE  RunsInv'
<1>1. DOMAIN callers = Prompts /\ run.on \in BOOLEAN
  BY Numbers
<1>2. /\ DOMAIN callers' = Prompts /\ callers'[i] = next
      /\ \A j \in Prompts : j # i => callers'[j] = callers[j]
  BY <1>1
<1>3. \A j \in Prompts : j # i => callers[j].at \notin {"compacting", "ready"}
  BY DEF Busy
<1>4. Busy(callers') = {i}
  BY <1>2, <1>3 DEF Busy
<1>5. \A j \in Prompts : callers'[j].at = "compacting" => timers' = 0
  BY <1>2, <1>3
<1>6. CallersInv'
  <2>1. timers' <= 1 /\ ~run'.on /\ events' = <<>> /\ handler'.at = "free"
    OBVIOUS
  <2>2. \A j, k \in Busy(callers') : j = k
    BY <1>4
  <2> QED
    BY <1>5, <2>1, <2>2 DEF CallersInv
<1>7. QueueInv'
  BY <1>2 DEF RunsInv, QueueInv
<1>8. Live' \in 0..2
  <2>1. Ends(<<>>) = {}
    BY DEF Ends
  <2>2. NumEnds(events') = 0
    BY <2>1, FS_EmptySet DEF NumEnds
  <2>3. One(run'.on) = 0 /\ One(Dead(handler')) = 0
    BY DEF One, Dead
  <2>4. \A n \in 0..1 : ((n + 0) + 0) - 0 \in 0..2
    OBVIOUS
  <2> QED
    BY <2>2, <2>3, <2>4 DEF Live
<1>9. seen'.autoRuns <= Bound
  BY DEF RunsInv, Bound
<1> QED
  BY <1>4, <1>6, <1>7, <1>8, <1>9 DEF RunsInv

\* prompt() is called, ...
LEMMA PromptRuns ==
    ASSUME PromptsWait, CountInv, CountInv', RunsInv, NEW i \in Prompts, Prompt(i)
    PROVE  RunsInv'
<1>1. /\ Quiet /\ timers = 0 /\ UNCHANGED <<queued, run, seen, events, handler, timers>>
  BY DEF Prompt
<1>2. ~run.on /\ events = <<>> /\ handler.at = "free" /\ Busy(callers) = {}
  BY <1>1 DEF Quiet, CountInv, Busy
<1>3. PICK next : callers' = [callers EXCEPT ![i] = next] /\ next.at \in {"compacting", "ready"}
  <2>1. \A retry : \A next \in PromptCompactions(retry) : next.at \in {"compacting", "ready"}
    BY DEF PromptCompactions, Caller
  <2>2. Caller("ready").at = "ready"
    BY DEF Caller
  <2> QED
    BY <2>1, <2>2 DEF Prompt
<1>4. overflowAttempted' \in BOOLEAN
  BY DEF Prompt, RunsInv, QueueInv
<1>5. timers' = 0 /\ timers' \in 0..1
  BY <1>1
<1> QED
  BY <1>1, <1>2, <1>3, <1>4, <1>5, PreparesRuns

\* ... compacts the conversation ...
LEMMA PromptedRuns ==
    ASSUME CountInv, CountInv', RunsInv, NEW i \in Prompts, PromptCompacted(i)
    PROVE  RunsInv'
<1>1. /\ callers[i].at = "compacting" /\ callers' = [callers EXCEPT ![i] = Caller("ready")]
      /\ UNCHANGED <<queued, run, seen, events, handler, overflowAttempted>>
      /\ timers' = timers \/ timers' = timers + 1
  BY DEF PromptCompacted, FinalizeCompaction, retryVars
<1>2. Caller("ready").at = "ready"
  BY DEF Caller
<1>3. timers' \in 0..1 /\ overflowAttempted' \in BOOLEAN
  BY <1>1, BusyAlone DEF RunsInv, QueueInv
<1> QED
  BY <1>1, <1>2, <1>3, BusyAlone, PreparesRuns

\* ... and starts its run.
LEMMA StartRuns ==
    ASSUME CountInv, CountInv', RunsInv, NEW i \in Prompts, PromptStarts(i)
    PROVE  RunsInv'
<1>0. callers[i].at = "ready" /\ UNCHANGED <<queued, handler, retryVars, timers>>
  BY DEF PromptStarts
<1>1. ~run.on /\ events = <<>> /\ handler.at = "free" /\ timers \in 0..1 /\ Busy(callers) = {i}
  BY <1>0, BusyAlone
<1>2. /\ callers' = [callers EXCEPT ![i] = Caller("running")]
      /\ run' = [NoRun EXCEPT !.on = TRUE, !.by = i]
      /\ events' = events \o [j \in DOMAIN <<"user">> |-> MessageEnd("user")]
      /\ seen' = [seen EXCEPT !.autoRuns = 0, !.stopped = FALSE]
  BY <1>1 DEF PromptStarts, StartRun
<1>3. events' = <<MessageEnd("user")>>
  <2>1. [j \in DOMAIN <<"user">> |-> MessageEnd("user")] = <<MessageEnd("user")>>
    OBVIOUS
  <2>2. \A x : <<>> \o <<x>> = <<x>>
    OBVIOUS
  <2> QED
    BY <1>1, <1>2, <2>1, <2>2
<1>4. NumEnds(events') = 0 /\ UserFirst(events')
  <2>1. \A x : DOMAIN <<x>> = {1} /\ <<x>>[1] = x
    OBVIOUS
  <2>2. Ends(events') = {}
    BY <1>3, <2>1 DEF Ends, MessageEnd
  <2>3. UserFirst(events')
    BY <1>3, <2>1 DEF UserFirst
  <2> QED
    BY <2>2, <2>3, FS_EmptySet DEF NumEnds
<1>5. run' \in [on : BOOLEAN, by : Prompts \cup {0}, aborted : BOOLEAN] /\ run'.on
  BY <1>2 DEF NoRun
<1>6. /\ seen' \in [autoRuns : Nat, stopped : BOOLEAN, steers : Nat, turns : Nat] /\ seen'.autoRuns = 0
  BY <1>2, SeenKept, Numbers
<1>7. DOMAIN callers' = Prompts /\ Busy(callers') = {}
  <2>1. \A j \in Prompts : j # i => callers[j].at \notin {"compacting", "ready"}
    BY <1>1 DEF Busy
  <2> QED
    BY <1>2, <2>1, Numbers DEF Busy, Caller
<1>8. QueueInv'
  BY <1>0, <1>4, <1>5, <1>6, <1>7 DEF RunsInv, QueueInv, retryVars
<1>9. CallersInv'
  BY <1>7 DEF CallersInv, Busy
<1>10. Live' \in 0..2 /\ Due' \in 0..1
  <2>1. One(run'.on) = 1 /\ One(Dead(handler')) = 0 /\ One(Restarts(handler')) = 0 /\ timers' = timers
    BY <1>0, <1>1, <1>5 DEF One, Dead, Restarts
  <2>2. ((timers + 1) + 0) - 0 \in 0..2 /\ 0 + (timers + 0) \in 0..1
    BY <1>1
  <2> QED
    BY <1>4, <1>6, <2>1, <2>2 DEF Live, Due
<1> QED
  BY <1>6, <1>8, <1>9, <1>10, ResetKeeps

\* Retries, and perhaps the run, are aborted: what is under way still ends.
LEMMA AbortRuns ==
    ASSUME CountInv, CountInv', RunsInv, NEW andRun \in BOOLEAN, AbortRetry(andRun)
    PROVE  RunsInv'
<1>0. /\ UNCHANGED <<queued, events, handler, retryAttempt, fallbackIndex, overflowAttempted, timers>>
      /\ callers' = callers \/ callers' = Resolved(callers)
      /\ run' = IF andRun /\ run.on THEN [run EXCEPT !.aborted = TRUE] ELSE run
      /\ seen' = [seen EXCEPT !.stopped = TRUE]
  BY DEF AbortRetry, ResolveRetry, KeepRetry
<1>1. /\ run' \in [on : BOOLEAN, by : Prompts \cup {0}, aborted : BOOLEAN] /\ run'.on = run.on
  <2>1. run \in [on : BOOLEAN, by : Prompts \cup {0}, aborted : BOOLEAN]
    BY Numbers
  <2> QED
    BY <1>0, <2>1
<1>2. /\ seen' \in [autoRuns : Nat, stopped : BOOLEAN, steers : Nat, turns : Nat]
      /\ seen'.autoRuns = seen.autoRuns
  BY <1>0, Numbers, SeenKept
<1>3. /\ DOMAIN callers' = Prompts
      /\ \A j \in Prompts : callers[j].at # "waiting" => callers'[j] = callers[j]
      /\ \A j \in Prompts : callers[j].at = "waiting" => callers'[j].at \in {"waiting", "returned"}
  BY <1>0, Numbers DEF Resolved, Caller
<1>4. Busy(callers') = Busy(callers) /\ \A j \in Prompts : callers'[j].at = "compacting" => callers[j].at = "compacting"
  BY <1>3 DEF Busy
<1>5. QueueInv'
  BY <1>0, <1>1, <1>2, <1>3 DEF RunsInv, QueueInv
<1>6. CallersInv'
  BY <1>0, <1>1, <1>4 DEF RunsInv, CallersInv
<1>7. Live' = Live /\ Cost' = Cost
  BY <1>0, <1>1, <1>2 DEF Live, Cost, Due, Repair, Budget
<1> HIDE DEF Live, Cost
<1> QED
  BY <1>2, <1>4, <1>5, <1>6, <1>7 DEF RunsInv, Bound

\* The states a session starts in.
LEMMA InitRuns == SessionInit => RunsInv
<1> SUFFICES ASSUME SessionInit PROVE RunsInv
  OBVIOUS
<1>1. /\ queued = 0 /\ timers = 0 /\ callers = [i \in Prompts |-> Caller("none")] /\ run = NoRun
      /\ seen = [autoRuns |-> 0, stopped |-> FALSE, steers |-> 0, turns |-> 0]
      /\ overflowAttempted = FALSE /\ events = <<>> /\ handler = Free
  BY DEF SessionInit
<1>2. Ends(<<>>) = {} /\ UserFirst(<<>>)
  BY DEF Ends, UserFirst
<1>3. NumEnds(events) = 0
  BY <1>1, <1>2, FS_EmptySet DEF NumEnds
<1>4. QueueInv
  BY <1>1, <1>2 DEF QueueInv, NoRun
<1>5. Busy(callers) = {} /\ CallersInv
  BY <1>1 DEF Busy, CallersInv, Caller
<1>6. Live = 0
  BY <1>1, <1>3, FreeDoes DEF Live, NoRun, One
<1>7. seen.autoRuns <= Bound
  <2>1. MaxRetries \in Nat /\ Others(0) \in Nat
    BY OthersLeft
  <2> DEFINE O == Others(0)
  <2> HIDE DEF O
  <2>2. 0 <= (2 * MaxRetries + O) + 2
    BY <2>1 DEF O
  <2> QED
    BY <1>1, <2>2 DEF Bound, O
<1> QED
  BY <1>4, <1>5, <1>6, <1>7 DEF RunsInv

\* Every step of a run, a handler, a prompt or an abort keeps the runs nobody asked for
\* within their bound.
LEMMA NextRuns ==
    ASSUME PromptsWait, ~SlowExtensions, MaxSteers = 0, CountInv, CountInv', RunsInv, [SessionNext]_vars
    PROVE  RunsInv'
<1>1. CASE RunTurn
  BY <1>1, TurnRuns
<1>2. CASE RunTakesQueued
  BY <1>2, Numbers DEF RunTakesQueued
<1>3. ASSUME NEW kind \in Outcomes \cup {"aborted"}, RunEnds(kind) \/ RunThrows(kind) PROVE RunsInv'
  BY <1>3, EndRuns
<1>4. CASE HandlerStep
  BY <1>4, MessageRuns, RetryableRuns, WakeRuns, SleepRuns, AgentEndRuns, FallbackRuns, NoKeyRuns, CompactRuns
     DEF HandlerStep
<1>5. CASE ContinueFires
  BY <1>5, ContinueRuns
<1>6. CASE PromptStep
  BY <1>6, PromptedRuns, StartRuns DEF PromptStep
<1>7. CASE \E i \in Prompts : Prompt(i)
  BY <1>7, PromptRuns
<1>8. CASE Steer
  <2>1. seen.steers \in Nat /\ seen.steers < 0
    BY <1>8, Numbers DEF Steer
  <2> QED
    BY <2>1
<1>9. CASE \E andRun \in BOOLEAN : AbortRetry(andRun)
  BY <1>9, AbortRuns
<1>10. CASE UNCHANGED vars
  <2>1. QueueInv' /\ CallersInv' /\ Live' = Live /\ Cost' = Cost /\ callers' = callers /\ seen' = seen
    BY <1>10 DEF vars, agentVars, retryVars, RunsInv, QueueInv, CallersInv, Live, Cost, Due
  <2> QED
    BY <2>1 DEF RunsInv, Bound
<1> QED
  BY <1>1, <1>2, <1>3, <1>4, <1>5, <1>6, <1>7, <1>8, <1>9, <1>10
     DEF SessionNext, RunStep, OutsideStep

\* prompt() and the retries after it: when callers wait for each other, and nothing is
\* queued while a run goes on, a prompt is answered or given up after a bounded number of
\* runs nobody asked for, however many prompts, retries and fallback models there are and
\* however runs fail, are aborted or overflow.
THEOREM RetriesLimited ==
    ASSUME PromptsWait, ~SlowExtensions, MaxSteers = 0
    PROVE  AgentSessionSpec => []RetriesBounded
<1>1. AgentSessionSpec => []CountInv
  BY CountsBounded
<1>2. SessionInit => RunsInv
  BY InitRuns
<1>3. CountInv /\ CountInv' /\ RunsInv /\ [SessionNext]_vars => RunsInv'
  BY NextRuns
<1>4. RunsInv /\ CountInv => RetriesBounded
  <2>1. CountInv => TypeOK
    BY DEF CountInv, TypeOK, IsHandler, Places
  <2>2. Bound = (2 * MaxRetries + (Fallbacks - 0) * (MaxRetries + 1)) + 2
    BY DEF Bound, Others
  <2>3. Fallbacks - 0 = Fallbacks
    BY OthersLeft
  <2> QED
    BY <2>1, <2>2, <2>3 DEF RunsInv, RetriesBounded
<1> QED
  BY <1>1, <1>2, <1>3, <1>4, PTL DEF AgentSessionSpec

-----------------------------------------------------------------------------
(* Parts of sequences: the operator Only                                   *)

\* Induction, stated of a set of numbers.
LEMMA Induction ==
    ASSUME NEW P \in SUBSET Nat, 0 \in P, \A k \in P : k + 1 \in P
    PROVE  P = Nat
<1> SUFFICES ASSUME Nat \ P # {} PROVE FALSE
  OBVIOUS
<1>1. PICK k \in Nat \ P : \A j \in Nat \ P : ~(<<j, k>> \in OpToRel(<, Nat))
  BY NatLessThanWellFounded, WFMin
<1>2. k # 0 /\ k - 1 \in Nat /\ (k - 1) + 1 = k /\ k - 1 < k
  OBVIOUS
<1>3. k - 1 \in P
  BY <1>1, <1>2 DEF OpToRel
<1> QED
  BY <1>2, <1>3

\* What Only has collected up to a position.
Collects(g, s, kinds, n) ==
    /\ g[0] = <<>>
    /\ \A i \in 1..n : g[i] = IF s[i] \in kinds THEN Append(g[i - 1], s[i]) ELSE g[i - 1]

\* Only can be computed, position by position.
LEMMA CollectsExist ==
    ASSUME NEW S, NEW s \in Seq(S), NEW kinds
    PROVE  \E g \in [0..Len(s) -> Seq(S)] : Collects(g, s, kinds, Len(s))
<1> DEFINE Q(k) == \E g \in [0..k -> Seq(S)] : Collects(g, s, kinds, k)
           P == {k \in Nat : k <= Len(s) => Q(k)}
<1>1. 0 \in P
  <2> DEFINE g == [i \in 0..0 |-> <<>>]
  <2>1. g \in [0..0 -> Seq(S)] /\ Collects(g, s, kinds, 0)
    BY DEF Collects
  <2> QED
    BY <2>1
<1>2. ASSUME NEW k \in P PROVE k + 1 \in P
  <2> HIDE DEF Q
  <2>1. k \in Nat /\ Len(s) \in Nat /\ k + 1 \in Nat /\ (k + 1) - 1 = k
    OBVIOUS
  <2> SUFFICES ASSUME k + 1 <= Len(s) PROVE Q(k + 1)
    BY <2>1
  <2>2. Q(k)
    BY <2>1
  <2>3. PICK g \in [0..k -> Seq(S)] : Collects(g, s, kinds, k)
    BY <2>2 DEF Q
  <2> DEFINE more == IF s[k + 1] \in kinds THEN Append(g[k], s[k + 1]) ELSE g[k]
             h == [i \in 0..(k + 1) |-> IF i = k + 1 THEN more ELSE g[i]]
  <2>4. s[k + 1] \in S /\ g[k] \in Seq(S)
    BY <2>1
  <2>5. more \in Seq(S)
    BY <2>4
  <2>6. h \in [0..(k + 1) -> Seq(S)]
    BY <2>1, <2>5
  <2>7. h[0] = <<>>
    BY <2>1, <2>3 DEF Collects
  <2>8. ASSUME NEW i \in 1..(k + 1)
        PROVE  h[i] = IF s[i] \in kinds THEN Append(h[i - 1], s[i]) ELSE h[i - 1]
    <3>1. CASE i = k + 1
      <4>1. h[i] = more /\ h[i - 1] = g[k]
        BY <2>1, <3>1
      <4> QED
        BY <3>1, <4>1
    <3>2. CASE i # k + 1
      <4>1. i \in 1..k /\ h[i] = g[i] /\ h[i - 1] = g[i - 1]
        BY <2>1, <3>2
      <4> QED
        BY <2>3, <4>1 DEF Collects
    <3> QED
      BY <3>1, <3>2
  <2> HIDE DEF h
  <2>9. Collects(h, s, kinds, k + 1)
    BY <2>7, <2>8 DEF Collects
  <2> QED
    BY <2>6, <2>9 DEF Q
<1>3. P = Nat
  <2>1. P \in SUBSET Nat
    OBVIOUS
  <2> HIDE DEF P
  <2> QED
    BY <1>1, <1>2, <2>1, Induction
<1> HIDE DEF Q
<1>4. Len(s) \in Nat /\ Len(s) <= Len(s)
  OBVIOUS
<1>5. Q(Len(s))
  BY <1>3, <1>4
<1> QED
  BY <1>5 DEF Q

\* What Only returns is what it has collected at the end.
LEMMA OnlyCollects ==
    ASSUME NEW S, NEW s \in Seq(S), NEW kinds
    PROVE  \E g \in [0..Len(s) -> Seq(S)] : Collects(g, s, kinds, Len(s)) /\ Only(s, kinds) = g[Len(s)]
<1> DEFINE n == Len(s)
           Equation(g) == g = [i \in 0..n |-> IF i = 0 THEN <<>>
                                              ELSE IF s[i] \in kinds THEN Append(g[i - 1], s[i]) ELSE g[i - 1]]
           upTo == CHOOSE g : Equation(g)
<1>1. Only(s, kinds) = upTo[n]
  BY DEF Only
<1>2. PICK g \in [0..n -> Seq(S)] : Collects(g, s, kinds, n)
  BY CollectsExist
<1>3. n \in Nat
  OBVIOUS
<1>4. Equation(g)
  <2>1. \A i \in 0..n : g[i] = IF i = 0 THEN <<>>
                               ELSE IF s[i] \in kinds THEN Append(g[i - 1], s[i]) ELSE g[i - 1]
    <3> SUFFICES ASSUME NEW i \in 0..n
                 PROVE  g[i] = IF i = 0 THEN <<>>
                               ELSE IF s[i] \in kinds THEN Append(g[i - 1], s[i]) ELSE g[i - 1]
      OBVIOUS
    <3>1. i = 0 \/ i \in 1..n
      BY <1>3
    <3> QED
      BY <1>2, <3>1 DEF Collects
  <2> QED
    BY <2>1
<1>5. Equation(upTo)
  <2> HIDE DEF Equation
  <2> QED
    BY <1>4
<1>6. DOMAIN upTo = 0..n
  <2> HIDE DEF upTo
  <2> QED
    BY <1>5
<1>7. Collects(upTo, s, kinds, n)
  <2> HIDE DEF upTo
  <2>1. \A i \in 0..n : upTo[i] = IF i = 0 THEN <<>>
                               ELSE IF s[i] \in kinds THEN Append(upTo[i - 1], s[i]) ELSE upTo[i - 1]
    BY <1>5
  <2>2. 0 \in 0..n /\ \A i \in 1..n : i \in 0..n /\ i # 0
    BY <1>3
  <2> QED
    BY <2>1, <2>2 DEF Collects
<1> HIDE DEF upTo, Equation
<1>8. \A i \in 0..n : upTo[i] \in Seq(S)
  <2> DEFINE P == {k \in Nat : k <= n => upTo[k] \in Seq(S)}
  <2>0. <<>> \in Seq(S) /\ upTo[0] = <<>>
    BY <1>7 DEF Collects
  <2>1. 0 \in P
    BY <2>0
  <2>2. ASSUME NEW k \in P PROVE k + 1 \in P
    <3> SUFFICES ASSUME k + 1 <= n PROVE upTo[k + 1] \in Seq(S)
      OBVIOUS
    <3>1. k + 1 \in 1..n /\ (k + 1) - 1 = k /\ upTo[k] \in Seq(S) /\ s[k + 1] \in S
      BY <1>3
    <3>2. upTo[k + 1] = IF s[k + 1] \in kinds THEN Append(upTo[k], s[k + 1]) ELSE upTo[k]
      BY <1>7, <3>1 DEF Collects
    <3> QED
      BY <3>1, <3>2
  <2>3. P = Nat
    <3>1. P \in SUBSET Nat
      OBVIOUS
    <3> HIDE DEF P
    <3> QED
      BY <2>1, <2>2, <3>1, Induction
  <2> QED
    BY <1>3, <2>3
<1>9. upTo \in [0..n -> Seq(S)]
  <2>1. upTo = [i \in 0..n |-> upTo[i]]
    BY <1>5, <1>6 DEF Equation
  <2> QED
    BY <1>8, <2>1
<1> QED
  BY <1>1, <1>7, <1>9

\* Two ways to collect the same agree.
LEMMA CollectsOnce ==
    ASSUME NEW n \in Nat, NEW g, NEW h, NEW s, NEW t, NEW kinds, \A i \in 1..n : s[i] = t[i],
           Collects(g, s, kinds, n), Collects(h, t, kinds, n)
    PROVE  g[n] = h[n]
<1> DEFINE P == {k \in Nat : k <= n => g[k] = h[k]}
<1>1. 0 \in P
  BY DEF Collects
<1>2. ASSUME NEW k \in P PROVE k + 1 \in P
  <2> SUFFICES ASSUME k + 1 <= n PROVE g[k + 1] = h[k + 1]
    OBVIOUS
  <2>1. k + 1 \in 1..n /\ (k + 1) - 1 = k /\ g[k] = h[k]
    OBVIOUS
  <2> QED
    BY <2>1 DEF Collects
<1>3. P = Nat
  <2>1. P \in SUBSET Nat
    OBVIOUS
  <2> HIDE DEF P
  <2> QED
    BY <1>1, <1>2, <2>1, Induction
<1> QED
  BY <1>3

\* Only, element by element.
LEMMA OnlyOf ==
    ASSUME NEW S, NEW s \in Seq(S), NEW x \in S, NEW kinds
    PROVE  /\ Only(s, kinds) \in Seq(S)
           /\ Only(Append(s, x), kinds) = IF x \in kinds THEN Append(Only(s, kinds), x) ELSE Only(s, kinds)
<1> DEFINE n == Len(s)
           t == Append(s, x)
<1>1. n \in Nat /\ t \in Seq(S) /\ Len(t) = n + 1 /\ t[n + 1] = x /\ \A i \in 1..n : s[i] = t[i]
  OBVIOUS
<1>2. PICK g \in [0..n -> Seq(S)] : Collects(g, s, kinds, n) /\ Only(s, kinds) = g[n]
  BY OnlyCollects
<1> HIDE DEF t
<1>3. PICK h \in [0..(n + 1) -> Seq(S)] : Collects(h, t, kinds, n + 1) /\ Only(t, kinds) = h[n + 1]
  BY <1>1, OnlyCollects
<1>4. Collects(h, t, kinds, n)
  BY <1>1, <1>3 DEF Collects
<1>5. g[n] = h[n]
  BY <1>1, <1>2, <1>4, CollectsOnce
<1>6. h[n + 1] = IF x \in kinds THEN Append(h[n], x) ELSE h[n]
  <2>1. n + 1 \in 1..(n + 1) /\ (n + 1) - 1 = n
    BY <1>1
  <2> QED
    BY <1>1, <1>3, <2>1 DEF Collects
<1>7. g[n] \in Seq(S)
  BY <1>1, <1>2
<1> QED
  BY <1>2, <1>3, <1>5, <1>6, <1>7 DEF t

\* Nothing is found in an empty sequence.
LEMMA OnlyNothing == \A kinds : Only(<<>>, kinds) = <<>>
<1> SUFFICES ASSUME NEW kinds PROVE Only(<<>>, kinds) = <<>>
  OBVIOUS
<1> DEFINE none == <<>>
           S == {0}
<1>1. none \in Seq(S) /\ Len(none) = 0
  OBVIOUS
<1> HIDE DEF none, S
<1>2. PICK g \in [0..Len(none) -> Seq(S)] : Collects(g, none, kinds, Len(none)) /\ Only(none, kinds) = g[Len(none)]
  BY <1>1, OnlyCollects
<1>3. Only(none, kinds) = <<>>
  BY <1>1, <1>2 DEF Collects
<1> QED
  BY <1>3 DEF none

\* The last of some positions.
LEMMA MaxOfPositions ==
    ASSUME NEW n \in Nat, NEW s \in SUBSET (1..n), s # {}
    PROVE  Max(s) \in s /\ \A j \in s : j <= Max(s)
<1> DEFINE back == {k \in Nat : n - k \in s}
<1>1. back # {}
  <2>1. PICK j \in s : TRUE
    OBVIOUS
  <2>2. n - j \in Nat /\ n - (n - j) = j
    BY <2>1
  <2> QED
    BY <2>1, <2>2
<1>2. PICK k \in back : \A j \in back : ~(<<j, k>> \in OpToRel(<, Nat))
  BY <1>1, NatLessThanWellFounded, WFMin
<1>3. n - k \in s
  BY <1>2
<1>4. ASSUME NEW j \in s PROVE n - k >= j
  <2>1. n - j \in Nat /\ n - (n - j) = j
    OBVIOUS
  <2>2. n - j \in back
    BY <2>1
  <2> HIDE DEF back
  <2>3. ~(n - j < k) /\ k \in Nat
    BY <1>2, <2>1, <2>2 DEF OpToRel, back
  <2> QED
    BY <2>1, <2>3
<1>5. Max(s) \in s /\ \A y \in s : Max(s) >= y
  BY <1>3, <1>4 DEF Max
<1> QED
  BY <1>5

-----------------------------------------------------------------------------
(* The conversation and the session                                        *)

Elements == MessageKinds \cup {"summary", "compaction"}
VisibleKinds == {"user", "tools", "ok", "summary"}

\* What Visible keeps.
LEMMA VisibleOf ==
    ASSUME NEW s \in Seq(Elements), NEW x \in Elements
    PROVE  Visible(Append(s, x)) = IF x \in VisibleKinds THEN Append(Visible(s), x) ELSE Visible(s)
BY OnlyOf DEF Visible, VisibleKinds

\* The last message of a conversation.
LEMMA LastMessage ==
    ASSUME NEW s \in Seq(Elements), s # <<>>
    PROVE  /\ Front(s) \in Seq(Elements) /\ Last(s) \in Elements /\ Append(Front(s), Last(s)) = s
           /\ Last(s) \notin VisibleKinds => Visible(Front(s)) = Visible(s)
<1>1. Front(s) \in Seq(Elements) /\ Last(s) \in Elements /\ Append(Front(s), Last(s)) = s
  BY DEF Front, Last
<1> QED
  BY <1>1, VisibleOf

\* A message that is added is the last one.
LEMMA MessageAdded ==
    ASSUME NEW s \in Seq(Elements), NEW x \in Elements
    PROVE  /\ Append(s, x) \in Seq(Elements) /\ Append(s, x) # <<>> /\ Last(Append(s, x)) = x
           /\ Len(Append(s, x)) = Len(s) + 1 /\ s \o <<x>> = Append(s, x) /\ s \o <<>> = s
           /\ IsPrefix(s, Append(s, x)) /\ IsPrefix(s, s)
<1>1. /\ Append(s, x) \in Seq(Elements) /\ Append(s, x) # <<>> /\ Append(s, x)[Len(s) + 1] = x
      /\ Len(Append(s, x)) = Len(s) + 1 /\ s \o <<x>> = Append(s, x) /\ s \o <<>> = s
  OBVIOUS
<1>2. SubSeq(s, 1, Len(s)) = SubSeq(Append(s, x), 1, Len(s)) /\ Len(s) \in Nat
  OBVIOUS
<1> QED
  BY <1>1, <1>2 DEF Last, IsPrefix

\* The compactions of a branch.
LEMMA CompactionsOf ==
    ASSUME NEW s \in Seq(Elements)
    PROVE  LastCompaction(s) # 0 <=> \E i \in 1..Len(s) : s[i] = "compaction"
<1> DEFINE I == {i \in 1..Len(s) : s[i] = "compaction"}
<1>1. LastCompaction(s) = IF I # {} THEN Max(I) ELSE 0
  BY DEF LastCompaction, SelectLastInSeq
<1>2. Len(s) \in Nat /\ I \in SUBSET (1..Len(s))
  OBVIOUS
<1>3. I # {} => Max(I) \in 1..Len(s)
  <2> HIDE DEF I
  <2> QED
    BY <1>2, MaxOfPositions
<1> QED
  BY <1>1, <1>2, <1>3

\* A part of a sequence up to its end gets longer with it.
LEMMA LongerPart ==
    ASSUME NEW s \in Seq(Elements), NEW x \in Elements, NEW first \in 1..Len(s)
    PROVE  LET t == Append(s, x)
               rest == SubSeq(s, first, Len(s))
           IN  rest \in Seq(Elements) /\ SubSeq(t, first, Len(t)) = Append(rest, x)
<1> DEFINE t == Append(s, x)
           rest == SubSeq(s, first, Len(s))
           m == (Len(s) - first) + 1
<1>1. /\ Len(s) \in Nat /\ t \in Seq(Elements) /\ Len(t) = Len(s) + 1 /\ t[Len(s) + 1] = x
      /\ \A i \in 1..Len(s) : t[i] = s[i]
  OBVIOUS
<1>2. m \in Nat /\ rest \in Seq(Elements) /\ Len(rest) = m /\ \A i \in 1..m : rest[i] = s[(first + i) - 1]
  <2>1. first \in Nat /\ first >= 1 /\ first <= Len(s)
    OBVIOUS
  <2> QED
    BY <1>1, <2>1
<1> HIDE DEF t, rest, m
<1>3. SubSeq(t, first, Len(t)) = Append(rest, x)
  <2> DEFINE a == SubSeq(t, first, Len(t))
             b == Append(rest, x)
  <2>1. m = (Len(s) - first) + 1 /\ first \in 1..Len(s)
    BY DEF m
  <2>2. a \in Seq(Elements) /\ Len(a) = m + 1 /\ \A i \in 1..(m + 1) : a[i] = t[(first + i) - 1]
    BY <1>1, <2>1
  <2>3. b \in Seq(Elements) /\ Len(b) = m + 1 /\ b[m + 1] = x /\ \A i \in 1..m : b[i] = rest[i]
    BY <1>2
  <2> HIDE DEF a, b
  <2>4. ASSUME NEW i \in 1..(m + 1) PROVE a[i] = b[i]
    <3>1. CASE i = m + 1
      <4>1. (first + i) - 1 = Len(s) + 1
        BY <1>1, <2>1, <3>1
      <4> QED
        BY <1>1, <2>2, <2>3, <3>1, <4>1
    <3>2. CASE i \in 1..m
      <4>1. (first + i) - 1 \in 1..Len(s)
        BY <1>1, <2>1, <3>2
      <4> QED
        BY <1>1, <1>2, <2>2, <2>3, <3>2, <4>1
    <3> QED
      BY <1>2, <3>1, <3>2
  <2>5. a = b
    BY <2>2, <2>3, <2>4, SeqEqual
  <2> QED
    BY <2>5 DEF a, b
<1> QED
  BY <1>2, <1>3 DEF t, rest

\* buildSessionContext: an entry more is a message more; after a compaction the
\* conversation begins with its summary.
LEMMA ContextOf ==
    ASSUME NEW s \in Seq(Elements), NEW first, LastCompaction(s) # 0 => first \in 1..Len(s)
    PROVE  /\ Context(s, first) \in Seq(Elements)
           /\ \A k \in MessageKinds :
                 /\ Context(Append(s, k), first) = Append(Context(s, first), k)
                 /\ LastCompaction(Append(s, k)) # 0 <=> LastCompaction(s) # 0
<1> DEFINE rest == SubSeq(s, first, Len(s))
           summary == <<"summary">>
<1>1. summary \in Seq(Elements)
  BY DEF Elements
<1> HIDE DEF summary
<1>2. \A t \in Seq(Elements), k \in MessageKinds :
         Only(t, MessageKinds) \in Seq(Elements) /\ Only(Append(t, k), MessageKinds) = Append(Only(t, MessageKinds), k)
  <2> SUFFICES ASSUME NEW t \in Seq(Elements), NEW k \in MessageKinds
               PROVE  /\ Only(t, MessageKinds) \in Seq(Elements)
                      /\ Only(Append(t, k), MessageKinds) = Append(Only(t, MessageKinds), k)
    OBVIOUS
  <2>1. k \in Elements
    BY DEF Elements
  <2> QED
    BY <2>1, OnlyOf
<1>3. Context(s, first) \in Seq(Elements)
  <2>1. CASE LastCompaction(s) = 0
    BY <2>1 DEF Context
  <2>2. CASE LastCompaction(s) # 0
    <3>1. rest \in Seq(Elements)
      BY <2>2
    <3>2. Only(rest, MessageKinds) \in Seq(Elements)
      <4> HIDE DEF rest
      <4> QED
        BY <1>2, <3>1 DEF MessageKinds
    <3>3. Context(s, first) = summary \o Only(rest, MessageKinds)
      BY <2>2 DEF Context, summary
    <3> QED
      BY <1>1, <3>2, <3>3
  <2> QED
    BY <2>1, <2>2
<1>4. ASSUME NEW k \in MessageKinds
      PROVE  /\ Context(Append(s, k), first) = Append(Context(s, first), k)
             /\ LastCompaction(Append(s, k)) # 0 <=> LastCompaction(s) # 0
  <2> DEFINE t == Append(s, k)
  <2>1. k \in Elements /\ k # "compaction"
    BY DEF Elements, MessageKinds
  <2>2. t \in Seq(Elements) /\ Len(t) = Len(s) + 1 /\ Len(s) \in Nat /\ t[Len(s) + 1] = k /\ \A i \in 1..Len(s) : t[i] = s[i]
    BY <2>1
  <2>3. LastCompaction(t) # 0 <=> LastCompaction(s) # 0
    <3>1. (\E i \in 1..Len(t) : t[i] = "compaction") <=> \E i \in 1..Len(s) : s[i] = "compaction"
      <4> HIDE DEF t
      <4> QED
        BY <2>1, <2>2
    <3> HIDE DEF t
    <3> QED
      BY <2>2, <3>1, CompactionsOf
  <2>4. Context(t, first) = Append(Context(s, first), k)
    <3>1. CASE LastCompaction(s) = 0
      BY <2>3, <3>1 DEF Context
    <3>2. CASE LastCompaction(s) # 0
      <4>1. rest \in Seq(Elements) /\ SubSeq(t, first, Len(t)) = Append(rest, k)
        BY <2>1, <3>2, LongerPart
      <4>2. Only(rest, MessageKinds) \in Seq(Elements) /\ Only(Append(rest, k), MessageKinds) = Append(Only(rest, MessageKinds), k)
        <5> HIDE DEF rest
        <5> QED
          BY <1>2, <4>1
      <4>3. Context(t, first) = summary \o Only(Append(rest, k), MessageKinds)
        <5> HIDE DEF t
        <5> QED
          BY <2>3, <3>2, <4>1 DEF Context, summary
      <4>4. Context(s, first) = summary \o Only(rest, MessageKinds)
        BY <3>2 DEF Context, summary
      <4>5. \A a, b \in Seq(Elements) : a \o Append(b, k) = Append(a \o b, k)
        BY <2>1
      <4> HIDE DEF rest, t
      <4> QED
        BY <1>1, <4>2, <4>3, <4>4, <4>5
    <3> QED
      BY <3>1, <3>2
  <2> QED
    BY <2>3, <2>4
<1> QED
  BY <1>3, <1>4

\* The conversation after a compaction.
LEMMA ContextCompacted ==
    ASSUME NEW s \in Seq(Elements), NEW cut \in 1..Len(s)
    PROVE  LET entries == Append(s, "compaction")
           IN  /\ entries \in Seq(Elements) /\ cut \in 1..Len(entries)
               /\ Context(entries, cut) \in Seq(Elements) /\ Context(entries, cut) # <<>>
<1> DEFINE entries == Append(s, "compaction")
           rest == SubSeq(entries, cut, Len(entries))
           summary == <<"summary">>
<1>1. entries \in Seq(Elements) /\ Len(entries) = Len(s) + 1 /\ Len(s) \in Nat /\ entries[Len(s) + 1] = "compaction"
  BY DEF Elements
<1> HIDE DEF entries
<1>2. cut \in 1..Len(entries) /\ rest \in Seq(Elements)
  BY <1>1
<1>3. LastCompaction(entries) # 0
  BY <1>1, CompactionsOf
<1> HIDE DEF rest
<1>4. Only(rest, MessageKinds) \in Seq(Elements)
  <2>1. "compaction" \in Elements
    BY DEF Elements
  <2> QED
    BY <1>2, <2>1, OnlyOf
<1>5. Context(entries, cut) = summary \o Only(rest, MessageKinds)
  BY <1>3 DEF Context, rest
<1>6. summary \in Seq(Elements) /\ summary # <<>>
  BY DEF Elements
<1> HIDE DEF summary
<1>7. Context(entries, cut) \in Seq(Elements) /\ Context(entries, cut) # <<>>
  BY <1>4, <1>5, <1>6
<1> QED
  BY <1>1, <1>2, <1>7 DEF entries

-----------------------------------------------------------------------------
(* One thing at a time                                                     *)

\* How a run ends.
EndKinds == Outcomes \cup {"aborted"}

\* A run has said something that is not handled yet.
Speaking(k) == events = <<MessageEnd(k)>> /\ run.on

\* A run is over, and its last answer is not handled yet.
Ending(k) ==
    /\ events = <<MessageEnd(k), AgentEnd(k)>> /\ ~run.on /\ timers = 0
    /\ messages # <<>> /\ Last(messages) = k

\* Only the end of a run is still to be handled.
Ended(k) == events = <<AgentEnd(k)>> /\ ~run.on /\ timers = 0

\* While events wait, no other run goes on or is about to.
TurnInv ==
    /\ run \in [on : BOOLEAN, by : Prompts \cup {0}, aborted : BOOLEAN] /\ timers \in Nat
    /\ \/ events = <<>>
       \/ \E k \in {"user", "tools"} : Speaking(k)
       \/ \E k \in EndKinds : Ending(k) \/ Ended(k)

EndsInError(ms) == ms # <<>> /\ IsError(Last(ms))

\* Whoever may remove the last answer finds one that failed.
FailureInv ==
    /\ IsError(lastAssistant) => handler.at = "free" /\ (\E k \in EndKinds : Ended(k)) /\ EndsInError(messages)
    /\ handler.at = "fallback" => EndsInError(messages)

\* The message that is not in the session yet.
Unsaved(es) == IF es # <<>> /\ Head(es).type = "message_end" THEN <<Head(es).kind>> ELSE <<>>

\* The positions at which compactions cut.
CutsInv ==
    /\ LastCompaction(session) # 0 => kept \in 1..Len(session)
    /\ handler.at = "compacting" => handler.cut \in 1..Len(session)
    /\ \A i \in Prompts : callers[i].at = "compacting" => callers[i].cut \in 1..Len(session)

\* The agent holds what the session would be rebuilt with, and what is not in it yet.
Matches == Visible(messages) = Visible(Context(session, kept) \o Unsaved(events))

HistoryInv ==
    /\ messages \in Seq(Elements) /\ session \in Seq(Elements)
    /\ CutsInv /\ Matches

\* The inductive invariant of StateMatchesSession and RemovesOnlyFailures.
MatchInv == DOMAIN callers = Prompts /\ TurnInv /\ FailureInv /\ CallersInv /\ HistoryInv

\* RemovesOnlyFailures, of a step.
Spares ==
    session' = session \/ Last(session') # "compaction" =>
        \/ IsPrefix(messages, messages')
        \/ messages' = Front(messages) /\ IsError(Last(messages))

\* What is in the queue.
LEMMA QueueOf ==
    /\ Unsaved(<<>>) = <<>>
    /\ \A k : /\ Unsaved(<<MessageEnd(k)>>) = <<k>> /\ Unsaved(<<MessageEnd(k), AgentEnd(k)>>) = <<k>>
              /\ Unsaved(<<AgentEnd(k)>>) = <<>>
              /\ Head(<<MessageEnd(k)>>).type = "message_end" /\ Head(<<MessageEnd(k), AgentEnd(k)>>).type = "message_end"
              /\ Head(<<MessageEnd(k)>>).kind = k /\ Head(<<MessageEnd(k), AgentEnd(k)>>).kind = k
              /\ Head(<<AgentEnd(k)>>).type = "agent_end"
              /\ Tail(<<MessageEnd(k)>>) = <<>> /\ Tail(<<AgentEnd(k)>>) = <<>>
              /\ Tail(<<MessageEnd(k), AgentEnd(k)>>) = <<AgentEnd(k)>>
              /\ <<MessageEnd(k)>> # <<>> /\ <<MessageEnd(k), AgentEnd(k)>> # <<>> /\ <<AgentEnd(k)>> # <<>>
<1>1. Unsaved(<<>>) = <<>>
  BY DEF Unsaved
<1> SUFFICES ASSUME NEW k
             PROVE  /\ Unsaved(<<MessageEnd(k)>>) = <<k>> /\ Unsaved(<<MessageEnd(k), AgentEnd(k)>>) = <<k>>
                    /\ Unsaved(<<AgentEnd(k)>>) = <<>>
                    /\ Head(<<MessageEnd(k)>>).type = "message_end" /\ Head(<<MessageEnd(k), AgentEnd(k)>>).type = "message_end"
                    /\ Head(<<MessageEnd(k)>>).kind = k /\ Head(<<MessageEnd(k), AgentEnd(k)>>).kind = k
                    /\ Head(<<AgentEnd(k)>>).type = "agent_end"
                    /\ Tail(<<MessageEnd(k)>>) = <<>> /\ Tail(<<AgentEnd(k)>>) = <<>>
                    /\ Tail(<<MessageEnd(k), AgentEnd(k)>>) = <<AgentEnd(k)>>
                    /\ <<MessageEnd(k)>> # <<>> /\ <<MessageEnd(k), AgentEnd(k)>> # <<>> /\ <<AgentEnd(k)>> # <<>>
  BY <1>1
<1>2. ASSUME NEW m, NEW e
      PROVE  /\ Head(<<m>>) = m /\ Head(<<m, e>>) = m /\ Tail(<<m>>) = <<>> /\ Tail(<<m, e>>) = <<e>>
             /\ <<m>> # <<>> /\ <<m, e>> # <<>>
  OBVIOUS
<1>3. MessageEnd(k).type = "message_end" /\ MessageEnd(k).kind = k /\ AgentEnd(k).type = "agent_end"
  BY DEF MessageEnd, AgentEnd
<1> QED
  BY <1>2, <1>3 DEF Unsaved

\* A timer, the network or the user acts only when nothing is in the queue, or a handler waits
\* after the end of a run.
LEMMA AloneThen ==
    ASSUME MatchInv, CountInv, Macrotask, ~SlowExtensions, run.on \/ timers > 0
    PROVE  events = <<>> /\ handler.at = "free" /\ Busy(callers) = {} /\ ~IsError(lastAssistant)
<1>1. events = <<>> \/ handler.at # "free"
  BY DEF Macrotask
<1>2. handler.at # "free" => events # <<>> /\ Head(events).type = "agent_end"
  BY DEF CountInv
<1>3. events = <<>>
  <2>1. SUFFICES ASSUME handler.at # "free", events # <<>> PROVE FALSE
    BY <1>1
  <2>2. ASSUME NEW k, Speaking(k) \/ Ending(k) PROVE FALSE
    BY <1>2, <2>1, <2>2, QueueOf DEF Speaking, Ending
  <2>3. ASSUME NEW k, Ended(k) PROVE FALSE
    BY <2>3 DEF Ended
  <2> QED
    BY <2>1, <2>2, <2>3 DEF MatchInv, TurnInv
<1>4. ~IsError(lastAssistant)
  BY <1>3, QueueOf DEF MatchInv, FailureInv, Ended
<1>5. Busy(callers) = {}
  BY DEF MatchInv, CallersInv, Macrotask, Busy, TurnInv
<1> QED
  BY <1>1, <1>2, <1>3, <1>4, <1>5

\* The handler of agent_end works after the run, and nobody else does.
LEMMA EndAlone ==
    ASSUME MatchInv, CountInv, handler.at # "free" \/ AtHead("agent_end")
    PROVE  /\ \E k \in EndKinds : Ended(k)
           /\ Busy(callers) = {} /\ Tail(events) = <<>> /\ Unsaved(events) = <<>> /\ events # <<>>
<1>1. events # <<>> /\ Head(events).type = "agent_end"
  BY DEF CountInv, AtHead
<1>2. ASSUME NEW k, Speaking(k) \/ Ending(k) PROVE FALSE
  BY <1>1, <1>2, QueueOf DEF Speaking, Ending
<1>3. \E k \in EndKinds : Ended(k)
  BY <1>1, <1>2 DEF MatchInv, TurnInv
<1>4. Busy(callers) = {}
  BY <1>1 DEF MatchInv, CallersInv
<1> QED
  BY <1>1, <1>3, <1>4, QueueOf DEF Ended

\* Nobody is busy once those that waited go on.
LEMMA NobodyLeft ==
    ASSUME MatchInv, Busy(callers) = {},
           \/ callers' = callers \/ callers' = Resolved(callers)
           \/ \E i : \E at \in {"waiting", "returned"} : callers' = [callers EXCEPT ![i] = Caller(at)]
    PROVE  DOMAIN callers' = Prompts /\ Busy(callers') = {}
BY DEF MatchInv, Busy, Resolved, Caller

\* Nobody busy: what prompt() knows holds.
LEMMA NoCaller ==
    ASSUME Busy(callers') = {}
    PROVE  CallersInv' /\ \A i \in Prompts : callers'[i].at # "compacting"
BY DEF CallersInv, Busy

\* A step that adds at most a message to the conversation removes none.
LEMMA Adds ==
    ASSUME MatchInv, messages' = messages \/ \E k \in Elements : messages' = Append(messages, k)
    PROVE  Spares /\ messages' \in Seq(Elements)
<1>1. messages \in Seq(Elements)
  BY DEF MatchInv, HistoryInv
<1>2. IsPrefix(messages, messages')
  <2>1. "user" \in Elements
    BY DEF Elements, MessageKinds
  <2> QED
    BY <1>1, <2>1, MessageAdded
<1> QED
  BY <1>1, <1>2, MessageAdded DEF Spares

\* The kinds of messages.
LEMMA KindsOf ==
    /\ EndKinds \subseteq MessageKinds /\ MessageKinds \subseteq Elements /\ Kinds \subseteq MessageKinds
    /\ "user" \in MessageKinds /\ "tools" \in MessageKinds
    /\ \A k \in MessageKinds : k # "compaction" /\ k # "summary"
    /\ \A k : IsError(k) \/ k = "aborted" => k \notin VisibleKinds
    /\ ~IsError("tools") /\ ~IsError("user") /\ ~IsError(None) /\ ~IsError("ok")
BY SessionAssumption DEF EndKinds, MessageKinds, Elements, Kinds, VisibleKinds, IsError, None

\* A message that is said, and waits in the queue for being saved.
LEMMA Said ==
    ASSUME MatchInv, NEW k \in MessageKinds, Unsaved(events) = <<>>, messages' = Append(messages, k),
           session' = session, kept' = kept,
           \/ Unsaved(events') = <<k>>
           \/ Unsaved(events') = <<>> /\ k \notin VisibleKinds
    PROVE  Matches'
<1> DEFINE c == Context(session, kept)
<1>1. c \in Seq(Elements) /\ messages \in Seq(Elements) /\ k \in Elements
  BY ContextOf, KindsOf DEF MatchInv, HistoryInv, CutsInv
<1>2. Visible(messages) = Visible(c)
  BY <1>1, MessageAdded DEF MatchInv, HistoryInv, Matches
<1> HIDE DEF c
<1>3. /\ Visible(Append(messages, k)) = IF k \in VisibleKinds THEN Append(Visible(messages), k) ELSE Visible(messages)
      /\ Visible(Append(c, k)) = IF k \in VisibleKinds THEN Append(Visible(c), k) ELSE Visible(c)
  BY <1>1, VisibleOf
<1>4. c \o <<k>> = Append(c, k) /\ c \o <<>> = c
  BY <1>1, MessageAdded
<1>5. Visible(messages') = Visible(c \o Unsaved(events'))
  BY <1>2, <1>3, <1>4
<1> QED
  BY <1>5 DEF Matches, c

\* RunTurn and RunTakesQueued: a run that goes on says something.
LEMMA RunSays ==
    ASSUME MatchInv, CountInv, ~SlowExtensions, Macrotask, run.on, NEW k \in {"user", "tools"},
           messages' = Append(messages, k), events' = Append(events, MessageEnd(k)),
           UNCHANGED <<run, session, kept, handler, lastAssistant, timers, callers>>
    PROVE  MatchInv' /\ Spares
<1>1. events = <<>> /\ handler.at = "free" /\ Busy(callers) = {} /\ ~IsError(lastAssistant)
  BY AloneThen
<1>2. k \in MessageKinds /\ k \in Elements
  BY KindsOf
<1>3. events' = <<MessageEnd(k)>>
  BY <1>1
<1>4. TurnInv'
  BY <1>3 DEF MatchInv, TurnInv, Speaking
<1>5. FailureInv'
  BY <1>1 DEF FailureInv
<1>6. CallersInv' /\ DOMAIN callers' = Prompts
  BY <1>1, NoCaller DEF MatchInv
<1>7. Spares /\ messages' \in Seq(Elements)
  BY <1>2, Adds
<1>8. Matches'
  BY <1>1, <1>2, <1>3, QueueOf, Said
<1> QED
  BY <1>4, <1>5, <1>6, <1>7, <1>8 DEF MatchInv, HistoryInv, CutsInv

\* A turn of the loop.
LEMMA TurnMatches ==
    ASSUME MatchInv, CountInv, ~SlowExtensions, RunTurn \/ RunTakesQueued
    PROVE  MatchInv' /\ Spares
BY RunSays DEF RunTurn, RunTakesQueued, retryVars

\* The end of a run.
LEMMA EndMatches ==
    ASSUME MatchInv, CountInv, ~SlowExtensions, ~QuickRuns,
           NEW k \in EndKinds, RunEnds(k) \/ RunThrows(k)
    PROVE  MatchInv' /\ Spares
<1>0. /\ run.on /\ Macrotask /\ timers = 0 /\ run' = NoRun /\ messages' = Append(messages, k)
      /\ UNCHANGED <<session, kept, handler, lastAssistant, timers>>
      /\ callers' = callers \/ \E i : \E at \in {"waiting", "returned"} : callers' = [callers EXCEPT ![i] = Caller(at)]
      /\ \/ events' = events \o <<MessageEnd(k), AgentEnd(k)>>
         \/ events' = events \o <<AgentEnd(k)>> /\ k # "ok"
  <2>1. CASE RunEnds(k)
    BY <2>1 DEF RunEnds, RunOver
  <2>2. CASE RunThrows(k)
    BY <2>2 DEF RunThrows, RunOver
  <2> QED
    BY <2>1, <2>2
<1>1. events = <<>> /\ handler.at = "free" /\ Busy(callers) = {} /\ ~IsError(lastAssistant)
  BY <1>0, AloneThen
<1>2. k \in MessageKinds /\ k \in Elements /\ messages \in Seq(Elements)
  BY KindsOf DEF MatchInv, HistoryInv
<1>3. \/ events' = <<MessageEnd(k), AgentEnd(k)>>
      \/ events' = <<AgentEnd(k)>> /\ k \notin VisibleKinds
  <2>1. k # "ok" => k \notin VisibleKinds
    BY SessionAssumption DEF EndKinds, VisibleKinds
  <2>2. \A m, e : <<>> \o <<m, e>> = <<m, e>> /\ <<>> \o <<e>> = <<e>>
    OBVIOUS
  <2> QED
    BY <1>0, <1>1, <2>1, <2>2
<1>4. TurnInv'
  <2>1. ~run'.on /\ timers' = 0 /\ run' \in [on : BOOLEAN, by : Prompts \cup {0}, aborted : BOOLEAN]
    BY <1>0 DEF NoRun
  <2>2. messages' # <<>> /\ Last(messages') = k
    BY <1>0, <1>2, MessageAdded
  <2>3. Ending(k)' \/ Ended(k)'
    BY <1>3, <2>1, <2>2 DEF Ending, Ended
  <2> QED
    BY <2>1, <2>3 DEF TurnInv
<1>5. FailureInv'
  BY <1>0, <1>1 DEF FailureInv
<1>6. Busy(callers') = {} /\ DOMAIN callers' = Prompts
  BY <1>0, <1>1, NobodyLeft
<1>7. CallersInv' /\ \A i \in Prompts : callers'[i].at # "compacting"
  BY <1>6, NoCaller
<1>8. Spares /\ messages' \in Seq(Elements)
  BY <1>0, <1>2, Adds
<1>9. Matches'
  BY <1>0, <1>1, <1>2, <1>3, QueueOf, Said
<1> QED
  BY <1>0, <1>4, <1>5, <1>6, <1>7, <1>8, <1>9 DEF MatchInv, HistoryInv, CutsInv

\* What continue() and prompt() start a run with.
LEMMA PromptsOf ==
    ASSUME NEW ms \in Seq(Elements)
    PROVE  /\ ms \o <<>> = ms /\ ms \o <<"user">> = Append(ms, "user")
           /\ <<>> \o [i \in DOMAIN <<>> |-> MessageEnd("user")] = <<>>
           /\ <<>> \o [i \in DOMAIN <<"user">> |-> MessageEnd("user")] = <<MessageEnd("user")>>
<1>1. ms \o <<>> = ms /\ ms \o <<"user">> = Append(ms, "user")
  OBVIOUS
<1>2. ASSUME NEW e PROVE [i \in DOMAIN <<>> |-> e] = <<>> /\ [i \in DOMAIN <<"user">> |-> e] = <<e>>
  OBVIOUS
<1>3. \A e : <<>> \o <<e>> = <<e>> /\ <<>> \o <<>> = <<>>
  OBVIOUS
<1> QED
  BY <1>1, <1>2, <1>3

\* A run starts when nothing waits in the queue.
LEMMA Starts ==
    ASSUME MatchInv, CountInv, events = <<>>, ~IsError(lastAssistant), handler.at = "free",
           NEW by \in Prompts \cup {0}, NEW prompts \in {<<>>, <<"user">>}, StartRun(by, prompts),
           UNCHANGED <<session, kept, handler, lastAssistant>>, timers' \in Nat,
           DOMAIN callers' = Prompts, Busy(callers') = {}
    PROVE  MatchInv' /\ Spares
<1>1. messages \in Seq(Elements)
  BY DEF MatchInv, HistoryInv
<1>2. run' = [NoRun EXCEPT !.on = TRUE, !.by = by] /\ messages' = messages \o prompts
      /\ events' = events \o [i \in DOMAIN prompts |-> MessageEnd("user")]
  BY DEF StartRun
<1>3. run'.on /\ run' \in [on : BOOLEAN, by : Prompts \cup {0}, aborted : BOOLEAN]
  BY <1>2 DEF NoRun
<1>4. \/ messages' = messages /\ events' = <<>>
      \/ messages' = Append(messages, "user") /\ events' = <<MessageEnd("user")>>
  BY <1>1, <1>2, PromptsOf
<1>5. TurnInv'
  BY <1>3, <1>4 DEF TurnInv, Speaking
<1>6. FailureInv'
  BY DEF FailureInv
<1>7. CallersInv' /\ \A i \in Prompts : callers'[i].at # "compacting"
  BY NoCaller
<1>8. Spares /\ messages' \in Seq(Elements)
  BY <1>4, KindsOf, Adds
<1>9. Matches'
  <2>1. CASE messages' = messages /\ events' = <<>>
    BY <2>1 DEF MatchInv, HistoryInv, Matches
  <2>2. CASE messages' = Append(messages, "user") /\ events' = <<MessageEnd("user")>>
    BY <2>2, QueueOf, KindsOf, Said
  <2> QED
    BY <1>4, <2>1, <2>2
<1> QED
  BY <1>5, <1>6, <1>7, <1>8, <1>9 DEF MatchInv, HistoryInv, CutsInv

\* A timer calls continue().
LEMMA TimerMatches ==
    ASSUME MatchInv, CountInv, ~SlowExtensions, ContinueFires
    PROVE  MatchInv' /\ Spares
<1>1. timers > 0 /\ Macrotask /\ timers' = timers - 1 /\ timers \in Nat
      /\ UNCHANGED <<session, kept, handler, lastAssistant, callers>>
  BY DEF ContinueFires, retryVars, MatchInv, TurnInv
<1>2. events = <<>> /\ handler.at = "free" /\ Busy(callers) = {} /\ ~IsError(lastAssistant)
  BY <1>1, AloneThen
<1>3. timers' \in Nat /\ DOMAIN callers' = Prompts /\ Busy(callers') = {}
  BY <1>1, <1>2 DEF MatchInv
<1>4. CASE StartRun(0, <<>>) \/ StartRun(0, <<"user">>)
  BY <1>1, <1>2, <1>3, <1>4, Starts
<1>5. CASE UNCHANGED <<agentVars, events, seen>>
  <2>1. UNCHANGED <<run, messages, events>>
    BY <1>5 DEF agentVars
  <2>2. TurnInv'
    BY <1>2, <1>3, <2>1 DEF MatchInv, TurnInv
  <2>3. FailureInv'
    BY <1>1, <1>2 DEF FailureInv
  <2>4. CallersInv'
    BY <1>3, NoCaller
  <2>5. HistoryInv'
    BY <1>1, <2>1 DEF MatchInv, HistoryInv, CutsInv, Matches
  <2> QED
    BY <1>3, <2>1, <2>2, <2>3, <2>4, <2>5, Adds DEF MatchInv
<1> QED
  BY <1>4, <1>5 DEF ContinueFires

\* A message is persisted.
LEMMA SaveMatches ==
    ASSUME MatchInv, CountInv, HandleMessageEnd
    PROVE  MatchInv' /\ Spares
<1> DEFINE c == Context(session, kept)
<1>0. PICK k : k = Head(events).kind
  OBVIOUS
<1>1. /\ events # <<>> /\ handler.at = "free" /\ Head(events).type = "message_end"
      /\ session' = Append(session, k) /\ lastAssistant' = IF k = "user" THEN lastAssistant ELSE k
      /\ events' = Tail(events) /\ handler' = Free
      /\ UNCHANGED <<messages, run, kept, timers>>
      /\ callers' = callers \/ callers' = Resolved(callers)
  BY <1>0 DEF HandleMessageEnd, AtHead, EndEvent, KeepRetry, ResolveRetry, agentVars
<1>2. \/ Speaking(k) /\ k \in {"user", "tools"}
      \/ Ending(k) /\ k \in EndKinds
  <2>1. ASSUME NEW j, Ended(j) PROVE FALSE
    BY <1>1, <2>1, QueueOf DEF Ended
  <2>2. ASSUME NEW j, Speaking(j) \/ Ending(j) PROVE k = j
    BY <1>0, <2>2, QueueOf DEF Speaking, Ending
  <2> QED
    BY <1>1, <2>1, <2>2 DEF MatchInv, TurnInv
<1>3. k \in MessageKinds /\ k \in Elements
  BY <1>2, KindsOf
<1>4. /\ Unsaved(events) = <<k>> /\ Unsaved(events') = <<>>
      /\ Speaking(k) => events' = <<>>
      /\ Ending(k) => events' = <<AgentEnd(k)>>
  <2>1. CASE events = <<MessageEnd(k)>>
    <3>1. events' = <<>>
      BY <1>1, <2>1, QueueOf
    <3>2. Unsaved(events) = <<k>> /\ Unsaved(events') = <<>>
      BY <2>1, <3>1, QueueOf
    <3> QED
      BY <2>1, <3>1, <3>2, QueueOf DEF Ending
  <2>2. CASE events = <<MessageEnd(k), AgentEnd(k)>>
    <3>1. events' = <<AgentEnd(k)>>
      BY <1>1, <2>2, QueueOf
    <3>2. Unsaved(events) = <<k>> /\ Unsaved(events') = <<>>
      BY <2>2, <3>1, QueueOf
    <3> QED
      BY <2>2, <3>1, <3>2, QueueOf DEF Speaking
  <2> QED
    BY <1>2, <2>1, <2>2 DEF Speaking, Ending
<1>5. ~IsError(lastAssistant)
  BY <1>1, QueueOf DEF MatchInv, FailureInv, Ended
<1>6. Busy(callers) = {}
  BY <1>1 DEF MatchInv, CallersInv
<1>7. /\ Speaking(k) => events' = <<>>
      /\ Ending(k) => Ended(k)' /\ messages # <<>> /\ Last(messages) = k
  BY <1>1, <1>4 DEF Ending, Ended
<1>8. messages \in Seq(Elements) /\ session \in Seq(Elements) /\ CutsInv /\ Matches /\ DOMAIN callers = Prompts
  BY DEF MatchInv, HistoryInv
<1>9. TurnInv'
  BY <1>1, <1>2, <1>7 DEF MatchInv, TurnInv
<1>10. FailureInv'
  <2>1. CASE Speaking(k) /\ k \in {"user", "tools"}
    <3>1. ~IsError(lastAssistant')
      BY <1>1, <1>5, <2>1, KindsOf
    <3> QED
      BY <1>1, <3>1, FreeHandler DEF FailureInv
  <2>2. CASE Ending(k) /\ k \in EndKinds
    <3>1. k # "user"
      BY <2>2, SessionAssumption DEF EndKinds
    <3>2. IsError(lastAssistant') => EndsInError(messages')
      BY <1>1, <1>7, <2>2, <3>1 DEF EndsInError
    <3>3. handler'.at = "free"
      BY <1>1, FreeHandler
    <3> QED
      BY <1>7, <2>2, <3>2, <3>3 DEF FailureInv
  <2> QED
    BY <1>2, <2>1, <2>2
<1>11. DOMAIN callers' = Prompts /\ CallersInv' /\ \A i \in Prompts : callers'[i].at # "compacting"
  <2>1. DOMAIN callers' = Prompts /\ Busy(callers') = {}
    BY <1>1, <1>6, NobodyLeft
  <2> QED
    BY <2>1, NoCaller
<1>12. /\ c \in Seq(Elements) /\ Context(session', kept') = Append(c, k)
       /\ LastCompaction(session') # 0 <=> LastCompaction(session) # 0
  BY <1>1, <1>3, <1>8, ContextOf DEF CutsInv
<1>13. Len(session') = Len(session) + 1 /\ session' \in Seq(Elements) /\ Len(session) \in Nat
       /\ Last(session') = k
  BY <1>1, <1>3, <1>8, MessageAdded
<1>14. CutsInv'
  <2>1. handler'.at = "free"
    BY <1>1, FreeHandler
  <2> QED
    BY <1>1, <1>8, <1>11, <1>12, <1>13, <2>1 DEF CutsInv
<1>15. Matches'
  <2> HIDE DEF c
  <2>1. c \o <<k>> = Append(c, k) /\ Append(c, k) \in Seq(Elements)
    BY <1>3, <1>12, MessageAdded
  <2>2. Append(c, k) \o <<>> = Append(c, k)
    BY <1>3, <2>1, MessageAdded
  <2>3. Visible(messages) = Visible(c \o <<k>>)
    BY <1>4, <1>8 DEF Matches, c
  <2> QED
    BY <1>1, <1>4, <1>12, <2>1, <2>2, <2>3 DEF Matches
<1>16. Spares
  BY <1>1, Adds
<1> QED
  BY <1>1, <1>8, <1>9, <1>10, <1>11, <1>13, <1>14, <1>15, <1>16 DEF MatchInv, HistoryInv

\* How the handler of agent_end goes on: it removes at most an answer that failed, and
\* ends, or waits at a place where nobody else removes one.
LEMMA EndHandled ==
    ASSUME MatchInv, CountInv, handler.at # "free" \/ AtHead("agent_end"),
           ~IsError(lastAssistant'), UNCHANGED <<run, session, kept>>,
           callers' = callers \/ callers' = Resolved(callers),
           messages' = messages \/ (messages' = Front(messages) /\ EndsInError(messages)),
           \/ events' = Tail(events) /\ handler' = Free /\ timers' \in Nat
           \/ /\ UNCHANGED <<events, timers>> /\ handler'.at # "free"
              /\ handler'.at = "compacting" => handler'.cut \in 1..Len(session)
              /\ handler'.at = "fallback" => EndsInError(messages) /\ messages' = messages
    PROVE  MatchInv' /\ Spares
<1>1. PICK k \in EndKinds : Ended(k)
  BY EndAlone
<1>2. Busy(callers) = {} /\ Tail(events) = <<>> /\ Unsaved(events) = <<>> /\ Unsaved(events') = <<>>
  BY EndAlone, QueueOf
<1>3. messages \in Seq(Elements) /\ session \in Seq(Elements) /\ CutsInv /\ Matches
  BY DEF MatchInv, HistoryInv
<1>4. TurnInv'
  BY <1>1, <1>2 DEF MatchInv, TurnInv, Ended
<1>5. FailureInv'
  BY FreeHandler DEF FailureInv
<1>6. DOMAIN callers' = Prompts /\ CallersInv' /\ \A i \in Prompts : callers'[i].at # "compacting"
  <2>1. DOMAIN callers' = Prompts /\ Busy(callers') = {}
    BY <1>2, NobodyLeft
  <2> QED
    BY <2>1, NoCaller
<1>7. CutsInv'
  BY <1>3, <1>6, FreeHandler DEF CutsInv
<1>8. /\ messages' \in Seq(Elements) /\ Visible(messages') = Visible(messages)
      /\ IsPrefix(messages, messages') \/ (messages' = Front(messages) /\ IsError(Last(messages)))
  <2>1. CASE messages' = messages
    BY <1>3, <2>1, KindsOf, MessageAdded
  <2>2. CASE messages' = Front(messages) /\ EndsInError(messages)
    BY <1>3, <2>2, KindsOf, LastMessage DEF EndsInError
  <2> QED
    BY <2>1, <2>2
<1>9. Matches'
  BY <1>2, <1>3, <1>8 DEF Matches
<1> QED
  BY <1>3, <1>4, <1>5, <1>6, <1>7, <1>8, <1>9 DEF MatchInv, HistoryInv, Spares

\* Removing the last answer where it failed.
LEMMA DropsError ==
    ASSUME NEW ms, EndsInError(ms)
    PROVE  DropLast(ms) = Front(ms)
BY DEF EndsInError, DropLast, IsError, IsAssistant, None

\* The positions a compaction may cut at.
LEMMA CutsOf ==
    ASSUME session \in Seq(Elements)
    PROVE  Cuts \subseteq 1..Len(session)
<1> DEFINE I == {i \in 1..Len(session) : session[i] = "compaction"}
<1>1. LastCompaction(session) = IF I # {} THEN Max(I) ELSE 0
  BY DEF LastCompaction, SelectLastInSeq
<1>2. Len(session) \in Nat /\ I \in SUBSET (1..Len(session))
  OBVIOUS
<1>3. LastCompaction(session) \in Nat
  <2> HIDE DEF I
  <2>1. I # {} => Max(I) \in 1..Len(session)
    BY <1>2, MaxOfPositions
  <2> QED
    BY <1>1, <1>2, <2>1
<1> QED
  BY <1>2, <1>3 DEF Cuts

\* _checkCompaction removes the last answer only to repair an overflow.
LEMMA CheckMatches ==
    ASSUME MatchInv, CountInv, handler.at # "free" \/ AtHead("agent_end"),
           NEW kind, CheckCompaction(kind, messages), kind = "overflow" => EndsInError(messages),
           ~IsError(lastAssistant'), UNCHANGED <<run, session, kept, timers>>,
           callers' = callers \/ callers' = Resolved(callers)
    PROVE  MatchInv' /\ Spares
<1>1. messages' = messages \/ (messages' = Front(messages) /\ EndsInError(messages))
  BY DropsError DEF CheckCompaction, NeedsOverflowRecovery
<1>2. \/ events' = Tail(events) /\ handler' = Free
      \/ /\ UNCHANGED events
         /\ \E retry, cut : cut \in Cuts /\ handler' = [at |-> "compacting", retry |-> retry, cut |-> cut]
  BY DEF CheckCompaction, EndEvent
<1>3. Cuts \subseteq 1..Len(session) /\ timers' \in Nat
  BY CutsOf DEF MatchInv, HistoryInv, TurnInv
<1>4. \/ events' = Tail(events) /\ handler' = Free
      \/ UNCHANGED events /\ handler'.at = "compacting" /\ handler'.cut \in 1..Len(session)
  <2>1. \A retry, cut : LET h == [at |-> "compacting", retry |-> retry, cut |-> cut] IN h.at = "compacting" /\ h.cut = cut
    OBVIOUS
  <2>2. CASE UNCHANGED events /\ \E retry, cut : cut \in Cuts /\ handler' = [at |-> "compacting", retry |-> retry, cut |-> cut]
    <3>1. PICK retry, cut : cut \in Cuts /\ handler' = [at |-> "compacting", retry |-> retry, cut |-> cut]
      BY <2>2
    <3>2. handler'.at = "compacting" /\ handler'.cut = cut
      BY <2>1, <3>1
    <3> QED
      BY <1>3, <2>2, <3>1, <3>2
  <2> QED
    BY <1>2, <2>2
<1> QED
  BY <1>1, <1>3, <1>4, EndHandled

\* The handlers of agent_end, but for the compaction.
LEMMA AgentEndMatches ==
    ASSUME MatchInv, CountInv,
           \/ HandleRetryable \/ WakeUp \/ SleepAborted \/ HandleAgentEnd
           \/ FallbackReady \/ FallbackNoKey \/ HandlerCompactionFails
    PROVE  MatchInv' /\ Spares
<1>0. ~IsError(None) /\ ~("retryable" = "overflow") /\ ~("fatal" = "overflow") /\ timers \in Nat /\ timers + 1 \in Nat
  BY KindsOf DEF MatchInv, TurnInv
<1>1. handler.at # "free" => ~IsError(lastAssistant)
  BY DEF MatchInv, FailureInv
<1>2. CASE HandleRetryable
  <2>1. AtHead("agent_end") /\ EndsInError(messages) /\ lastAssistant' = None
        /\ UNCHANGED <<run, session, kept, timers>>
    BY <1>2 DEF HandleRetryable, MatchInv, FailureInv, IsError
  <2>2. CASE retryAttempt < MaxRetries
    <3>1. messages' = DropLast(messages) /\ handler' = [Free EXCEPT !.at = "sleeping"] /\ UNCHANGED <<events, callers>>
      BY <1>2, <2>2 DEF HandleRetryable
    <3>2. messages' = Front(messages)
      BY <2>1, <3>1, DropsError
    <3>3. handler'.at = "sleeping"
      BY <3>1, FreeHandler, HandlerGoesTo DEF Places
    <3> QED
      BY <1>0, <2>1, <3>1, <3>2, <3>3, EndHandled
  <2>3. CASE ~(retryAttempt < MaxRetries) /\ fallbackIndex < Fallbacks
    <3>1. /\ handler' = [Free EXCEPT !.at = "fallback", !.retry = TRUE]
          /\ messages' = messages /\ UNCHANGED <<events, callers>>
      BY <1>2, <2>3 DEF HandleRetryable
    <3>2. handler'.at = "fallback"
      BY <3>1, FreeHandler, HandlerGoesTo DEF Places
    <3> QED
      BY <1>0, <2>1, <3>1, <3>2, EndHandled
  <2>4. CASE ~(retryAttempt < MaxRetries) /\ ~(fallbackIndex < Fallbacks)
    <3>1. CheckCompaction("retryable", messages) /\ callers' = Resolved(callers)
      BY <1>2, <2>4 DEF HandleRetryable, ResolveRetry
    <3> QED
      BY <1>0, <2>1, <3>1, CheckMatches
  <2> QED
    BY <2>2, <2>3, <2>4
<1>3. CASE WakeUp
  <2>1. handler.at # "free" /\ events' = Tail(events) /\ handler' = Free /\ timers' = timers + 1
        /\ UNCHANGED <<messages, run, session, kept, lastAssistant, callers>>
    BY <1>3 DEF WakeUp, EndEvent, agentVars
  <2> QED
    BY <1>0, <1>1, <2>1, EndHandled
<1>4. CASE SleepAborted
  <2>1. handler.at # "free" /\ CheckCompaction("retryable", messages) /\ callers' = Resolved(callers)
        /\ UNCHANGED <<run, session, kept, lastAssistant, timers>>
    BY <1>4 DEF SleepAborted, ResolveRetry
  <2> QED
    BY <1>0, <1>1, <2>1, CheckMatches
<1>5. CASE HandleAgentEnd
  <2>1. AtHead("agent_end") /\ lastAssistant' = None /\ UNCHANGED <<run, session, kept, timers, callers>>
        /\ (IsError(lastAssistant) => EndsInError(messages))
    BY <1>5 DEF HandleAgentEnd, MatchInv, FailureInv
  <2>2. CASE EndEvent /\ UNCHANGED messages
    BY <1>0, <2>1, <2>2, EndHandled DEF EndEvent
  <2>3. CASE lastAssistant = "fatal" /\ handler' = [Free EXCEPT !.at = "fallback"] /\ UNCHANGED <<messages, events>>
    <3>1. handler'.at = "fallback" /\ EndsInError(messages)
      BY <2>1, <2>3, FreeHandler, HandlerGoesTo DEF Places, IsError
    <3> QED
      BY <1>0, <2>1, <2>3, <3>1, EndHandled
  <2>4. CASE CheckCompaction(lastAssistant, messages)
    BY <1>0, <2>1, <2>4, CheckMatches DEF IsError
  <2> QED
    BY <1>5, <2>2, <2>3, <2>4 DEF HandleAgentEnd
<1>6. CASE FallbackReady
  <2>1. handler.at # "free" /\ EndsInError(messages) /\ events' = Tail(events) /\ handler' = Free
        /\ timers' = timers + 1 /\ messages' = DropLast(messages)
        /\ UNCHANGED <<run, session, kept, lastAssistant>>
        /\ (callers' = callers \/ callers' = Resolved(callers))
    BY <1>6 DEF FallbackReady, EndEvent, ResolveRetry, KeepRetry, MatchInv, FailureInv
  <2> QED
    BY <1>0, <1>1, <2>1, DropsError, EndHandled
<1>7. CASE FallbackNoKey
  <2>1. handler.at # "free" /\ EndsInError(messages) /\ handler.at = "fallback"
        /\ UNCHANGED <<run, session, kept, lastAssistant, timers>>
        /\ (callers' = callers \/ callers' = Resolved(callers))
    BY <1>7 DEF FallbackNoKey, ResolveRetry, KeepRetry, MatchInv, FailureInv
  <2>2. CASE UNCHANGED <<messages, events, handler>>
    BY <1>1, <2>1, <2>2, EndHandled
  <2>3. CASE CheckCompaction(IF handler.retry THEN "retryable" ELSE "fatal", messages)
    BY <1>0, <1>1, <2>1, <2>3, CheckMatches
  <2> QED
    BY <1>7, <2>2, <2>3 DEF FallbackNoKey
<1>8. CASE HandlerCompactionFails
  <2>1. handler.at # "free" /\ events' = Tail(events) /\ handler' = Free
        /\ UNCHANGED <<messages, run, session, kept, lastAssistant, timers, callers>>
    BY <1>8 DEF HandlerCompactionFails, EndEvent, agentVars, retryVars
  <2> QED
    BY <1>0, <1>1, <2>1, EndHandled
<1> QED
  BY <1>2, <1>3, <1>4, <1>5, <1>6, <1>7, <1>8

\* _finalizeCompaction: the agent is given what the session would be rebuilt with, but for
\* an answer that failed.
LEMMA FinalizeMatches ==
    ASSUME MatchInv, NEW cut \in 1..Len(session), NEW retry, FinalizeCompaction(cut, retry),
           Unsaved(events') = <<>>
    PROVE  /\ messages' \in Seq(Elements) /\ session' \in Seq(Elements) /\ Spares /\ Matches'
           /\ timers' \in {timers, timers + 1} /\ kept' \in 1..Len(session') /\ Len(session') = Len(session) + 1
<1> DEFINE entries == Append(session, "compaction")
           c == Context(entries, cut)
<1>1. session \in Seq(Elements) /\ messages \in Seq(Elements) /\ "compaction" \in Elements
  BY DEF MatchInv, HistoryInv, Elements
<1>2. entries \in Seq(Elements) /\ cut \in 1..Len(entries) /\ c \in Seq(Elements) /\ c # <<>>
  BY <1>1, ContextCompacted
<1>3. Last(entries) = "compaction" /\ Len(entries) = Len(session) + 1 /\ Len(session) \in Nat
  BY <1>1, MessageAdded
<1>4. /\ session' = entries /\ kept' = cut
      /\ messages' = IF retry /\ IsError(Last(c)) THEN Front(c) ELSE c
      /\ timers' \in {timers, timers + 1}
  BY DEF FinalizeCompaction
<1> HIDE DEF entries
<1>5. c \o <<>> = c
  BY <1>1, <1>2, MessageAdded
<1> HIDE DEF c
<1>6. messages' \in Seq(Elements) /\ Visible(messages') = Visible(c)
  BY <1>2, <1>4, KindsOf, LastMessage
<1>7. Matches'
  BY <1>4, <1>5, <1>6 DEF Matches, c
<1>8. Spares
  <2>1. session' # session
    BY <1>3, <1>4
  <2> QED
    BY <1>3, <1>4, <2>1 DEF Spares
<1> QED
  BY <1>2, <1>3, <1>4, <1>6, <1>7, <1>8

\* The handler of agent_end compacts the conversation.
LEMMA HandlerCompactsMatches ==
    ASSUME MatchInv, CountInv, HandlerCompacts
    PROVE  MatchInv' /\ Spares
<1>1. /\ handler.at = "compacting" /\ FinalizeCompaction(handler.cut, handler.retry)
      /\ events' = Tail(events) /\ handler' = Free
      /\ UNCHANGED <<run, lastAssistant, callers>>
  BY DEF HandlerCompacts, EndEvent, retryVars
<1>2. /\ Busy(callers) = {} /\ events' = <<>> /\ Unsaved(events') = <<>> /\ DOMAIN callers = Prompts
      /\ ~IsError(lastAssistant) /\ handler.cut \in 1..Len(session) /\ timers \in Nat /\ handler'.at = "free"
  BY <1>1, EndAlone, QueueOf, FreeHandler DEF MatchInv, TurnInv, FailureInv, HistoryInv, CutsInv
<1>3. /\ messages' \in Seq(Elements) /\ session' \in Seq(Elements) /\ Spares /\ Matches'
      /\ timers' \in {timers, timers + 1} /\ kept' \in 1..Len(session')
  BY <1>1, <1>2, FinalizeMatches
<1>4. TurnInv'
  BY <1>1, <1>2, <1>3 DEF MatchInv, TurnInv
<1>5. FailureInv'
  BY <1>1, <1>2 DEF FailureInv
<1>6. Busy(callers') = {} /\ DOMAIN callers' = Prompts
  BY <1>1, <1>2
<1>7. CallersInv' /\ \A i \in Prompts : callers'[i].at # "compacting"
  BY <1>6, NoCaller
<1>8. CutsInv'
  BY <1>2, <1>3, <1>7 DEF CutsInv
<1> QED
  BY <1>3, <1>4, <1>5, <1>6, <1>7, <1>8 DEF MatchInv, HistoryInv

\* The last answer is the last message, if that is one of an assistant.
LEMMA LastAnswerIs ==
    ASSUME messages \in Seq(Elements), messages # <<>>, IsAssistant(Last(messages))
    PROVE  LastAnswer = Last(messages)
<1> DEFINE I == {i \in 1..Len(messages) : messages[i] \notin {"user", "summary"}}
           n == Len(messages)
           j == SelectLastInSeq(messages, LAMBDA k : k \notin {"user", "summary"})
<1>1. j = IF I # {} THEN Max(I) ELSE 0
  BY DEF SelectLastInSeq
<1>2. n \in Nat /\ n # 0 /\ I \in SUBSET (1..n) /\ n \in I
  BY DEF Last, IsAssistant
<1>3. LastAnswer = IF j = 0 THEN None ELSE messages[j]
  BY DEF LastAnswer
<1> HIDE DEF I, j
<1>4. Max(I) \in 1..n /\ n <= Max(I)
  BY <1>2, MaxOfPositions
<1>5. j = n
  BY <1>1, <1>2, <1>4
<1> QED
  BY <1>2, <1>3, <1>5 DEF Last

\* A caller of prompt() that goes on to compact, or to start a run, is the only one.
LEMMA OneCaller ==
    ASSUME DOMAIN callers = Prompts, NEW i \in Prompts, NEW next, Busy(callers) \subseteq {i},
           callers' = [callers EXCEPT ![i] = next]
    PROVE  /\ DOMAIN callers' = Prompts /\ Busy(callers') \subseteq {i} /\ callers'[i] = next
           /\ \A j \in Prompts : callers'[j].at = "compacting" => j = i
           /\ next.at \notin {"compacting", "ready"} => Busy(callers') = {}
BY DEF Busy

\* prompt(), up to its compaction.
LEMMA PromptMatches ==
    ASSUME MatchInv, CountInv, PromptsWait, NEW i \in Prompts, Prompt(i)
    PROVE  MatchInv' /\ Spares
<1>1. /\ ~run.on /\ events = <<>> /\ timers = 0 /\ Busy(callers) = {}
      /\ UNCHANGED <<run, session, kept, events, handler, lastAssistant, timers>>
      /\ DOMAIN callers = Prompts /\ messages \in Seq(Elements) /\ session \in Seq(Elements)
      /\ handler.at = "free" /\ ~IsError(lastAssistant)
  <2>1. ~IsError(lastAssistant) \/ events # <<>>
    BY QueueOf DEF MatchInv, FailureInv, Ended
  <2> QED
    BY <2>1 DEF Prompt, Quiet, Busy, MatchInv, HistoryInv, CountInv
<1>2. \/ messages' = messages
      \/ messages' = DropLast(messages) /\ LastAnswer = "overflow"
  BY DEF Prompt, NeedsOverflowRecovery
<1>3. \E next : /\ callers' = [callers EXCEPT ![i] = next]
                /\ next.at = "compacting" => next.cut \in Cuts
  <2>1. ASSUME NEW retry \in BOOLEAN, NEW next \in PromptCompactions(retry)
        PROVE  next.at = "compacting" => next.cut \in Cuts
    BY DEF PromptCompactions, Caller
  <2>2. Caller("ready").at # "compacting"
    BY DEF Caller
  <2> QED
    BY <2>1, <2>2 DEF Prompt
<1>4. PICK next : /\ callers' = [callers EXCEPT ![i] = next]
                  /\ next.at = "compacting" => next.cut \in Cuts
  BY <1>3
<1>5. /\ DOMAIN callers' = Prompts /\ Busy(callers') \subseteq {i} /\ callers'[i] = next
      /\ \A j \in Prompts : callers'[j].at = "compacting" => j = i
  BY <1>1, <1>4, OneCaller
<1>6. \/ messages' = messages
      \/ messages' = Front(messages) /\ EndsInError(messages)
  <2>1. CASE LastAnswer = "overflow" /\ messages # <<>> /\ IsAssistant(Last(messages))
    <3>1. EndsInError(messages)
      BY <1>1, <2>1, LastAnswerIs DEF EndsInError, IsError
    <3> QED
      BY <1>2, <3>1, DropsError
  <2>2. CASE ~(messages # <<>> /\ IsAssistant(Last(messages)))
    BY <1>2, <2>2 DEF DropLast
  <2> QED
    BY <1>2, <2>1, <2>2
<1>7. /\ messages' \in Seq(Elements) /\ Visible(messages') = Visible(messages) /\ Spares
  <2>1. CASE messages' = messages
    BY <1>1, <2>1, Adds
  <2>2. CASE messages' = Front(messages) /\ EndsInError(messages)
    BY <1>1, <2>2, KindsOf, LastMessage DEF EndsInError, Spares
  <2> QED
    BY <1>6, <2>1, <2>2
<1>8. Matches'
  BY <1>1, <1>7 DEF MatchInv, HistoryInv, Matches
<1>9. Cuts \subseteq 1..Len(session)
  BY <1>1, CutsOf
<1>10. CutsInv'
  BY <1>1, <1>4, <1>5, <1>9 DEF MatchInv, HistoryInv, CutsInv
<1>11. CallersInv'
  BY <1>1, <1>5 DEF CallersInv
<1>12. TurnInv'
  BY <1>1 DEF MatchInv, TurnInv
<1>13. FailureInv'
  BY <1>1 DEF FailureInv
<1> QED
  BY <1>1, <1>5, <1>7, <1>8, <1>10, <1>11, <1>12, <1>13 DEF MatchInv, HistoryInv

\* A caller of prompt() finds the conversation compacted, or not.
LEMMA PromptedMatches ==
    ASSUME MatchInv, CountInv, NEW i \in Prompts, PromptCompacted(i)
    PROVE  MatchInv' /\ Spares
<1>1. /\ callers[i].at = "compacting" /\ callers' = [callers EXCEPT ![i] = Caller("ready")]
      /\ UNCHANGED <<run, events, handler, lastAssistant>>
  BY DEF PromptCompacted, retryVars
<1>2. /\ Busy(callers) \subseteq {i} /\ ~run.on /\ events = <<>> /\ handler.at = "free" /\ timers = 0
      /\ DOMAIN callers = Prompts /\ callers[i].cut \in 1..Len(session) /\ ~IsError(lastAssistant)
      /\ messages \in Seq(Elements) /\ session \in Seq(Elements) /\ CutsInv /\ Matches
  <2>1. i \in Busy(callers)
    BY <1>1 DEF Busy
  <2>2. Busy(callers) \subseteq {i} /\ ~run.on /\ events = <<>> /\ handler.at = "free" /\ timers = 0
    BY <1>1, <2>1 DEF MatchInv, CallersInv
  <2>3. ~IsError(lastAssistant)
    BY <2>2, QueueOf DEF MatchInv, FailureInv, Ended
  <2> QED
    BY <1>1, <2>2, <2>3 DEF MatchInv, HistoryInv, CutsInv
<1>3. /\ DOMAIN callers' = Prompts /\ Busy(callers') \subseteq {i}
      /\ \A j \in Prompts : callers'[j].at # "compacting"
  <2>1. Caller("ready").at # "compacting"
    BY DEF Caller
  <2> QED
    BY <1>1, <1>2, <2>1, OneCaller
<1>4. /\ messages' \in Seq(Elements) /\ session' \in Seq(Elements) /\ Spares /\ Matches'
      /\ timers' \in {0, 1}
      /\ LastCompaction(session') # 0 => kept' \in 1..Len(session')
  <2>1. CASE FinalizeCompaction(callers[i].cut, callers[i].retry)
    <3>1. Unsaved(events') = <<>>
      BY <1>1, <1>2, QueueOf
    <3> QED
      BY <1>2, <2>1, <3>1, FinalizeMatches
  <2>2. CASE UNCHANGED <<messages, session, kept, timers>>
    BY <1>1, <1>2, <2>2, Adds DEF Matches, CutsInv
  <2> QED
    BY <2>1, <2>2 DEF PromptCompacted
<1>5. CutsInv'
  BY <1>1, <1>2, <1>3, <1>4 DEF CutsInv
<1>6. CallersInv'
  <2>1. ~run'.on /\ events' = <<>> /\ handler'.at = "free" /\ timers' <= 1
    BY <1>1, <1>2, <1>4
  <2>2. \A j, k \in Busy(callers') : j = k
    BY <1>3
  <2> QED
    BY <1>3, <2>1, <2>2 DEF CallersInv
<1>7. TurnInv'
  BY <1>1, <1>2, <1>4 DEF MatchInv, TurnInv
<1>8. FailureInv'
  BY <1>1, <1>2 DEF FailureInv
<1> QED
  BY <1>3, <1>4, <1>5, <1>6, <1>7, <1>8 DEF MatchInv, HistoryInv

\* prompt() starts its run.
LEMMA StartMatches ==
    ASSUME MatchInv, CountInv, NEW i \in Prompts, PromptStarts(i)
    PROVE  MatchInv' /\ Spares
<1>1. callers[i].at = "ready" /\ UNCHANGED <<session, kept, handler, lastAssistant, timers>>
  BY DEF PromptStarts, retryVars
<1>2. /\ Busy(callers) \subseteq {i} /\ ~run.on /\ events = <<>> /\ handler.at = "free"
      /\ DOMAIN callers = Prompts /\ timers \in Nat /\ ~IsError(lastAssistant)
  <2>1. i \in Busy(callers)
    BY <1>1 DEF Busy
  <2>2. Busy(callers) \subseteq {i} /\ ~run.on /\ events = <<>> /\ handler.at = "free"
    BY <2>1 DEF MatchInv, CallersInv
  <2>3. ~IsError(lastAssistant)
    BY <2>2, QueueOf DEF MatchInv, FailureInv, Ended
  <2> QED
    BY <2>2, <2>3 DEF MatchInv, TurnInv
<1>3. callers' = [callers EXCEPT ![i] = Caller("running")] /\ StartRun(i, <<"user">>)
  BY <1>2 DEF PromptStarts
<1>4. DOMAIN callers' = Prompts /\ Busy(callers') = {}
  <2>1. Caller("running").at \notin {"compacting", "ready"}
    BY DEF Caller
  <2> QED
    BY <1>2, <1>3, <2>1, OneCaller
<1> QED
  BY <1>1, <1>2, <1>3, <1>4, Starts

\* What changes neither the conversation nor who works on it.
LEMMA OthersMatch ==
    ASSUME MatchInv, run'.on = run.on, run' \in [on : BOOLEAN, by : Prompts \cup {0}, aborted : BOOLEAN],
           UNCHANGED <<messages, session, kept, events, handler, lastAssistant, timers>>,
           callers' = callers \/ callers' = Resolved(callers)
    PROVE  MatchInv' /\ Spares
<1>1. /\ DOMAIN callers' = Prompts /\ Busy(callers') = Busy(callers)
      /\ \A i \in Prompts : callers'[i].at = "compacting" => callers'[i] = callers[i]
  <2>1. DOMAIN callers = Prompts
    BY DEF MatchInv
  <2> QED
    BY <2>1 DEF Busy, Resolved, Caller
<1>2. TurnInv'
  BY DEF MatchInv, TurnInv, Speaking, Ending, Ended
<1>3. FailureInv'
  BY DEF MatchInv, FailureInv, Ended
<1>4. CallersInv'
  BY <1>1 DEF MatchInv, CallersInv
<1>5. HistoryInv'
  BY <1>1 DEF MatchInv, HistoryInv, CutsInv, Matches
<1> QED
  BY <1>1, <1>2, <1>3, <1>4, <1>5, Adds DEF MatchInv

\* steer(), abort() and abortRetry().
LEMMA OutsideMatches ==
    ASSUME MatchInv, \/ Steer \/ UNCHANGED vars
                     \/ \E andRun \in BOOLEAN : AbortRetry(andRun)
    PROVE  MatchInv' /\ Spares
<1>1. run \in [on : BOOLEAN, by : Prompts \cup {0}, aborted : BOOLEAN]
  BY DEF MatchInv, TurnInv
<1>2. CASE Steer \/ UNCHANGED vars
  BY <1>1, <1>2, OthersMatch DEF Steer, vars, agentVars, retryVars
<1>3. ASSUME NEW andRun \in BOOLEAN, AbortRetry(andRun) PROVE MatchInv' /\ Spares
  <2>1. run' = run \/ run' = [run EXCEPT !.aborted = TRUE]
    BY <1>3 DEF AbortRetry
  <2>2. run'.on = run.on /\ run' \in [on : BOOLEAN, by : Prompts \cup {0}, aborted : BOOLEAN]
    BY <1>1, <2>1
  <2>3. /\ UNCHANGED <<messages, session, kept, events, handler, lastAssistant, timers>>
        /\ callers' = callers \/ callers' = Resolved(callers)
    BY <1>3 DEF AbortRetry, ResolveRetry, KeepRetry
  <2> QED
    BY <2>2, <2>3, OthersMatch
<1> QED
  BY <1>2, <1>3

\* The states a session starts in.
LEMMA InitMatches == SessionInit => MatchInv
<1> SUFFICES ASSUME SessionInit PROVE MatchInv
  OBVIOUS
<1>1. /\ messages = <<>> /\ session = <<>> /\ kept = 0 /\ events = <<>> /\ handler = Free /\ run = NoRun
      /\ timers = 0 /\ lastAssistant = None /\ callers = [i \in Prompts |-> Caller("none")]
  BY DEF SessionInit
<1>2. DOMAIN callers = Prompts /\ Busy(callers) = {} /\ \A i \in Prompts : callers[i].at # "compacting"
  BY <1>1 DEF Busy, Caller
<1>3. TurnInv
  BY <1>1 DEF TurnInv, NoRun
<1>4. FailureInv
  BY <1>1, KindsOf, FreeHandler DEF FailureInv
<1>5. CallersInv
  BY <1>2 DEF CallersInv, Busy
<1>6. session \in Seq(Elements) /\ messages \in Seq(Elements) /\ Len(session) = 0
  BY <1>1
<1>7. LastCompaction(session) = 0
  <2>1. \A i \in 1..Len(session) : FALSE
    BY <1>6
  <2> QED
    BY <1>6, <2>1, CompactionsOf
<1>8. CutsInv
  BY <1>1, <1>2, <1>7, FreeHandler DEF CutsInv
<1>9. Matches
  <2>1. Context(session, kept) = session
    BY <1>7 DEF Context
  <2>2. session \o <<>> = session
    BY <1>6
  <2> QED
    BY <1>1, <2>1, <2>2, QueueOf DEF Matches
<1> QED
  BY <1>2, <1>3, <1>4, <1>5, <1>6, <1>8, <1>9 DEF MatchInv, HistoryInv

\* Every step of a run, a handler, a timer, a prompt or an abort keeps the conversation what
\* the session would be rebuilt with, and removes at most an answer that failed.
LEMMA NextMatches ==
    ASSUME PromptsWait, ~SlowExtensions, ~QuickRuns, MatchInv, CountInv, [SessionNext]_vars
    PROVE  MatchInv' /\ Spares
<1>1. CASE RunTurn \/ RunTakesQueued
  BY <1>1, TurnMatches
<1>2. ASSUME NEW kind \in Outcomes \cup {"aborted"}, RunEnds(kind) \/ RunThrows(kind) PROVE MatchInv' /\ Spares
  BY <1>2, EndMatches DEF EndKinds
<1>3. CASE HandlerStep
  BY <1>3, SaveMatches, AgentEndMatches, HandlerCompactsMatches DEF HandlerStep
<1>4. CASE ContinueFires
  BY <1>4, TimerMatches
<1>5. CASE PromptStep
  BY <1>5, PromptedMatches, StartMatches DEF PromptStep
<1>6. CASE \E i \in Prompts : Prompt(i)
  BY <1>6, PromptMatches
<1>7. CASE Steer \/ UNCHANGED vars \/ \E andRun \in BOOLEAN : AbortRetry(andRun)
  BY <1>7, OutsideMatches
<1> QED
  BY <1>1, <1>2, <1>3, <1>4, <1>5, <1>6, <1>7 DEF SessionNext, RunStep, OutsideStep

\* MatchInv holds as long as a session lives.
LEMMA AlwaysMatches ==
    ASSUME PromptsWait, ~SlowExtensions, ~QuickRuns
    PROVE  AgentSessionSpec => []MatchInv
<1>1. AgentSessionSpec => []CountInv
  BY CountsBounded
<1>2. SessionInit => MatchInv
  BY InitMatches
<1>3. MatchInv /\ CountInv /\ [SessionNext]_vars => MatchInv'
  BY NextMatches
<1> QED
  BY <1>1, <1>2, <1>3, PTL DEF AgentSessionSpec

\* _finalizeCompaction, _handleRetryableError and prompt(): when callers wait for each other,
\* handlers are not delayed and no run ends before a timer set before it, the agent holds,
\* whenever everything is handled, what the session would be rebuilt with: however runs fail,
\* throw, are steered or aborted, and whatever is retried, compacted or given to another model.
THEOREM AgentHoldsSession ==
    ASSUME PromptsWait, ~SlowExtensions, ~QuickRuns
    PROVE  AgentSessionSpec => []StateMatchesSession
<1>1. AgentSessionSpec => []MatchInv
  BY AlwaysMatches
<1>2. MatchInv => StateMatchesSession
  <2> SUFFICES ASSUME MatchInv, events = <<>> PROVE Visible(messages) = Visible(Context(session, kept))
    BY DEF StateMatchesSession, Quiet
  <2>1. Context(session, kept) \in Seq(Elements)
    BY ContextOf DEF MatchInv, HistoryInv, CutsInv
  <2>2. Context(session, kept) \o <<>> = Context(session, kept)
    BY <2>1
  <2>3. Unsaved(events) = <<>>
    BY QueueOf
  <2> QED
    BY <2>2, <2>3 DEF MatchInv, HistoryInv, Matches
<1> QED
  BY <1>1, <1>2, PTL

\* _handleRetryableError, _handleFallback, _checkCompaction and prompt(): under the same
\* conditions, whoever removes the last answer finds one that failed there.
THEOREM FailuresRemoved ==
    ASSUME PromptsWait, ~SlowExtensions, ~QuickRuns
    PROVE  AgentSessionSpec => RemovesOnlyFailures
<1>1. AgentSessionSpec => []MatchInv
  BY AlwaysMatches
<1>2. AgentSessionSpec => []CountInv
  BY CountsBounded
<1>3. MatchInv /\ CountInv /\ [SessionNext]_vars => [Spares]_vars
  BY NextMatches
<1>4. AgentSessionSpec => [][Spares]_vars
  <2> HIDE DEF Spares
  <2> QED
    BY <1>1, <1>2, <1>3, PTL DEF AgentSessionSpec
<1> QED
  BY <1>4 DEF RemovesOnlyFailures, Spares
=============================================================================
