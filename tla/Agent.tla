------------------------------- MODULE Agent -------------------------------
(***************************************************************************)
(* packages/agent/src/agent.ts and agent-loop.ts: an agent keeps the       *)
(* messages of a conversation and two queues of user messages, and runs a  *)
(* loop that asks the model, executes the tool calls of its answer and     *)
(* takes queued messages between turns.                                    *)
(*                                                                         *)
(* The loop is asynchronous: between any two awaits the owner of the agent *)
(* may queue messages, abort or read the state.  Each action below is the  *)
(* code between two awaits that let other code run.  The loop works on a   *)
(* copy of the messages (context); agent.state.messages is updated by the  *)
(* events it emits.                                                        *)
(*                                                                         *)
(* Messages are those of module Transcript; a user message carries the     *)
(* number of the input it came from.                                       *)
(***************************************************************************)
EXTENDS Transcript, FiniteSets, FiniteSetsExt

CONSTANTS
    SteeringMode, FollowUpMode,   \* "one-at-a-time" or "all"
    ToolExecutions,               \* options of agents: "sequential", "parallel"
    HooksThrow,        \* may afterToolCall throw?
    ListenersPrompt,   \* may code run by the agent_end event start a run?
    MaxRuns,           \* bound on runs that overlap
    MaxInputs,         \* bound on user messages
    MaxToolTurns,      \* bound on answers with tool calls
    MaxCalls           \* bound on the tool calls of an answer

ASSUME AgentAssumption ==
    /\ {SteeringMode, FollowUpMode} \subseteq {"one-at-a-time", "all"}
    /\ ToolExecutions \subseteq {"sequential", "parallel"}
    /\ HooksThrow \in BOOLEAN /\ ListenersPrompt \in BOOLEAN
    /\ {MaxRuns, MaxInputs, MaxToolTurns, MaxCalls} \subseteq Nat

VARIABLES
    messages,        \* _state.messages
    isStreaming,     \* _state.isStreaming
    steeringQueue, followUpQueue,
    controller,      \* the run abortController belongs to, 0 when undefined
    runs,            \* the executions of _runLoop
    toolExecution,   \* _toolExecution
    inputs,          \* how every input was given: prompt(), steer() or followUp()
    dropped,         \* inputs removed by clearing a queue or by reset()
    threw            \* did afterToolCall throw in this conversation?

queues == <<steeringQueue, followUpQueue>>
owner == <<inputs, dropped, threw>>
vars == <<messages, isStreaming, steeringQueue, followUpQueue, controller, runs, toolExecution, owner>>

RunIds == 1..MaxRuns
Input(k) == Message("user", <<>>, FALSE, k)

NoRun == [phase |-> "none", context |-> <<>>, calls |-> <<>>, runnable |-> <<>>,
          results |-> <<>>, more |-> FALSE, skipPoll |-> FALSE, aborted |-> FALSE]

Active == {r \in RunIds : runs[r].phase # "none"}

AgentInit ==
    /\ messages = <<>> /\ isStreaming = FALSE
    /\ steeringQueue = <<>> /\ followUpQueue = <<>>
    /\ controller = 0 /\ runs = [r \in RunIds |-> NoRun]
    /\ toolExecution \in ToolExecutions
    /\ inputs = <<>> /\ dropped = {} /\ threw = FALSE

-----------------------------------------------------------------------------
(* The methods of Agent *)

\* Mutant: "one-at-a-time" hands out the first message and keeps it.
Taken_Kept(queue, mode) ==
    IF mode = "all" \/ queue = <<>> THEN [got |-> queue, left |-> <<>>]
    ELSE [got |-> <<Head(queue)>>, left |-> queue]

\* Mutant: the message queued last is taken first.
Taken_Last(queue, mode) ==
    IF mode = "all" \/ queue = <<>> THEN [got |-> queue, left |-> <<>>]
    ELSE [got |-> <<Last(queue)>>, left |-> Front(queue)]

\* dequeueSteeringMessages, dequeueFollowUpMessages
Taken(queue, mode) ==
    IF mode = "all" \/ queue = <<>> THEN [got |-> queue, left |-> <<>>]
    ELSE [got |-> <<Head(queue)>>, left |-> Tail(queue)]

\* _runLoop and the first lines of runAgentLoop: the prompts are emitted and
\* become part of the state and of the loop's copy.
StartRun(prompts, skipPoll) ==
    \E r \in RunIds \ Active :
        /\ \A q \in RunIds \ Active : r <= q
        /\ runs' = [runs EXCEPT ![r] = [NoRun EXCEPT !.phase = "poll", !.more = TRUE,
                                           !.context = messages \o prompts, !.skipPoll = skipPoll]]
        /\ messages' = messages \o prompts
        /\ isStreaming' = TRUE
        /\ controller' = r

\* The event loop lets outside code run between agent_end and the finally block
\* only as a listener, or a microtask of one.
MayStart == ~isStreaming /\ (ListenersPrompt \/ Active = {})

NewInput(kind) == Len(inputs) < MaxInputs /\ inputs' = Append(inputs, kind)
NextInput == Input(Len(inputs) + 1)

Prompt ==
    /\ MayStart /\ NewInput("prompt")
    /\ StartRun(<<NextInput>>, FALSE)
    /\ UNCHANGED <<queues, dropped, threw>>

\* continue(): after an assistant message only queued messages can be continued
\* with, steering first.
Continue ==
    LET steering == Taken(steeringQueue, SteeringMode)
        followUp == Taken(followUpQueue, FollowUpMode)
    IN  /\ MayStart /\ messages # <<>>
        /\ \/ /\ Last(messages).role # "assistant"
              /\ StartRun(<<>>, FALSE) /\ UNCHANGED queues
           \/ /\ Last(messages).role = "assistant" /\ steering.got # <<>>
              /\ StartRun(steering.got, TRUE)
              /\ steeringQueue' = steering.left /\ UNCHANGED followUpQueue
           \/ /\ Last(messages).role = "assistant" /\ steering.got = <<>> /\ followUp.got # <<>>
              /\ StartRun(followUp.got, FALSE)
              /\ followUpQueue' = followUp.left /\ UNCHANGED steeringQueue
        /\ UNCHANGED owner

Steer ==
    /\ NewInput("steer") /\ steeringQueue' = Append(steeringQueue, NextInput)
    /\ UNCHANGED <<messages, isStreaming, followUpQueue, controller, runs, dropped, threw>>

FollowUp ==
    /\ NewInput("followUp") /\ followUpQueue' = Append(followUpQueue, NextInput)
    /\ UNCHANGED <<messages, isStreaming, steeringQueue, controller, runs, dropped, threw>>

InputsOf(seq) == {seq[i].id : i \in {i \in DOMAIN seq : seq[i].role = "user"}}

\* clearAllQueues
ClearAllQueues ==
    /\ steeringQueue # <<>> \/ followUpQueue # <<>>
    /\ dropped' = dropped \cup InputsOf(steeringQueue) \cup InputsOf(followUpQueue)
    /\ steeringQueue' = <<>> /\ followUpQueue' = <<>>
    /\ UNCHANGED <<messages, isStreaming, controller, runs, inputs, threw>>

Abort ==
    /\ controller # 0 /\ ~runs[controller].aborted
    /\ runs' = [runs EXCEPT ![controller].aborted = TRUE]
    /\ UNCHANGED <<messages, isStreaming, queues, controller, owner>>

\* reset(), which AgentSession.newSession calls once the agent is idle.
Reset ==
    /\ Active = {} /\ messages # <<>>
    /\ dropped' = dropped \cup InputsOf(messages \o steeringQueue \o followUpQueue)
    /\ messages' = <<>> /\ isStreaming' = FALSE
    /\ steeringQueue' = <<>> /\ followUpQueue' = <<>>
    /\ threw' = FALSE
    /\ UNCHANGED <<controller, runs, inputs>>

\* AgentSession removes a failed answer before it continues.
DropFailed ==
    /\ Active = {} /\ messages # <<>> /\ Last(messages).failed
    /\ messages' = Front(messages)
    /\ UNCHANGED <<isStreaming, queues, controller, runs, owner>>

-----------------------------------------------------------------------------
(* The loop *)

\* What a run emits as message_end goes to the state; its own copy is updated by
\* the caller.
Emit(ms) == messages' = messages \o ms

\* Messages taken from a queue are emitted and the model is asked.
Inject(r, got, run) ==
    /\ Emit(got)
    /\ runs' = [runs EXCEPT ![r] = [run EXCEPT !.phase = "request", !.context = @ \o got]]

\* getSteeringMessages, at the start and after every turn.
PollSteering(r) ==
    LET steering == Taken(steeringQueue, SteeringMode)
        skip == runs[r].skipPoll
        got == IF skip THEN <<>> ELSE steering.got
        run == [runs[r] EXCEPT !.skipPoll = FALSE]
    IN  /\ runs[r].phase = "poll"
        /\ steeringQueue' = IF skip THEN steeringQueue ELSE steering.left
        /\ IF run.more \/ got # <<>>
             THEN Inject(r, got, run)
             ELSE /\ runs' = [runs EXCEPT ![r] = [run EXCEPT !.phase = "followUps"]]
                  /\ UNCHANGED messages
        /\ UNCHANGED <<isStreaming, followUpQueue, controller, owner>>

\* Mutant: the agent says that it stops before it looks at the queue.
PollFollowUps_Idle(r) ==
    LET followUp == Taken(followUpQueue, FollowUpMode)
    IN  /\ runs[r].phase = "followUps"
        /\ followUpQueue' = followUp.left
        /\ isStreaming' = FALSE
        /\ \/ followUp.got # <<>> /\ Inject(r, followUp.got, runs[r])
           \/ /\ followUp.got = <<>>
              /\ runs' = [runs EXCEPT ![r].phase = "ended"]
              /\ UNCHANGED messages
        /\ UNCHANGED <<steeringQueue, controller, owner>>

\* getFollowUpMessages when the agent would stop; agent_end if there is none.
PollFollowUps(r) ==
    LET followUp == Taken(followUpQueue, FollowUpMode)
    IN  /\ runs[r].phase = "followUps"
        /\ followUpQueue' = followUp.left
        /\ \/ /\ followUp.got # <<>>
              /\ Inject(r, followUp.got, runs[r])
              /\ UNCHANGED isStreaming
           \/ /\ followUp.got = <<>>
              /\ runs' = [runs EXCEPT ![r].phase = "ended"]
              /\ isStreaming' = FALSE
              /\ UNCHANGED messages
        /\ UNCHANGED <<steeringQueue, controller, owner>>

Sendable(r) == ValidTranscript(ConvertToLlm(runs[r].context))

UsedCalls == UNION {Ids(messages[i].calls) : i \in DOMAIN messages}
FreshCalls(n) == [k \in 1..n |-> Cardinality(UsedCalls) + k]
ToolTurns == Cardinality({i \in DOMAIN messages : messages[i].calls # <<>>})

\* The model answers.  A provider that finds its signal aborted does not answer
\* normally.
Reply(r, n) ==
    LET answer == Assistant(FreshCalls(n))
    IN  /\ runs[r].phase = "request" /\ Sendable(r) /\ ~runs[r].aborted
        /\ n > 0 => ToolTurns < MaxToolTurns
        /\ Emit(<<answer>>)
        /\ runs' = [runs EXCEPT ![r].context = Append(@, answer), ![r].more = n > 0,
                                ![r].calls = FreshCalls(n), ![r].results = <<>>,
                                ![r].phase = IF n > 0 THEN "tools" ELSE "poll"]
        /\ UNCHANGED <<isStreaming, queues, controller, owner>>

\* The answer ends with "error" or "aborted", or the transcript is refused: the
\* run stops, whatever is queued.
ReplyFailed(r, n) ==
    /\ runs[r].phase = "request"
    /\ n > 0 => Sendable(r) /\ ToolTurns < MaxToolTurns
    /\ Emit(<<FailedAssistant(FreshCalls(n))>>)
    /\ runs' = [runs EXCEPT ![r].phase = "ended"]
    /\ isStreaming' = FALSE
    /\ UNCHANGED <<queues, controller, owner>>

\* convertToLlm, getApiKey or the stream throws: the catch block of _runLoop.
RequestThrows(r) ==
    /\ runs[r].phase = "request"
    /\ Emit(<<FailedAssistant(<<>>)>>)
    /\ runs' = [runs EXCEPT ![r].phase = "ended"]
    /\ UNCHANGED <<isStreaming, queues, controller, owner>>

\* One call is prepared.  An unknown tool, invalid arguments and a blocking hook
\* give an error result at once; otherwise the call runs now (sequential) or with
\* the others by the scheduler (parallel).
PrepareCall(r, prepared) ==
    LET call == Head(runs[r].calls)
        waits == prepared /\ toolExecution = "parallel"
    IN  /\ runs[r].phase = "tools" /\ runs[r].calls # <<>>
        /\ IF waits
             THEN /\ runs' = [runs EXCEPT ![r].calls = Tail(@), ![r].runnable = Append(@, call)]
                  /\ UNCHANGED messages
             ELSE /\ runs' = [runs EXCEPT ![r].calls = Tail(@), ![r].results = Append(@, ToolResult(call))]
                  /\ Emit(<<ToolResult(call)>>)
        /\ UNCHANGED <<isStreaming, queues, controller, owner>>

\* The scheduler returns the outcomes in the order of its calls (module
\* ToolBatch); they are finalized one after the other.
FinalizeCall(r) ==
    LET call == Head(runs[r].runnable)
    IN  /\ runs[r].phase = "tools" /\ runs[r].calls = <<>> /\ runs[r].runnable # <<>>
        /\ runs' = [runs EXCEPT ![r].runnable = Tail(@), ![r].results = Append(@, ToolResult(call))]
        /\ Emit(<<ToolResult(call)>>)
        /\ UNCHANGED <<isStreaming, queues, controller, owner>>

\* afterToolCall throws: the call gets an error result, and the loop gives up.
FinalizeThrows(r) ==
    LET waiting == IF toolExecution = "parallel" THEN runs[r].runnable ELSE runs[r].calls
    IN  /\ HooksThrow /\ runs[r].phase = "tools" /\ waiting # <<>>
        /\ toolExecution = "parallel" => runs[r].calls = <<>>
        /\ Emit(<<ToolResult(Head(waiting)), FailedAssistant(<<>>)>>)
        /\ runs' = [runs EXCEPT ![r].phase = "ended"]
        /\ threw' = TRUE
        /\ UNCHANGED <<isStreaming, queues, controller, inputs, dropped>>

\* Mutants: the results do not join the loop's copy; the turn ends before the
\* scheduled calls do.
EndTools_Forgets(r) ==
    /\ runs[r].phase = "tools" /\ runs[r].calls = <<>> /\ runs[r].runnable = <<>>
    /\ runs' = [runs EXCEPT ![r].phase = "poll"]
    /\ UNCHANGED <<messages, isStreaming, queues, controller, owner>>
EndTools_NotAwaited(r) ==
    /\ runs[r].phase = "tools" /\ runs[r].calls = <<>>
    /\ runs' = [runs EXCEPT ![r].context = @ \o runs[r].results, ![r].phase = "poll"]
    /\ UNCHANGED <<messages, isStreaming, queues, controller, owner>>

\* All results are there: they join the loop's copy and the turn ends.
EndTools(r) ==
    /\ runs[r].phase = "tools" /\ runs[r].calls = <<>> /\ runs[r].runnable = <<>>
    /\ runs' = [runs EXCEPT ![r].context = @ \o runs[r].results, ![r].phase = "poll"]
    /\ UNCHANGED <<messages, isStreaming, queues, controller, owner>>

\* Mutant: a run that threw is not cleaned up.
Finally_NotAfterThrow(r) ==
    /\ runs[r].phase = "ended" /\ ~isStreaming
    /\ runs' = [runs EXCEPT ![r] = NoRun]
    /\ isStreaming' = FALSE /\ controller' = 0
    /\ UNCHANGED <<messages, queues, owner>>

\* The finally block of _runLoop.
Finally(r) ==
    /\ runs[r].phase = "ended"
    /\ runs' = [runs EXCEPT ![r] = NoRun]
    /\ isStreaming' = FALSE /\ controller' = 0
    /\ UNCHANGED <<messages, queues, owner>>

RunStep(r) ==
    /\ UNCHANGED toolExecution
    /\ \/ PollSteering(r) \/ PollFollowUps(r)
       \/ RequestThrows(r)
       \/ \E n \in 0..MaxCalls : Reply(r, n) \/ ReplyFailed(r, n)
       \/ \E prepared \in BOOLEAN : PrepareCall(r, prepared)
       \/ FinalizeCall(r) \/ FinalizeThrows(r) \/ EndTools(r)
       \/ Finally(r)

OwnerStep ==
    /\ UNCHANGED toolExecution
    /\ \/ Prompt \/ Continue \/ Steer \/ FollowUp \/ ClearAllQueues
       \/ Abort \/ Reset \/ DropFailed

AgentNext == OwnerStep \/ \E r \in RunIds : RunStep(r)

AgentSpec == AgentInit /\ [][AgentNext]_vars

\* The promises a run awaits are settled: providers answer or fail, tools return.
FairAgentSpec == AgentSpec /\ \A r \in RunIds : WF_vars(RunStep(r))

-----------------------------------------------------------------------------
\* Type invariant: the abort controller, if there is one, is that of a live run,
\* and the queues hold user messages.
TypeOK ==
    /\ isStreaming \in BOOLEAN /\ controller \in Active \cup {0}
    /\ \A q \in {steeringQueue, followUpQueue} : \A i \in DOMAIN q : q[i] \in {Input(k) : k \in DOMAIN inputs}
    /\ \A r \in RunIds : runs[r].phase \in {"none", "poll", "followUps", "request", "tools", "ended"}

\* The loop's copy of the conversation and agent.state.messages, which the events
\* build, are the same whenever the model is asked.
LoopSeesState == \A r \in RunIds : runs[r].phase = "request" => runs[r].context = messages

\* No sequence of prompts, steering, aborts, failures and continuations brings a
\* run to a request that the transcript validation refuses, unless afterToolCall
\* threw and left calls of its turn unanswered.
RequestsAreSendable ==
    \A r \in RunIds : runs[r].phase = "request" /\ ~threw => Sendable(r)

\* Every user message is in exactly one place, once: a queue, the conversation,
\* or explicitly dropped.
Occurrences(k) ==
    LET in(seq) == Cardinality({i \in DOMAIN seq : seq[i] = Input(k)})
    IN  in(messages) + in(steeringQueue) + in(followUpQueue) + (IF k \in dropped THEN 1 ELSE 0)
InputsConserved == \A k \in DOMAIN inputs : Occurrences(k) = 1

\* Messages given the same way reach the conversation in the order they were given.
DeliveredInOrder ==
    \A i, j \in DOMAIN messages :
        LET a == messages[i]
            b == messages[j]
        IN  (i < j /\ a.role = "user" /\ b.role = "user" /\ inputs[a.id] = inputs[b.id])
                => a.id < b.id

\* "Agent is already processing a prompt": while a run is under way the agent says
\* so, and no other run can start.
StreamingWhileRunning ==
    \A r \in RunIds : runs[r].phase \notin {"none", "ended"} => isStreaming /\ controller = r

\* agent-loop.ts, line 498: the results of a turn "are presented in the original
\* canonical call order".  With sequential execution they are also emitted so.
ResultsInCallOrder ==
    toolExecution = "sequential" => \A i, j \in DOMAIN messages :
        (i < j /\ messages[i].role = "toolResult" /\ messages[j].role = "toolResult")
            => messages[i].id < messages[j].id

\* What users say and what tools answer is queued, arrives once, and in order.
ConversationInOrder == TypeOK /\ InputsConserved /\ DeliveredInOrder /\ ResultsInCallOrder

\* Every run ends, and with it the time in which prompts are refused.
RunsEnd == \A r \in RunIds : runs[r].phase # "none" ~> runs[r].phase = "none"
=============================================================================
