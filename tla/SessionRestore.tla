--------------------------- MODULE SessionRestore ---------------------------
(***************************************************************************)
(* A conversation that is persisted message by message and may stop at any *)
(* point: the process is killed, and the session is opened again.          *)
(*                                                                         *)
(* AgentSession appends every message to the session file when its         *)
(* message_end event is processed, so a killed process leaves a prefix of  *)
(* the conversation.  Opening the session rebuilds the agent's messages    *)
(* with buildSessionContext, which trims an assistant with unanswered      *)
(* calls from the messages but not from the file.  Before every request    *)
(* the agent loop validates the converted messages and answers with a      *)
(* failed assistant message when they are malformed.                       *)
(***************************************************************************)
EXTENDS Transcript, FiniteSets

CONSTANTS
    MaxMessages,   \* bound on the length of the session file
    MaxCalls       \* bound on the tool calls of one assistant message

ASSUME BoundsAssumption == MaxMessages \in Nat /\ MaxCalls \in Nat

VARIABLES
    file,       \* the messages of the session file, oldest first
    context,    \* agent.state.messages
    turn,       \* "idle", "request" (the model is asked next) or "tools"
    open        \* calls of the last assistant not yet answered

restoreVars == <<file, context, turn, open>>

\* Call ids are never reused: the next one is numbered after those in the file.
UsedCalls == UNION {Ids(file[i].calls) : i \in DOMAIN file}
FreshCalls(n) == [k \in 1..n |-> Cardinality(UsedCalls) + k]

RestoreInit ==
    /\ file = <<>> /\ context = <<>> /\ turn = "idle" /\ open = <<>>

Say(m) ==
    /\ Len(file) < MaxMessages
    /\ file' = Append(file, m)
    /\ context' = Append(context, m)

\* The user prompts an idle agent.
Prompt ==
    /\ turn = "idle"
    /\ Say(User)
    /\ turn' = "request" /\ UNCHANGED open

\* The model answers a request, with n tool calls.
Reply(n) ==
    /\ turn = "request"
    /\ ValidTranscript(ConvertToLlm(context))
    /\ Say(Assistant(FreshCalls(n)))
    /\ open' = FreshCalls(n)
    /\ turn' = IF n = 0 THEN "idle" ELSE "tools"

\* validateTranscriptForModel refuses the request, or the provider fails.
ReplyFailed ==
    /\ turn = "request"
    /\ Say(FailedAssistant(<<>>))
    /\ turn' = "idle" /\ UNCHANGED open

\* One tool result; the model is asked again after the last one.
Answer ==
    /\ turn = "tools"
    /\ Say(ToolResult(Head(open)))
    /\ open' = Tail(open)
    /\ turn' = IF Len(open) = 1 THEN "request" ELSE "tools"

\* The process dies and the session is opened again.
Restart ==
    /\ context' = TrimUnresolved(file)
    /\ turn' = "idle" /\ open' = <<>>
    /\ UNCHANGED file

RestoreNext == Prompt \/ (\E n \in 0..MaxCalls : Reply(n)) \/ ReplyFailed \/ Answer \/ Restart

RestoreSpec == RestoreInit /\ [][RestoreNext]_restoreVars

-----------------------------------------------------------------------------
\* The positions of assistants some of whose calls have no result.
Unresolved ==
    {i \in DOMAIN file : \E id \in Ids(file[i].calls) :
        ~\E r \in DOMAIN file : file[r].role = "toolResult" /\ file[r].id = id}

AnyAnswered(i) ==
    \E r \in DOMAIN file : file[r].role = "toolResult" /\ file[r].id \in Ids(file[i].calls)

\* The trim of buildSessionContext repairs a session whose only damage is one
\* assistant none of whose calls was answered before the process died, whatever
\* was said afterwards: the rebuilt messages can be sent.
RestoreRepairsUnansweredTurn ==
    (Cardinality(Unresolved) <= 1 /\ \A i \in Unresolved : ~AnyAnswered(i)) =>
        ValidTranscript(ConvertToLlm(TrimUnresolved(file)))

\* The turns in progress: an assistant whose calls are all answered survives
\* every restore, with its results.
RestoreKeepsAnsweredTurns ==
    LET kept == TrimUnresolved(file)
    IN  \A i \in {i \in DOMAIN file : Counts(file[i])} \ Unresolved :
          /\ \E j \in DOMAIN kept : kept[j] = file[i]
          /\ \A id \in Ids(file[i].calls) : \E r \in DOMAIN kept : kept[r] = ToolResult(id)

\* A restore removes what the model would refuse and nothing that was complete.
RestoreTrimsExactly == RestoreRepairsUnansweredTurn /\ RestoreKeepsAnsweredTurns

\* session-manager.ts, line 453: the messages are trimmed "so the agent loop
\* doesn't send a malformed transcript".
RestoredRequestsAreSendable ==
    turn = "request" => ValidTranscript(ConvertToLlm(context))
=============================================================================
