----------------------------- MODULE Transcript -----------------------------
(***************************************************************************)
(* The conversation sent to a model, and what the code says about its tool *)
(* calls:                                                                  *)
(*   packages/ai/src/utils/transcript-validation.ts                        *)
(*   packages/coding-agent/src/core/messages.ts (convertToLlm)             *)
(*   packages/coding-agent/src/core/session-manager.ts (the trim at the    *)
(*   end of buildSessionContext).                                          *)
(*                                                                         *)
(* A message keeps its role, the ids of its tool calls, whether it stopped *)
(* with "error" or "aborted", and the id a tool result answers.  The loops *)
(* of the code are step operators, folded over a transcript here and taken *)
(* one message at a time by module TranscriptCheck.                        *)
(***************************************************************************)
EXTENDS Integers, Sequences, SequencesExt

\* Call ids are numbers; an id that is missing, empty or blank is 0.
Blank == 0

Roles == {"user", "assistant", "toolResult", "session", "hidden"}
AnyMessage == [role : Roles, calls : Seq(Nat), failed : BOOLEAN, id : Nat]

Message(role, calls, failed, id) ==
    [role |-> role, calls |-> calls, failed |-> failed, id |-> id]

User == Message("user", <<>>, FALSE, Blank)
Assistant(calls) == Message("assistant", calls, FALSE, Blank)
FailedAssistant(calls) == Message("assistant", calls, TRUE, Blank)
ToolResult(id) == Message("toolResult", <<>>, FALSE, id)
\* bashExecution, custom, branchSummary, compactionSummary and memoryContext
\* are the session's own roles; only convertToLlm turns them into user messages.
SessionMessage == Message("session", <<>>, FALSE, Blank)
\* A bashExecution with excludeFromContext.
HiddenMessage == Message("hidden", <<>>, FALSE, Blank)

-----------------------------------------------------------------------------
(* validateChatCompletionsTranscript and validateResponsesTranscript, whose *)
(* loops are the same.  The lists of offending ids are sets.                *)

NoSpan == {}

ValidatorStart ==
    [span |-> NoSpan,         \* currentSpan.callIds: the calls not yet answered
     seenCalls |-> {}, seenResults |-> {},
     missing |-> {}, duplicateResults |-> {}, orphans |-> {}, duplicateCalls |-> {}]

Ids(calls) == {calls[k] : k \in DOMAIN calls}

\* The ids of an assistant's calls that were seen before, earlier in the
\* transcript or earlier in the same message.
Repeated(calls, seen) ==
    {calls[k] : k \in {k \in DOMAIN calls :
        /\ calls[k] # Blank
        /\ calls[k] \in seen \/ \E j \in DOMAIN calls : j < k /\ calls[j] = calls[k]}}

\* Mutant: the calls an assistant leaves unanswered are forgotten.
ValidateAssistant_NoFlush(v, calls) ==
    LET ids == Ids(calls) \ {Blank}
    IN  [v EXCEPT !.missing = @ \cup (Ids(calls) \cap {Blank}),
                  !.duplicateCalls = @ \cup Repeated(calls, v.seenCalls),
                  !.seenCalls = @ \cup ids,
                  !.span = IF calls # <<>> THEN ids ELSE @]

\* An assistant that did not fail: the unanswered calls of the open span are
\* missing; calls of its own open a new span, a text-only one keeps the old.
ValidateAssistant(v, calls) ==
    LET ids == Ids(calls) \ {Blank}
    IN  [v EXCEPT !.missing = @ \cup v.span \cup (Ids(calls) \cap {Blank}),
                  !.duplicateCalls = @ \cup Repeated(calls, v.seenCalls),
                  !.seenCalls = @ \cup ids,
                  !.span = IF calls # <<>> THEN ids ELSE @]

ValidateToolResult(v, id) ==
    IF id # Blank /\ id \in v.span
      THEN [v EXCEPT !.span = @ \ {id}, !.seenResults = @ \cup {id}]
    ELSE IF id # Blank /\ id \in v.seenResults
      THEN [v EXCEPT !.duplicateResults = @ \cup {id}]
    ELSE [v EXCEPT !.orphans = @ \cup {id}]

ValidateUser(v) == [v EXCEPT !.missing = @ \cup v.span, !.span = NoSpan]

ValidateMessage(v, m) ==
    CASE m.role = "assistant" /\ ~m.failed -> ValidateAssistant(v, m.calls)
      [] m.role = "toolResult" -> ValidateToolResult(v, m.id)
      [] m.role = "user" -> ValidateUser(v)
      [] OTHER -> v

\* The verdict after the last message: the open span is flushed.
ValidatorAccepts(v) ==
    /\ v.missing \cup v.span = {}
    /\ v.duplicateResults = {} /\ v.orphans = {} /\ v.duplicateCalls = {}

ValidTranscript(t) == ValidatorAccepts(FoldLeft(ValidateMessage, ValidatorStart, t))

-----------------------------------------------------------------------------
(* validateToolSpanIntegrity *)

SpanStart == [pending |-> {}, missing |-> {}, orphans |-> {}]

\* Mutant: assistants that failed open a span too.
SpanMessage_CountsFailed(s, m) ==
    CASE m.role = "assistant" ->
           [s EXCEPT !.missing = @ \cup s.pending, !.pending = Ids(m.calls) \ {Blank}]
      [] m.role = "toolResult" ->
           IF m.id \in s.pending THEN [s EXCEPT !.pending = @ \ {m.id}]
                                 ELSE [s EXCEPT !.orphans = @ \cup {m.id}]
      [] m.role = "user" -> [s EXCEPT !.missing = @ \cup s.pending, !.pending = {}]
      [] OTHER -> s

SpanMessage(s, m) ==
    CASE m.role = "assistant" /\ ~m.failed ->
           [s EXCEPT !.missing = @ \cup s.pending, !.pending = Ids(m.calls) \ {Blank}]
      [] m.role = "toolResult" ->
           IF m.id \in s.pending THEN [s EXCEPT !.pending = @ \ {m.id}]
                                 ELSE [s EXCEPT !.orphans = @ \cup {m.id}]
      [] m.role = "user" -> [s EXCEPT !.missing = @ \cup s.pending, !.pending = {}]
      [] OTHER -> s

SpanEnd(s) == [missing |-> s.missing \cup s.pending, orphans |-> s.orphans]

SpanCheck(t) == SpanEnd(FoldLeft(SpanMessage, SpanStart, t))

SpanValid(c) == c.missing = {} /\ c.orphans = {}

-----------------------------------------------------------------------------
(* convertToLlm, and the trim of buildSessionContext *)

\* What the flatMap of convertToLlm appends for m: every role of the session becomes a
\* user message, hidden ones disappear.
ConvertMessage(converted, m) ==
    CASE m.role = "hidden" -> converted
      [] m.role = "session" -> Append(converted, User)
      [] OTHER -> Append(converted, m)

ConvertToLlm(t) == FoldLeft(ConvertMessage, <<>>, t)

\* Mutants: only the very last message is looked at; an assistant counts as bad
\* because it has calls.
LastBadAssistant_OnlyLast(t, check) ==
    IF t # <<>> /\ Ids(t[Len(t)].calls) \cap check.missing # {} THEN Len(t) ELSE 0
LastBadAssistant_AnyCalls(t, check) ==
    LET bad == {i \in DOMAIN t : t[i].role = "assistant" /\ t[i].calls # <<>>}
    IN  IF bad = {} THEN 0 ELSE CHOOSE i \in bad : \A j \in bad : j <= i

\* The last assistant, failed or not, with a call the check found missing; 0 if none.
LastBadAssistant(t, check) ==
    LET bad == {i \in DOMAIN t : /\ t[i].role = "assistant"
                                 /\ Ids(t[i].calls) \cap check.missing # {}}
    IN  IF bad = {} THEN 0 ELSE CHOOSE i \in bad : \A j \in bad : j <= i

\* That assistant is removed, with the results after it that the check calls
\* orphans.
TrimUnresolved(t) ==
    LET check == SpanCheck(t)
        last == LastBadAssistant(t, check)
        removed == {last} \cup {i \in DOMAIN t : /\ i > last
                                                 /\ t[i].role = "toolResult"
                                                 /\ t[i].id \in check.orphans}
        kept[n \in 0..Len(t)] ==
            IF n = 0 THEN <<>>
            ELSE IF n \in removed THEN kept[n - 1] ELSE Append(kept[n - 1], t[n])
    IN  IF check.missing = {} \/ last = 0 THEN t ELSE kept[Len(t)]

-----------------------------------------------------------------------------
(* The reference: what a well-formed tool transcript is, without a loop. *)

Counts(m) == m.role = "assistant" /\ ~m.failed

\* Nothing between positions i and r ends the span that starts at i.
SameSpan(t, i, r) ==
    /\ i < r
    /\ \A k \in (i + 1)..(r - 1) : ~Counts(t[k]) /\ t[k].role # "user"

\* Result r answers the call with that id of assistant i.
Answers(t, r, i) ==
    /\ t[r].role = "toolResult"
    /\ Counts(t[i])
    /\ t[r].id \in Ids(t[i].calls)
    /\ SameSpan(t, i, r)

WellFormed(t) ==
    LET callers == {i \in DOMAIN t : Counts(t[i])}
        results == {r \in DOMAIN t : t[r].role = "toolResult"}
    IN  \* no blank id, and no id is used for two calls
        /\ \A i \in callers : \A k \in DOMAIN t[i].calls :
             /\ t[i].calls[k] # Blank
             /\ \A j \in callers : \A l \in DOMAIN t[j].calls :
                  t[i].calls[k] = t[j].calls[l] => i = j /\ k = l
        \* every result answers a call before it in the same span
        /\ \A r \in results : t[r].id # Blank /\ \E i \in callers : Answers(t, r, i)
        \* every call has exactly one result
        /\ \A i \in callers : \A id \in Ids(t[i].calls) :
             \E r \in results :
               /\ t[r].id = id /\ Answers(t, r, i)
               /\ \A q \in results : t[q].id = id => q = r
=============================================================================
