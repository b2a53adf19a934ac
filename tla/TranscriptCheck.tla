-------------------------- MODULE TranscriptCheck --------------------------
(***************************************************************************)
(* The validators read a transcript message by message.  A behaviour of    *)
(* this module is one run of their loops on some transcript of at most     *)
(* MaxLength messages; every state is the end of the run on the transcript *)
(* read so far.                                                            *)
(***************************************************************************)
EXTENDS Transcript

CONSTANTS Messages,   \* the messages transcripts are made of
          MaxLength   \* bound on the length of a transcript

ASSUME LengthAssumption == MaxLength \in Nat

ASSUME MessagesAssumption == Messages \subseteq AnyMessage

VARIABLES
    transcript,   \* what was read
    validator,    \* local variables of the validator's loop
    spanCheck     \* local variables of validateToolSpanIntegrity's loop

checkVars == <<transcript, validator, spanCheck>>

CheckInit ==
    /\ transcript = <<>>
    /\ validator = ValidatorStart
    /\ spanCheck = SpanStart

ReadMessage(m) ==
    /\ Len(transcript) < MaxLength
    /\ transcript' = Append(transcript, m)
    /\ validator' = ValidateMessage(validator, m)
    /\ spanCheck' = SpanMessage(spanCheck, m)

CheckNext == \E m \in Messages : ReadMessage(m)

CheckSpec == CheckInit /\ [][CheckNext]_checkVars

-----------------------------------------------------------------------------
\* The validators accept exactly the well-formed transcripts: the incremental
\* span bookkeeping misses no missing, duplicate, orphaned or repeated id and
\* rejects nothing else.
AcceptsExactlyWellFormed == ValidatorAccepts(validator) <=> WellFormed(transcript)

\* On transcripts whose call ids are distinct, validateToolSpanIntegrity, which
\* decides what is trimmed on restore, agrees with the validator that decides
\* what may be sent.
SpanCheckAgrees ==
    LET distinct == validator.duplicateCalls = {}
        blank == Blank \in validator.missing \cup validator.orphans
    IN  distinct /\ ~blank =>
          (SpanValid(SpanEnd(spanCheck)) <=> ValidatorAccepts(validator))

\* What is sent and what is kept on restore are judged alike, and rightly.
ValidatorsAreExact == AcceptsExactlyWellFormed /\ SpanCheckAgrees
=============================================================================
