--------------------------- MODULE ExecutionRecord ---------------------------
(***************************************************************************)
(* packages/coding-agent/src/core/long-horizon/execution-state-machine.ts: *)
(* the record of a mission's execution, which only grows by transitions,   *)
(* and the validation that replays its history before a record read from a *)
(* file is used.                                                           *)
(*                                                                         *)
(* A request names a transition id, the revision the caller has seen and a *)
(* kind; the trusted context that completion needs is there or not.        *)
(***************************************************************************)
EXTENDS Integers, Sequences, SequencesExt

CONSTANT MaxTransitions    \* bound on the history

ASSUME ExecutionAssumption == MaxTransitions \in Nat

VARIABLE execution    \* MissionExecutionRecordV1

None == "none"        \* an absent blockedFromState, or no destination

RESUMABLE_STATES == {"PLANNING", "EXECUTION", "VERIFICATION", "COMPLETION_REVIEW"}
TERMINAL_STATES == {"COMPLETED", "FAILED", "CANCELLED"}

Kinds == {"START_EXECUTION", "REQUEST_VERIFICATION", "RETURN_TO_EXECUTION",
          "REQUEST_COMPLETION_REVIEW", "RETURN_TO_VERIFICATION", "APPROVE_COMPLETION",
          "BLOCK", "RESUME", "FAIL", "CANCEL"}

\* Mutant: completion may be approved without a review.
TRANSITION_GRAPH_NoReview ==
    [PLANNING |-> [START_EXECUTION |-> "EXECUTION",
                   BLOCK |-> "BLOCKED", FAIL |-> "FAILED", CANCEL |-> "CANCELLED"],
     EXECUTION |-> [REQUEST_VERIFICATION |-> "VERIFICATION",
                    BLOCK |-> "BLOCKED", FAIL |-> "FAILED", CANCEL |-> "CANCELLED"],
     VERIFICATION |-> [RETURN_TO_EXECUTION |-> "EXECUTION", APPROVE_COMPLETION |-> "COMPLETED",
                       REQUEST_COMPLETION_REVIEW |-> "COMPLETION_REVIEW",
                       BLOCK |-> "BLOCKED", FAIL |-> "FAILED", CANCEL |-> "CANCELLED"],
     COMPLETION_REVIEW |-> [APPROVE_COMPLETION |-> "COMPLETED",
                            BLOCK |-> "BLOCKED", FAIL |-> "FAILED", CANCEL |-> "CANCELLED"],
     BLOCKED |-> [RESUME |-> "BLOCKED", FAIL |-> "FAILED", CANCEL |-> "CANCELLED"],
     COMPLETED |-> <<>>, FAILED |-> <<>>, CANCELLED |-> <<>>]

\* TRANSITION_GRAPH; RESUME is decided by blockedFromState.
TRANSITION_GRAPH ==
    [PLANNING |-> [START_EXECUTION |-> "EXECUTION",
                   BLOCK |-> "BLOCKED", FAIL |-> "FAILED", CANCEL |-> "CANCELLED"],
     EXECUTION |-> [REQUEST_VERIFICATION |-> "VERIFICATION",
                    BLOCK |-> "BLOCKED", FAIL |-> "FAILED", CANCEL |-> "CANCELLED"],
     VERIFICATION |-> [RETURN_TO_EXECUTION |-> "EXECUTION",
                       REQUEST_COMPLETION_REVIEW |-> "COMPLETION_REVIEW",
                       BLOCK |-> "BLOCKED", FAIL |-> "FAILED", CANCEL |-> "CANCELLED"],
     COMPLETION_REVIEW |-> [RETURN_TO_EXECUTION |-> "EXECUTION",
                            RETURN_TO_VERIFICATION |-> "VERIFICATION",
                            APPROVE_COMPLETION |-> "COMPLETED",
                            BLOCK |-> "BLOCKED", FAIL |-> "FAILED", CANCEL |-> "CANCELLED"],
     BLOCKED |-> [RESUME |-> "BLOCKED", FAIL |-> "FAILED", CANCEL |-> "CANCELLED"],
     COMPLETED |-> <<>>, FAILED |-> <<>>, CANCELLED |-> <<>>]

GraphTarget(state, kind) ==
    IF kind \in DOMAIN TRANSITION_GRAPH[state] THEN TRANSITION_GRAPH[state][kind] ELSE None

Transition(id, kind, from, to, before) ==
    [transitionId |-> id, kind |-> kind, fromState |-> from, toState |-> to,
     revisionBefore |-> before, revisionAfter |-> before + 1]

-----------------------------------------------------------------------------
(* applyMissionExecutionTransition *)

\* Mutant: a mission resumes in execution.
Destination_Executes(record, kind) ==
    IF kind = "RESUME"
      THEN IF record.state = "BLOCKED" THEN "EXECUTION" ELSE None
      ELSE GraphTarget(record.state, kind)

\* The state a kind leads to, None where the request is refused.
Destination(record, kind) ==
    IF kind = "RESUME"
      THEN IF record.state = "BLOCKED" /\ record.blockedFromState \in RESUMABLE_STATES
             THEN record.blockedFromState ELSE None
      ELSE GraphTarget(record.state, kind)

Accepts(record, id, expectedRevision, kind, trusted) ==
    LET to == Destination(record, kind)
    IN  /\ expectedRevision = record.revision
        /\ record.state \notin TERMINAL_STATES
        /\ to \notin {None, record.state}
        /\ to = "COMPLETED" => trusted
        /\ \A i \in DOMAIN record.transitions : record.transitions[i].transitionId # id

\* Mutant: the state blocked from is kept through every transition.
Applied_KeepsBlocked(record, id, kind) ==
    LET to == Destination(record, kind)
    IN  [revision |-> record.revision + 1, state |-> to,
         blockedFromState |-> IF kind = "BLOCK" THEN record.state ELSE record.blockedFromState,
         transitions |-> Append(record.transitions,
                                Transition(id, kind, record.state, to, record.revision))]

Applied(record, id, kind) ==
    LET to == Destination(record, kind)
    IN  [revision |-> record.revision + 1, state |-> to,
         blockedFromState |->
             IF kind = "BLOCK" /\ record.state \in RESUMABLE_STATES THEN record.state ELSE None,
         transitions |-> Append(record.transitions,
                                Transition(id, kind, record.state, to, record.revision))]

-----------------------------------------------------------------------------
(* validateMissionExecutionRecord *)

\* replayExecutionHistory, one transition; ok stays FALSE once it is.
ReplayTransition(run, t) ==
    LET target == CASE t.kind = "RESUME" ->
                         IF run.state = "BLOCKED" THEN run.blockedFromState ELSE None
                    [] t.kind = "BLOCK" -> IF run.state \in RESUMABLE_STATES THEN t.toState ELSE None
                    [] OTHER -> GraphTarget(run.state, t.kind)
    IN  [ok |-> /\ run.ok /\ t.fromState = run.state
                /\ target # None /\ t.toState = target
                /\ t.fromState # t.toState
                /\ run.state \notin TERMINAL_STATES,
         state |-> t.toState,
         blockedFromState |-> CASE t.kind = "RESUME" -> None
                                [] t.kind = "BLOCK" -> run.state
                                [] OTHER -> run.blockedFromState]

Replay(transitions) ==
    FoldLeft(ReplayTransition, [ok |-> TRUE, state |-> "PLANNING", blockedFromState |-> None], transitions)

RecordIsValid(record) ==
    LET ts == record.transitions
        replayed == Replay(ts)
    IN  /\ \A i \in DOMAIN ts :
              /\ ts[i].revisionBefore = i - 1 /\ ts[i].revisionAfter = i
              /\ \A j \in DOMAIN ts : ts[i].transitionId = ts[j].transitionId => i = j
        /\ replayed.ok /\ record.state = replayed.state
        /\ IF record.state = "BLOCKED"
             THEN record.blockedFromState = replayed.blockedFromState /\ record.blockedFromState # None
             ELSE record.blockedFromState = None
        /\ record.revision = Len(ts)

-----------------------------------------------------------------------------
ExecutionInit ==
    execution = [revision |-> 0, state |-> "PLANNING", blockedFromState |-> None, transitions |-> <<>>]

\* A transition is requested: with the revision the caller has seen, which may be
\* an old one, and an id that may have been used (ids are numbers; a new one is the
\* next).
ApplyTransition(id, expectedRevision, kind, trusted) ==
    /\ execution.revision < MaxTransitions
    /\ Accepts(execution, id, expectedRevision, kind, trusted)
    /\ execution' = Applied(execution, id, kind)

ExecutionNext ==
    \E id \in 1..(Len(execution.transitions) + 1), expected \in 0..MaxTransitions,
       kind \in Kinds, trusted \in BOOLEAN :
        ApplyTransition(id, expected, kind, trusted)

ExecutionSpec == ExecutionInit /\ [][ExecutionNext]_execution

-----------------------------------------------------------------------------
\* What the transitions build, the validation accepts: applying and replaying, two
\* separate readings of the transition graph, agree on every history.
RecordReplays == RecordIsValid(execution)

\* The state before the last BLOCK of a history.
BlockedAt(ts) == ts[SelectLastInSeq(ts, LAMBDA t : t.kind = "BLOCK")].fromState

\* execution-state-machine.ts, line 647: "RESUME returns to the exact
\* blockedFromState".  Whatever phases were passed and however often the
\* mission was blocked, a resumed mission goes on in the phase it was interrupted in.
ResumesWhereBlocked ==
    [][ /\ Len(execution'.transitions) > Len(execution.transitions)
        /\ Last(execution'.transitions).kind = "RESUME"
        => execution'.state = BlockedAt(execution.transitions)]_execution

\* A mission that completed was executed, verified and reviewed, in this order and
\* without leaving the review other than to be blocked: no path of blocks, resumes
\* and returns skips a phase.
CompletedWasReviewed ==
    LET ts == execution.transitions
        entered(state) == {i \in DOMAIN ts : ts[i].toState = state}
    IN  execution.state = "COMPLETED" =>
            /\ \E e \in entered("EXECUTION"), v \in entered("VERIFICATION"),
                  r \in entered("COMPLETION_REVIEW") : e < v /\ v < r
            /\ ts[Len(ts)].fromState = "COMPLETION_REVIEW"

\* Both hold of every record that applyTransition builds.
ExecutionIsSound == RecordReplays /\ CompletedWasReviewed
=============================================================================
