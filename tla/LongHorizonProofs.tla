------------------------- MODULE LongHorizonProofs -------------------------
(***************************************************************************)
(* The histories of the long-horizon execution: whatever transitions,      *)
(* commands and mutations are accepted, what they leave in the files is    *)
(* accepted by the validation that replays it.                             *)
(***************************************************************************)
EXTENDS ExecutionRecord, Continuation, RequirementLedger, TranscriptProofs, FiniteSetTheorems

-----------------------------------------------------------------------------
(* Replaying one step more *)

\* Two loops that start alike and do the same with each element are alike.
LEMMA LoopsAlike ==
    ASSUME NEW n \in Nat, NEW f, NEW g, f[1..0] = g[1..0],
           \A k \in 1..n : f[1..(k - 1)] = g[1..(k - 1)] => f[1..k] = g[1..k]
    PROVE  f[1..n] = g[1..n]
<1> DEFINE P == {k \in Nat : k <= n => f[1..k] = g[1..k]}
<1>1. 0 \in P
  OBVIOUS
<1>2. ASSUME NEW k \in P PROVE k + 1 \in P
  <2> DEFINE j == k + 1
  <2>1. j \in Nat /\ j - 1 = k /\ k \in Nat /\ (j <= n => j \in 1..n /\ k <= n)
    OBVIOUS
  <2>2. j <= n => f[1..k] = g[1..k]
    BY <2>1
  <2> HIDE DEF j
  <2>3. j <= n => f[1..j] = g[1..j]
    BY <2>1, <2>2
  <2> QED
    BY <2>1, <2>3 DEF j
<1>3. P \in SUBSET Nat
  OBVIOUS
<1> HIDE DEF P
<1>4. P = Nat
  BY <1>1, <1>2, <1>3, Induction
<1> QED
  BY <1>4 DEF P

\* An execution record's transitions, and the states a replay of them passes.
States == RESUMABLE_STATES \cup {"BLOCKED"} \cup TERMINAL_STATES
Transitions == [transitionId : Nat, kind : Kinds, fromState : States, toState : States,
                revisionBefore : Nat, revisionAfter : Nat]
Runs == [ok : BOOLEAN, state : States, blockedFromState : States \cup {None}]
FreshRun == [ok |-> TRUE, state |-> "PLANNING", blockedFromState |-> None]

LEMMA ReplayStays ==
    ASSUME NEW run \in Runs, NEW t \in Transitions PROVE ReplayTransition(run, t) \in Runs
<1> DEFINE new == ReplayTransition(run, t)
<1>1. new.ok \in BOOLEAN
  BY DEF ReplayTransition
<1>2. new.state \in States /\ new.blockedFromState \in States \cup {None}
  BY DEF ReplayTransition, Runs, Transitions
<1> QED
  BY <1>1, <1>2 DEF ReplayTransition, Runs

\* The loop of replayExecutionHistory, as the values it has after each transition.
LEMMA ReplayLoop ==
    ASSUME NEW ts \in Seq(Transitions)
    PROVE  \E fold : /\ Replay(ts) = fold[1..Len(ts)] /\ fold[1..0] = FreshRun
                     /\ \A k \in 1..Len(ts) : fold[1..k] = ReplayTransition(fold[1..(k - 1)], ts[k])
<1> DEFINE n == Len(ts)
           step == [p \in Runs \X Transitions |-> ReplayTransition(p[1], p[2])]
           Equation(fold) ==
             fold = [s \in SUBSET DOMAIN ts |->
                       IF s = {} THEN FreshRun ELSE ReplayTransition(fold[s \ {Max(s)}], ts[Max(s)])]
           fold == CHOOSE fold : Equation(fold)
<1>1. Replay(ts) = fold[DOMAIN ts]
  BY DEF Replay, FoldLeft, MapThenFoldSet, FreshRun
<1>2. n \in Nat /\ DOMAIN ts = 1..n /\ \A k \in 1..n : ts[k] \in Transitions
  OBVIOUS
<1>3. \E g : Equation(g)
  <2>1. step \in [Runs \X Transitions -> Runs]
    <3> SUFFICES ASSUME NEW v \in Runs, NEW t \in Transitions PROVE ReplayTransition(v, t) \in Runs
      OBVIOUS
    <3> QED
      BY ReplayStays
  <2>2. FreshRun \in Runs
    BY DEF FreshRun, Runs, States, RESUMABLE_STATES
  <2>3. PICK g \in [SUBSET (1..n) -> Runs] : Folds(g, n, FreshRun, step, ts)
    <3> HIDE DEF step
    <3> QED
      BY <2>1, <2>2, FoldsExist DEF n
  <2>4. ASSUME NEW s \in SUBSET (1..n)
        PROVE  g[s] = IF s = {} THEN FreshRun ELSE ReplayTransition(g[s \ {Max(s)}], ts[Max(s)])
    <3>1. CASE s # {}
      <4>1. Max(s) \in s
        BY <1>2, <3>1, MaxOfPositions
      <4>2. ts[Max(s)] \in Transitions /\ s \ {Max(s)} \in SUBSET (1..n)
        BY <1>2, <4>1
      <4>3. g[s \ {Max(s)}] \in Runs
        BY <4>2
      <4>4. g[s] = step[g[s \ {Max(s)}], ts[Max(s)]]
        BY <2>3, <3>1 DEF Folds
      <4> QED
        BY <3>1, <4>2, <4>3, <4>4
    <3>2. CASE s = {}
      BY <2>3, <3>2 DEF Folds
    <3> QED
      BY <3>1, <3>2
  <2>5. Equation(g)
    BY <1>2, <2>4
  <2> QED
    BY <2>5
<1>4. Equation(fold)
  <2> HIDE DEF Equation
  <2> QED
    BY <1>3
<1> HIDE DEF fold, n
<1>5. fold[1..0] = FreshRun
  BY <1>2, <1>4
<1>6. ASSUME NEW k \in 1..n PROVE fold[1..k] = ReplayTransition(fold[1..(k - 1)], ts[k])
  <2>1. Max(1..k) = k /\ (1..k) \ {Max(1..k)} = 1..(k - 1) /\ 1..k \in SUBSET (1..n) /\ 1..k # {}
    BY <1>2, FoldsInOrder
  <2> QED
    BY <1>2, <1>4, <2>1
<1> QED
  BY <1>1, <1>2, <1>5, <1>6 DEF n

\* A transition that is added is replayed after those before it.
LEMMA ReplayOneMore ==
    ASSUME NEW ts \in Seq(Transitions), NEW t \in Transitions
    PROVE  /\ Replay(<<>>) = FreshRun
           /\ Replay(Append(ts, t)) = ReplayTransition(Replay(ts), t)
<1> DEFINE us == Append(ts, t)
           n == Len(ts)
<1>1. /\ us \in Seq(Transitions) /\ Len(us) = n + 1 /\ n \in Nat
      /\ us[n + 1] = t /\ \A k \in 1..n : us[k] = ts[k]
  OBVIOUS
<1> HIDE DEF us, n
<1>2. PICK f : /\ Replay(ts) = f[1..n] /\ f[1..0] = FreshRun
               /\ \A k \in 1..n : f[1..k] = ReplayTransition(f[1..(k - 1)], ts[k])
  BY ReplayLoop DEF n
<1>3. PICK g : /\ Replay(us) = g[1..(n + 1)] /\ g[1..0] = FreshRun
               /\ \A k \in 1..(n + 1) : g[1..k] = ReplayTransition(g[1..(k - 1)], us[k])
  <2>1. \E g : /\ Replay(us) = g[1..Len(us)] /\ g[1..0] = FreshRun
               /\ \A k \in 1..Len(us) : g[1..k] = ReplayTransition(g[1..(k - 1)], us[k])
    BY <1>1, ReplayLoop
  <2> QED
    BY <1>1, <2>1
<1>4. f[1..n] = g[1..n]
  <2>1. ASSUME NEW k \in 1..n, f[1..(k - 1)] = g[1..(k - 1)] PROVE f[1..k] = g[1..k]
    <3>1. k \in 1..(n + 1)
      BY <1>1
    <3> QED
      BY <1>1, <1>2, <1>3, <2>1, <3>1
  <2> QED
    BY <1>1, <1>2, <1>3, <2>1, LoopsAlike
<1>5. Replay(us) = ReplayTransition(Replay(ts), t)
  <2> DEFINE m == n + 1
  <2>1. m \in 1..(n + 1) /\ m - 1 = n
    BY <1>1
  <2> HIDE DEF m
  <2>2. g[1..m] = ReplayTransition(g[1..(m - 1)], us[m])
    BY <1>3, <2>1
  <2> QED
    BY <1>1, <1>2, <1>3, <1>4, <2>1, <2>2 DEF m
<1>6. Replay(<<>>) = FreshRun
  <2>1. <<>> \in Seq(Transitions) /\ Len(<<>>) = 0
    OBVIOUS
  <2> QED
    BY <2>1, ReplayLoop
<1> QED
  BY <1>5, <1>6 DEF us

-----------------------------------------------------------------------------
(* Execution records *)

\* The phase of a mission that is not at its end: blocked or not.
Phase(r) == IF r.state = "BLOCKED" THEN r.blockedFromState ELSE r.state

\* The phases that lie behind a history, in their order.
Executed(ts) == \E e \in DOMAIN ts : ts[e].toState = "EXECUTION"
Verified(ts) ==
    \E e, v \in DOMAIN ts : e < v /\ ts[e].toState = "EXECUTION" /\ ts[v].toState = "VERIFICATION"
Reviewed(ts) ==
    \E e, v, r \in DOMAIN ts :
        /\ e < v /\ v < r /\ ts[e].toState = "EXECUTION" /\ ts[v].toState = "VERIFICATION"
        /\ ts[r].toState = "COMPLETION_REVIEW"

RecordType(r) ==
    r \in [revision : Nat, state : States, blockedFromState : RESUMABLE_STATES \cup {None},
           transitions : Seq(Transitions)]

\* A mission in a phase has passed those before it.
PhaseInv(r) ==
    LET ts == r.transitions
    IN  /\ Phase(r) \in {"EXECUTION", "VERIFICATION", "COMPLETION_REVIEW"} => Executed(ts)
        /\ Phase(r) \in {"VERIFICATION", "COMPLETION_REVIEW"} => Verified(ts)
        /\ Phase(r) \in {"COMPLETION_REVIEW", "COMPLETED"} => Reviewed(ts)
        /\ r.state = "COMPLETED" => ts # <<>> /\ ts[Len(ts)].fromState = "COMPLETION_REVIEW"

\* A blocked mission was blocked by its last transition.
BlockInv(r) ==
    LET ts == r.transitions
    IN  /\ r.state = "BLOCKED" <=> r.blockedFromState # None
        /\ r.state = "BLOCKED" =>
             ts # <<>> /\ ts[Len(ts)].kind = "BLOCK" /\ ts[Len(ts)].fromState = r.blockedFromState

\* The transitions are numbered, and replaying them ends where the record is; the
\* replay alone keeps the state blocked from through an end.
NumberInv(r) ==
    LET ts == r.transitions
    IN  /\ r.revision = Len(ts)
        /\ \A i \in DOMAIN ts :
             /\ ts[i].revisionBefore = i - 1 /\ ts[i].revisionAfter = i
             /\ \A j \in DOMAIN ts : ts[i].transitionId = ts[j].transitionId => i = j

ReplayInv(r) ==
    LET run == Replay(r.transitions)
    IN  /\ run.ok /\ run.state = r.state
        /\ r.state \notin TERMINAL_STATES => run.blockedFromState = r.blockedFromState

RecordInv(r) == RecordType(r) /\ PhaseInv(r) /\ BlockInv(r) /\ NumberInv(r) /\ ReplayInv(r)

\* The edges of the transition graph.
Edges ==
    {<<"PLANNING", "START_EXECUTION", "EXECUTION">>,
     <<"EXECUTION", "REQUEST_VERIFICATION", "VERIFICATION">>,
     <<"VERIFICATION", "RETURN_TO_EXECUTION", "EXECUTION">>,
     <<"VERIFICATION", "REQUEST_COMPLETION_REVIEW", "COMPLETION_REVIEW">>,
     <<"COMPLETION_REVIEW", "RETURN_TO_EXECUTION", "EXECUTION">>,
     <<"COMPLETION_REVIEW", "RETURN_TO_VERIFICATION", "VERIFICATION">>,
     <<"COMPLETION_REVIEW", "APPROVE_COMPLETION", "COMPLETED">>}

LEMMA GraphEdges ==
    ASSUME NEW s \in States, NEW k \in Kinds \ {"RESUME"}, GraphTarget(s, k) # None
    PROVE  /\ s \notin TERMINAL_STATES
           /\ \/ k = "BLOCK" /\ GraphTarget(s, k) = "BLOCKED" /\ s \in RESUMABLE_STATES
              \/ k = "FAIL" /\ GraphTarget(s, k) = "FAILED"
              \/ k = "CANCEL" /\ GraphTarget(s, k) = "CANCELLED"
              \/ <<s, k, GraphTarget(s, k)>> \in Edges
<1>1. CASE s = "PLANNING"
  BY <1>1 DEF GraphTarget, TRANSITION_GRAPH, Kinds, Edges, TERMINAL_STATES, RESUMABLE_STATES
<1>2. CASE s = "EXECUTION"
  BY <1>2 DEF GraphTarget, TRANSITION_GRAPH, Kinds, Edges, TERMINAL_STATES, RESUMABLE_STATES
<1>3. CASE s = "VERIFICATION"
  BY <1>3 DEF GraphTarget, TRANSITION_GRAPH, Kinds, Edges, TERMINAL_STATES, RESUMABLE_STATES
<1>4. CASE s = "COMPLETION_REVIEW"
  BY <1>4 DEF GraphTarget, TRANSITION_GRAPH, Kinds, Edges, TERMINAL_STATES, RESUMABLE_STATES
<1>5. CASE s = "BLOCKED"
  BY <1>5 DEF GraphTarget, TRANSITION_GRAPH, Kinds, Edges, TERMINAL_STATES, RESUMABLE_STATES
<1>6. CASE s \in TERMINAL_STATES
  BY <1>6 DEF GraphTarget, TRANSITION_GRAPH, Kinds, TERMINAL_STATES
<1> QED
  BY <1>1, <1>2, <1>3, <1>4, <1>5, <1>6 DEF States, RESUMABLE_STATES

\* Where an accepted transition leads: back to the phase a mission was blocked in, or
\* along an edge.
LEMMA AcceptedLeads ==
    ASSUME NEW r, RecordInv(r), NEW id, NEW expected, NEW kind \in Kinds, NEW trusted,
           Accepts(r, id, expected, kind, trusted)
    PROVE  LET to == Destination(r, kind)
           IN  /\ to \in States /\ r.state \in States \ TERMINAL_STATES /\ to # r.state
               /\ \/ kind = "RESUME" /\ r.state = "BLOCKED" /\ to = r.blockedFromState /\ to \in RESUMABLE_STATES
                  \/ kind = "BLOCK" /\ to = "BLOCKED" /\ r.state \in RESUMABLE_STATES
                  \/ kind = "FAIL" /\ to = "FAILED"
                  \/ kind = "CANCEL" /\ to = "CANCELLED"
                  \/ kind \notin {"RESUME", "BLOCK", "FAIL", "CANCEL"} /\ <<r.state, kind, to>> \in Edges
<1> DEFINE to == Destination(r, kind)
<1>1. r.state \in States \ TERMINAL_STATES /\ to # r.state /\ to # None
  BY DEF Accepts, RecordInv, RecordType
<1>2. CASE kind = "RESUME"
  BY <1>1, <1>2 DEF Destination, States
<1>3. CASE kind # "RESUME"
  <2>1. to = GraphTarget(r.state, kind)
    BY <1>3 DEF Destination
  <2>2. /\ \/ kind = "BLOCK" /\ to = "BLOCKED" /\ r.state \in RESUMABLE_STATES
           \/ kind = "FAIL" /\ to = "FAILED"
           \/ kind = "CANCEL" /\ to = "CANCELLED"
           \/ <<r.state, kind, to>> \in Edges
    BY <1>1, <1>3, <2>1, GraphEdges
  <2> HIDE DEF to
  <2> QED
    BY <1>1, <1>3, <2>2 DEF Edges, States, RESUMABLE_STATES, TERMINAL_STATES, to
<1> QED
  BY <1>2, <1>3

\* What has been passed stays passed, and the next phase comes after it.
LEMMA OnePhaseMore ==
    ASSUME NEW ts \in Seq(Transitions), NEW t \in Transitions
    PROVE  LET us == Append(ts, t)
           IN  /\ Executed(ts) \/ t.toState = "EXECUTION" => Executed(us)
               /\ Verified(ts) \/ (Executed(ts) /\ t.toState = "VERIFICATION") => Verified(us)
               /\ Reviewed(ts) \/ (Verified(ts) /\ t.toState = "COMPLETION_REVIEW") => Reviewed(us)
<1> DEFINE us == Append(ts, t)
           n == Len(ts)
<1>1. /\ n \in Nat /\ DOMAIN ts = 1..n /\ DOMAIN us = 1..(n + 1) /\ us[n + 1] = t
      /\ \A k \in 1..n : us[k] = ts[k]
  OBVIOUS
<1> HIDE DEF us, n
<1>2. n + 1 \in DOMAIN us /\ \A k \in DOMAIN ts : k \in DOMAIN us /\ us[k] = ts[k] /\ k < n + 1
  BY <1>1
<1>3. Executed(ts) \/ t.toState = "EXECUTION" => Executed(us)
  BY <1>1, <1>2 DEF Executed
<1>4. Verified(ts) \/ (Executed(ts) /\ t.toState = "VERIFICATION") => Verified(us)
  BY <1>1, <1>2 DEF Executed, Verified
<1>5. Reviewed(ts) \/ (Verified(ts) /\ t.toState = "COMPLETION_REVIEW") => Reviewed(us)
  BY <1>1, <1>2 DEF Verified, Reviewed
<1> QED
  BY <1>3, <1>4, <1>5 DEF us

\* applyMissionExecutionTransition keeps all of it.
LEMMA AppliedKeepsRecord ==
    ASSUME NEW r, RecordInv(r), NEW id \in Nat, NEW expected, NEW kind \in Kinds, NEW trusted,
           Accepts(r, id, expected, kind, trusted)
    PROVE  RecordInv(Applied(r, id, kind))
<1> DEFINE q == Applied(r, id, kind)
           to == Destination(r, kind)
           ts == r.transitions
           n == Len(ts)
           t == Transition(id, kind, r.state, to, r.revision)
           us == Append(ts, t)
           blocked == IF kind = "BLOCK" /\ r.state \in RESUMABLE_STATES THEN r.state ELSE None
<1>1. /\ q = [revision |-> r.revision + 1, state |-> to, blockedFromState |-> blocked, transitions |-> us]
      /\ t = [transitionId |-> id, kind |-> kind, fromState |-> r.state, toState |-> to,
              revisionBefore |-> r.revision, revisionAfter |-> r.revision + 1]
  BY DEF Applied, Transition
<1>2. /\ to \in States /\ r.state \in States \ TERMINAL_STATES /\ to # r.state
      /\ \/ kind = "RESUME" /\ r.state = "BLOCKED" /\ to = r.blockedFromState /\ to \in RESUMABLE_STATES
         \/ kind = "BLOCK" /\ to = "BLOCKED" /\ r.state \in RESUMABLE_STATES
         \/ kind = "FAIL" /\ to = "FAILED"
         \/ kind = "CANCEL" /\ to = "CANCELLED"
         \/ kind \notin {"RESUME", "BLOCK", "FAIL", "CANCEL"} /\ <<r.state, kind, to>> \in Edges
  BY AcceptedLeads
<1>3. /\ r.revision \in Nat /\ r.revision = n /\ ts \in Seq(Transitions) /\ n \in Nat
      /\ r.blockedFromState \in RESUMABLE_STATES \cup {None}
  BY DEF RecordInv, RecordType, NumberInv
<1> HIDE DEF to, n, q, t, us, ts, blocked
<1>4. t \in Transitions
  BY <1>1, <1>2, <1>3 DEF Transitions
<1>5. us \in Seq(Transitions) /\ Len(us) = n + 1 /\ us[n + 1] = t /\ us # <<>>
      /\ DOMAIN ts = 1..n /\ DOMAIN us = 1..(n + 1) /\ \A k \in 1..n : us[k] = ts[k]
  BY <1>3, <1>4 DEF us, n
<1>6. blocked \in RESUMABLE_STATES \cup {None} /\ (blocked # None <=> to = "BLOCKED")
      /\ (to = "BLOCKED" => blocked = r.state /\ kind = "BLOCK")
  BY <1>2 DEF blocked, Edges, States, RESUMABLE_STATES, TERMINAL_STATES, None
<1>7. RecordType(q)
  BY <1>1, <1>2, <1>3, <1>5, <1>6 DEF RecordType
<1>8. PhaseInv(q)
  <2>1. /\ Executed(ts) \/ to = "EXECUTION" => Executed(us)
        /\ Verified(ts) \/ (Executed(ts) /\ to = "VERIFICATION") => Verified(us)
        /\ Reviewed(ts) \/ (Verified(ts) /\ to = "COMPLETION_REVIEW") => Reviewed(us)
    BY <1>1, <1>3, <1>4, OnePhaseMore DEF us
  <2>2. /\ Phase(r) \in {"EXECUTION", "VERIFICATION", "COMPLETION_REVIEW"} => Executed(ts)
        /\ Phase(r) \in {"VERIFICATION", "COMPLETION_REVIEW"} => Verified(ts)
        /\ Phase(r) \in {"COMPLETION_REVIEW", "COMPLETED"} => Reviewed(ts)
    BY DEF RecordInv, PhaseInv, ts
  <2>3. CASE kind = "RESUME" \/ kind = "BLOCK"
    <3>1. Phase(q) = Phase(r) /\ to # "COMPLETED"
      BY <1>1, <1>2, <1>6, <2>3 DEF Phase, Edges, RESUMABLE_STATES
    <3> QED
      BY <1>1, <2>1, <2>2, <3>1 DEF PhaseInv
  <2>4. CASE kind = "FAIL" \/ kind = "CANCEL"
    <3>1. Phase(q) \in {"FAILED", "CANCELLED"} /\ to # "COMPLETED"
      BY <1>1, <1>2, <2>4 DEF Phase, Edges
    <3> QED
      BY <1>1, <3>1 DEF PhaseInv
  <2>5. CASE kind \notin {"RESUME", "BLOCK", "FAIL", "CANCEL"}
    <3>1. <<r.state, kind, to>> \in Edges
      BY <1>2, <2>5
    <3>2. Phase(q) = to /\ Phase(r) = r.state
      BY <1>1, <3>1 DEF Phase, Edges
    <3>3. us[Len(us)].fromState = r.state
      BY <1>1, <1>3, <1>5
    <3> QED
      BY <1>1, <1>5, <2>1, <2>2, <3>1, <3>2, <3>3 DEF PhaseInv, Edges
  <2> QED
    BY <2>3, <2>4, <2>5
<1>9. BlockInv(q)
  <2>1. us[Len(us)] = t
    BY <1>3, <1>5
  <2> QED
    BY <1>1, <1>5, <1>6, <2>1 DEF BlockInv
<1>10. NumberInv(q)
  <2>1. \A i \in 1..n : ts[i].transitionId # id
    BY <1>5 DEF Accepts, ts
  <2>2. \A i \in 1..n : /\ ts[i].revisionBefore = i - 1 /\ ts[i].revisionAfter = i
                        /\ \A j \in 1..n : ts[i].transitionId = ts[j].transitionId => i = j
    BY <1>5 DEF RecordInv, NumberInv, ts
  <2>3. \A i \in 1..(n + 1) : i \in 1..n \/ i = n + 1
    BY <1>3
  <2>4. t.transitionId = id
    BY <1>1, <1>3
  <2>5. ASSUME NEW i \in 1..(n + 1) PROVE us[i].revisionBefore = i - 1 /\ us[i].revisionAfter = i
    <3>1. CASE i \in 1..n
      BY <1>5, <2>2, <3>1
    <3>2. CASE i = n + 1
      <4>1. us[i] = t /\ i - 1 = n /\ i = n + 1
        BY <1>3, <1>5, <3>2
      <4> QED
        BY <1>1, <1>3, <4>1
    <3> QED
      BY <2>3, <3>1, <3>2
  <2>6. \A i, j \in 1..(n + 1) : us[i].transitionId = us[j].transitionId => i = j
    BY <1>5, <2>1, <2>2, <2>3, <2>4
  <2>7. q.transitions = us /\ q.revision = Len(us)
    BY <1>1, <1>3, <1>5
  <2> QED
    BY <1>5, <2>5, <2>6, <2>7 DEF NumberInv
<1>11. ReplayInv(q)
  <2> DEFINE run == Replay(ts)
             next == ReplayTransition(run, t)
  <2>1. Replay(us) = next
    BY <1>3, <1>4, ReplayOneMore DEF us
  <2>2. run.ok /\ run.state = r.state /\ run.blockedFromState = r.blockedFromState
    BY <1>2 DEF RecordInv, ReplayInv, ts
  <2> HIDE DEF run
  <2>3. /\ next.state = to
        /\ next.blockedFromState = CASE kind = "RESUME" -> None
                                     [] kind = "BLOCK" -> r.state
                                     [] OTHER -> r.blockedFromState
    BY <1>1, <2>2 DEF ReplayTransition
  <2>4. next.ok
    <3>1. CASE kind = "RESUME"
      BY <1>1, <1>2, <2>2, <3>1 DEF ReplayTransition, RESUMABLE_STATES, None
    <3>2. CASE kind = "BLOCK"
      BY <1>1, <1>2, <2>2, <3>2 DEF ReplayTransition, None
    <3>3. CASE kind \notin {"RESUME", "BLOCK"}
      <4>1. to = GraphTarget(r.state, kind) /\ to # None
        BY <3>3 DEF Destination, to, Accepts
      <4> QED
        BY <1>1, <1>2, <2>2, <3>3, <4>1 DEF ReplayTransition
    <3> QED
      BY <3>1, <3>2, <3>3
  <2>5. to \notin TERMINAL_STATES => next.blockedFromState = blocked
    <3>1. CASE kind = "RESUME"
      BY <2>3, <3>1 DEF blocked
    <3>2. CASE kind = "BLOCK"
      BY <1>2, <2>3, <3>2 DEF blocked
    <3>3. CASE kind \notin {"RESUME", "BLOCK"}
      <4>1. to \notin TERMINAL_STATES => r.state # "BLOCKED"
        BY <1>2, <3>3 DEF TERMINAL_STATES, Edges
      <4>2. r.state # "BLOCKED" => r.blockedFromState = None
        BY DEF RecordInv, BlockInv
      <4> QED
        BY <2>3, <3>3, <4>1, <4>2 DEF blocked
    <3> QED
      BY <3>1, <3>2, <3>3
  <2> HIDE DEF next
  <2> QED
    BY <1>1, <2>1, <2>3, <2>4, <2>5 DEF ReplayInv
<1> QED
  BY <1>7, <1>8, <1>9, <1>10, <1>11 DEF RecordInv, q

LEMMA NewRecord == ExecutionInit => RecordInv(execution)
<1> SUFFICES ASSUME ExecutionInit PROVE RecordInv(execution)
  OBVIOUS
<1>1. execution.state = "PLANNING" /\ execution.blockedFromState = None
      /\ execution.transitions = <<>> /\ execution.revision = 0
  BY DEF ExecutionInit
<1>2. RecordType(execution)
  BY DEF ExecutionInit, RecordType, States, RESUMABLE_STATES
<1>3. PhaseInv(execution)
  BY <1>1 DEF PhaseInv, Phase
<1>4. BlockInv(execution) /\ NumberInv(execution)
  BY <1>1 DEF BlockInv, NumberInv, None
<1>5. ReplayInv(execution)
  <2>1. [transitionId |-> 0, kind |-> "FAIL", fromState |-> "PLANNING", toState |-> "FAILED",
         revisionBefore |-> 0, revisionAfter |-> 1] \in Transitions
    BY DEF Transitions, States, RESUMABLE_STATES, TERMINAL_STATES, Kinds
  <2>2. <<>> \in Seq(Transitions)
    OBVIOUS
  <2>3. Replay(<<>>) = FreshRun
    BY <2>1, <2>2, ReplayOneMore
  <2> QED
    BY <1>1, <2>3 DEF ReplayInv, FreshRun
<1> QED
  BY <1>2, <1>3, <1>4, <1>5 DEF RecordInv

LEMMA RecordsKept == ExecutionSpec => []RecordInv(execution)
<1>1. ASSUME RecordInv(execution), [ExecutionNext]_execution PROVE RecordInv(execution)'
  <2>1. CASE UNCHANGED execution
    BY <1>1, <2>1 DEF RecordInv, RecordType, PhaseInv, BlockInv, NumberInv, ReplayInv, Phase,
                      Executed, Verified, Reviewed, Replay
  <2>2. CASE ExecutionNext
    <3>1. PICK id \in 1..(Len(execution.transitions) + 1), expected \in 0..MaxTransitions,
               kind \in Kinds, trusted \in BOOLEAN : ApplyTransition(id, expected, kind, trusted)
      BY <2>2 DEF ExecutionNext
    <3>2. Len(execution.transitions) \in Nat /\ id \in Nat
      BY <1>1 DEF RecordInv, RecordType
    <3>3. RecordInv(Applied(execution, id, kind))
      BY <1>1, <3>1, <3>2, AppliedKeepsRecord DEF ApplyTransition
    <3>4. execution' = Applied(execution, id, kind)
      BY <3>1 DEF ApplyTransition
    <3> HIDE DEF RecordInv
    <3> QED
      BY <3>3, <3>4
  <2> QED
    BY <1>1, <2>1, <2>2
<1> QED
  BY <1>1, NewRecord, PTL DEF ExecutionSpec

\* What the transitions build, the validation of a file accepts, and a mission that
\* completed was executed, verified and reviewed (execution-state-machine.ts).
THEOREM ExecutionsAreSound == ExecutionSpec => []ExecutionIsSound
<1>1. ASSUME RecordInv(execution) PROVE ExecutionIsSound
  <2>1. RecordReplays
    <3>1. execution.state = "BLOCKED" => execution.blockedFromState = Replay(execution.transitions).blockedFromState
      BY <1>1 DEF RecordInv, ReplayInv, TERMINAL_STATES
    <3> QED
      BY <1>1, <3>1 DEF RecordInv, BlockInv, NumberInv, ReplayInv, RecordReplays, RecordIsValid
  <2>2. CompletedWasReviewed
    BY <1>1 DEF RecordInv, PhaseInv, Phase, Reviewed, CompletedWasReviewed
  <2> QED
    BY <2>1, <2>2 DEF ExecutionIsSound
<1> QED
  BY <1>1, RecordsKept, PTL

\* "RESUME returns to the exact blockedFromState" (execution-state-machine.ts, line 647).
THEOREM BlockedMissionsResume == ExecutionSpec => ResumesWhereBlocked
<1>1. ASSUME RecordInv(execution), [ExecutionNext]_execution,
             Len(execution'.transitions) > Len(execution.transitions),
             Last(execution'.transitions).kind = "RESUME"
      PROVE  execution'.state = BlockedAt(execution.transitions)
  <2> DEFINE ts == execution.transitions
             n == Len(ts)
             blocks == {i \in 1..n : ts[i].kind = "BLOCK"}
  <2>0. n \in Nat /\ ts \in Seq(Transitions)
    BY <1>1 DEF RecordInv, RecordType
  <2>1. ExecutionNext
    BY <1>1, <2>0
  <2>2. PICK id \in 1..(Len(execution.transitions) + 1), expected \in 0..MaxTransitions,
             kind \in Kinds, trusted \in BOOLEAN : ApplyTransition(id, expected, kind, trusted)
    BY <2>1 DEF ExecutionNext
  <2>3. execution'.state = Destination(execution, kind)
        /\ execution'.transitions =
             Append(ts, Transition(id, kind, execution.state, Destination(execution, kind), execution.revision))
    BY <2>2 DEF ApplyTransition, Applied
  <2>4. kind = "RESUME"
    BY <1>1, <2>0, <2>3 DEF Transition, Last
  <2>5. execution.state = "BLOCKED" /\ execution'.state = execution.blockedFromState
    BY <2>2, <2>3, <2>4 DEF ApplyTransition, Accepts, Destination
  <2>6. ts # <<>> /\ ts[n].kind = "BLOCK" /\ ts[n].fromState = execution.blockedFromState
    BY <1>1, <2>5 DEF RecordInv, BlockInv
  <2>7. n \in blocks
    BY <2>0, <2>6
  <2>8. Max(blocks) = n
    <3>1. Max(blocks) \in blocks /\ \A j \in blocks : j <= Max(blocks)
      BY <2>0, <2>7, MaxOfPositions
    <3> QED
      BY <2>0, <2>7, <3>1
  <2>9. BlockedAt(ts) = ts[n].fromState
    BY <2>7, <2>8 DEF BlockedAt, SelectLastInSeq
  <2> QED
    BY <2>5, <2>6, <2>9
<1> QED
  BY <1>1, RecordsKept, PTL DEF ExecutionSpec, ResumesWhereBlocked

-----------------------------------------------------------------------------
(* Replaying a ledger *)

\* What evidence, transitions and the statuses of a ledger look like.
Assessments == [Requirements -> Statuses]
Evidence == [criteria : SUBSET Criteria, status : {"pass", "fail"}, by : {"agent", "collector"},
             addedAt : Nat, authority : Nat]
Assessed == [requirement : Requirements, from : Statuses, to : Statuses, by : {"agent", "reviewer"},
             evidenceIds : SUBSET Nat, after : Nat]
StatusRuns == [ok : BOOLEAN, status : Assessments]

InitialStatuses == [r \in Requirements |-> InitialStatus(r)]
FreshStatus == [ok |-> TRUE, status |-> InitialStatuses]
StatusReplay(ts) == FoldLeft(ReplayStatus, FreshStatus, ts)
VerifyRun(ts) == FoldLeft(VerifyStep, FreshStatus, ts)

LEMMA InitialStatusTyped ==
    /\ InitialStatuses \in Assessments /\ FreshStatus \in StatusRuns
    /\ \A r \in Requirements : InitialStatuses[r] # "SATISFIED"
  BY DEF InitialStatuses, Assessments, FreshStatus, StatusRuns, InitialStatus, Statuses

LEMMA StatusRunsStay ==
    ASSUME NEW t \in Assessed
    PROVE  /\ \A run \in StatusRuns : ReplayStatus(run, t) \in StatusRuns /\ VerifyStep(run, t) \in StatusRuns
           /\ \A status \in Assessments : DeriveStep(status, t) \in Assessments
<1>1. t.to \in Statuses
  BY DEF Assessed
<1>2. ASSUME NEW run \in StatusRuns PROVE ReplayStatus(run, t) \in StatusRuns
  <2>1. run.ok \in BOOLEAN /\ run.status \in Assessments
    BY DEF StatusRuns
  <2>2. [run.status EXCEPT ![t.requirement] = t.to] \in Assessments
    BY <1>1, <2>1 DEF Assessments
  <2>3. (run.ok /\ run.status[t.requirement] = t.from) \in BOOLEAN
    OBVIOUS
  <2> QED
    BY <2>2, <2>3 DEF ReplayStatus, StatusRuns
<1>3. ASSUME NEW run \in StatusRuns PROVE VerifyStep(run, t) \in StatusRuns
  BY <1>1 DEF VerifyStep, StatusRuns, Assessments
<1>4. ASSUME NEW status \in Assessments PROVE DeriveStep(status, t) \in Assessments
  BY <1>1 DEF DeriveStep, Assessments
<1> QED
  BY <1>2, <1>3, <1>4

\* The loop over the transitions in validateRequirementLedger.
LEMMA StatusLoop ==
    ASSUME NEW ts \in Seq(Assessed)
    PROVE  \E fold : /\ StatusReplay(ts) = fold[1..Len(ts)] /\ fold[1..0] = FreshStatus
                     /\ \A k \in 1..Len(ts) : fold[1..k] = ReplayStatus(fold[1..(k - 1)], ts[k])
<1> DEFINE n == Len(ts)
           step == [p \in StatusRuns \X Assessed |-> ReplayStatus(p[1], p[2])]
           Equation(fold) ==
             fold = [s \in SUBSET DOMAIN ts |->
                       IF s = {} THEN FreshStatus ELSE ReplayStatus(fold[s \ {Max(s)}], ts[Max(s)])]
           fold == CHOOSE fold : Equation(fold)
<1>1. StatusReplay(ts) = fold[DOMAIN ts]
  BY DEF StatusReplay, FoldLeft, MapThenFoldSet
<1>2. n \in Nat /\ DOMAIN ts = 1..n /\ \A k \in 1..n : ts[k] \in Assessed
  OBVIOUS
<1>3. \E g : Equation(g)
  <2>1. step \in [StatusRuns \X Assessed -> StatusRuns]
    <3> SUFFICES ASSUME NEW v \in StatusRuns, NEW t \in Assessed PROVE ReplayStatus(v, t) \in StatusRuns
      OBVIOUS
    <3> QED
      BY StatusRunsStay
  <2>2. FreshStatus \in StatusRuns
    BY InitialStatusTyped
  <2>3. PICK g \in [SUBSET (1..n) -> StatusRuns] : Folds(g, n, FreshStatus, step, ts)
    <3> HIDE DEF step
    <3> QED
      BY <2>1, <2>2, FoldsExist DEF n
  <2>4. ASSUME NEW s \in SUBSET (1..n)
        PROVE  g[s] = IF s = {} THEN FreshStatus ELSE ReplayStatus(g[s \ {Max(s)}], ts[Max(s)])
    <3>1. CASE s # {}
      <4>1. Max(s) \in s
        BY <1>2, <3>1, MaxOfPositions
      <4>2. ts[Max(s)] \in Assessed /\ s \ {Max(s)} \in SUBSET (1..n)
        BY <1>2, <4>1
      <4>3. g[s \ {Max(s)}] \in StatusRuns
        BY <4>2
      <4>4. g[s] = step[g[s \ {Max(s)}], ts[Max(s)]]
        BY <2>3, <3>1 DEF Folds
      <4> QED
        BY <3>1, <4>2, <4>3, <4>4
    <3>2. CASE s = {}
      BY <2>3, <3>2 DEF Folds
    <3> QED
      BY <3>1, <3>2
  <2>5. Equation(g)
    BY <1>2, <2>4
  <2> QED
    BY <2>5
<1>4. Equation(fold)
  <2> HIDE DEF Equation
  <2> QED
    BY <1>3
<1> HIDE DEF fold, n
<1>5. fold[1..0] = FreshStatus
  BY <1>2, <1>4
<1>6. ASSUME NEW k \in 1..n PROVE fold[1..k] = ReplayStatus(fold[1..(k - 1)], ts[k])
  <2>1. Max(1..k) = k /\ (1..k) \ {Max(1..k)} = 1..(k - 1) /\ 1..k \in SUBSET (1..n) /\ 1..k # {}
    BY <1>2, FoldsInOrder
  <2> QED
    BY <1>2, <1>4, <2>1
<1> QED
  BY <1>1, <1>2, <1>5, <1>6 DEF n

\* The loop of verifyLedgerConsistency.
LEMMA VerifyLoop ==
    ASSUME NEW ts \in Seq(Assessed)
    PROVE  \E fold : /\ VerifyRun(ts) = fold[1..Len(ts)] /\ fold[1..0] = FreshStatus
                     /\ \A k \in 1..Len(ts) : fold[1..k] = VerifyStep(fold[1..(k - 1)], ts[k])
<1> DEFINE n == Len(ts)
           step == [p \in StatusRuns \X Assessed |-> VerifyStep(p[1], p[2])]
           Equation(fold) ==
             fold = [s \in SUBSET DOMAIN ts |->
                       IF s = {} THEN FreshStatus ELSE VerifyStep(fold[s \ {Max(s)}], ts[Max(s)])]
           fold == CHOOSE fold : Equation(fold)
<1>1. VerifyRun(ts) = fold[DOMAIN ts]
  BY DEF VerifyRun, FoldLeft, MapThenFoldSet
<1>2. n \in Nat /\ DOMAIN ts = 1..n /\ \A k \in 1..n : ts[k] \in Assessed
  OBVIOUS
<1>3. \E g : Equation(g)
  <2>1. step \in [StatusRuns \X Assessed -> StatusRuns]
    <3> SUFFICES ASSUME NEW v \in StatusRuns, NEW t \in Assessed PROVE VerifyStep(v, t) \in StatusRuns
      OBVIOUS
    <3> QED
      BY StatusRunsStay
  <2>2. FreshStatus \in StatusRuns
    BY InitialStatusTyped
  <2>3. PICK g \in [SUBSET (1..n) -> StatusRuns] : Folds(g, n, FreshStatus, step, ts)
    <3> HIDE DEF step
    <3> QED
      BY <2>1, <2>2, FoldsExist DEF n
  <2>4. ASSUME NEW s \in SUBSET (1..n)
        PROVE  g[s] = IF s = {} THEN FreshStatus ELSE VerifyStep(g[s \ {Max(s)}], ts[Max(s)])
    <3>1. CASE s # {}
      <4>1. Max(s) \in s
        BY <1>2, <3>1, MaxOfPositions
      <4>2. ts[Max(s)] \in Assessed /\ s \ {Max(s)} \in SUBSET (1..n)
        BY <1>2, <4>1
      <4>3. g[s \ {Max(s)}] \in StatusRuns
        BY <4>2
      <4>4. g[s] = step[g[s \ {Max(s)}], ts[Max(s)]]
        BY <2>3, <3>1 DEF Folds
      <4> QED
        BY <3>1, <4>2, <4>3, <4>4
    <3>2. CASE s = {}
      BY <2>3, <3>2 DEF Folds
    <3> QED
      BY <3>1, <3>2
  <2>5. Equation(g)
    BY <1>2, <2>4
  <2> QED
    BY <2>5
<1>4. Equation(fold)
  <2> HIDE DEF Equation
  <2> QED
    BY <1>3
<1> HIDE DEF fold, n
<1>5. fold[1..0] = FreshStatus
  BY <1>2, <1>4
<1>6. ASSUME NEW k \in 1..n PROVE fold[1..k] = VerifyStep(fold[1..(k - 1)], ts[k])
  <2>1. Max(1..k) = k /\ (1..k) \ {Max(1..k)} = 1..(k - 1) /\ 1..k \in SUBSET (1..n) /\ 1..k # {}
    BY <1>2, FoldsInOrder
  <2> QED
    BY <1>2, <1>4, <2>1
<1> QED
  BY <1>1, <1>2, <1>5, <1>6 DEF n

\* The loop of deriveCurrentStates, from whatever statuses it starts.
LEMMA DeriveLoop ==
    ASSUME NEW now \in Assessments, NEW ts \in Seq(Assessed)
    PROVE  \E fold : /\ FoldLeft(DeriveStep, now, ts) = fold[1..Len(ts)] /\ fold[1..0] = now
                     /\ \A k \in 1..Len(ts) : fold[1..k] = DeriveStep(fold[1..(k - 1)], ts[k])
<1> DEFINE n == Len(ts)
           step == [p \in Assessments \X Assessed |-> DeriveStep(p[1], p[2])]
           Equation(fold) ==
             fold = [s \in SUBSET DOMAIN ts |->
                       IF s = {} THEN now ELSE DeriveStep(fold[s \ {Max(s)}], ts[Max(s)])]
           fold == CHOOSE fold : Equation(fold)
<1>1. FoldLeft(DeriveStep, now, ts) = fold[DOMAIN ts]
  BY DEF FoldLeft, MapThenFoldSet
<1>2. n \in Nat /\ DOMAIN ts = 1..n /\ \A k \in 1..n : ts[k] \in Assessed
  OBVIOUS
<1>3. \E g : Equation(g)
  <2>1. step \in [Assessments \X Assessed -> Assessments]
    <3> SUFFICES ASSUME NEW v \in Assessments, NEW t \in Assessed PROVE DeriveStep(v, t) \in Assessments
      OBVIOUS
    <3> QED
      BY StatusRunsStay
  <2>2. now \in Assessments
    OBVIOUS
  <2>3. PICK g \in [SUBSET (1..n) -> Assessments] : Folds(g, n, now, step, ts)
    <3> HIDE DEF step
    <3> QED
      BY <2>1, <2>2, FoldsExist DEF n
  <2>4. ASSUME NEW s \in SUBSET (1..n)
        PROVE  g[s] = IF s = {} THEN now ELSE DeriveStep(g[s \ {Max(s)}], ts[Max(s)])
    <3>1. CASE s # {}
      <4>1. Max(s) \in s
        BY <1>2, <3>1, MaxOfPositions
      <4>2. ts[Max(s)] \in Assessed /\ s \ {Max(s)} \in SUBSET (1..n)
        BY <1>2, <4>1
      <4>3. g[s \ {Max(s)}] \in Assessments
        BY <4>2
      <4>4. g[s] = step[g[s \ {Max(s)}], ts[Max(s)]]
        BY <2>3, <3>1 DEF Folds
      <4> QED
        BY <3>1, <4>2, <4>3, <4>4
    <3>2. CASE s = {}
      BY <2>3, <3>2 DEF Folds
    <3> QED
      BY <3>1, <3>2
  <2>5. Equation(g)
    BY <1>2, <2>4
  <2> QED
    BY <2>5
<1>4. Equation(fold)
  <2> HIDE DEF Equation
  <2> QED
    BY <1>3
<1> HIDE DEF fold, n
<1>5. fold[1..0] = now
  BY <1>2, <1>4
<1>6. ASSUME NEW k \in 1..n PROVE fold[1..k] = DeriveStep(fold[1..(k - 1)], ts[k])
  <2>1. Max(1..k) = k /\ (1..k) \ {Max(1..k)} = 1..(k - 1) /\ 1..k \in SUBSET (1..n) /\ 1..k # {}
    BY <1>2, FoldsInOrder
  <2> QED
    BY <1>2, <1>4, <2>1
<1> QED
  BY <1>1, <1>2, <1>5, <1>6 DEF n

\* A transition that is added is replayed after those before it.
LEMMA StatusOneMore ==
    ASSUME NEW ts \in Seq(Assessed), NEW t \in Assessed
    PROVE  StatusReplay(Append(ts, t)) = ReplayStatus(StatusReplay(ts), t)
<1> DEFINE us == Append(ts, t)
           n == Len(ts)
<1>1. /\ us \in Seq(Assessed) /\ Len(us) = n + 1 /\ n \in Nat
      /\ us[n + 1] = t /\ \A k \in 1..n : us[k] = ts[k]
  OBVIOUS
<1> HIDE DEF us, n
<1>2. PICK f : /\ StatusReplay(ts) = f[1..n] /\ f[1..0] = FreshStatus
               /\ \A k \in 1..n : f[1..k] = ReplayStatus(f[1..(k - 1)], ts[k])
  BY StatusLoop DEF n
<1>3. PICK g : /\ StatusReplay(us) = g[1..(n + 1)] /\ g[1..0] = FreshStatus
               /\ \A k \in 1..(n + 1) : g[1..k] = ReplayStatus(g[1..(k - 1)], us[k])
  <2>1. \E g : /\ StatusReplay(us) = g[1..Len(us)] /\ g[1..0] = FreshStatus
               /\ \A k \in 1..Len(us) : g[1..k] = ReplayStatus(g[1..(k - 1)], us[k])
    BY <1>1, StatusLoop
  <2> QED
    BY <1>1, <2>1
<1>4. f[1..n] = g[1..n]
  <2>1. ASSUME NEW k \in 1..n, f[1..(k - 1)] = g[1..(k - 1)] PROVE f[1..k] = g[1..k]
    <3>1. k \in 1..(n + 1)
      BY <1>1
    <3> QED
      BY <1>1, <1>2, <1>3, <2>1, <3>1
  <2> QED
    BY <1>1, <1>2, <1>3, <2>1, LoopsAlike
<1>5. StatusReplay(us) = ReplayStatus(StatusReplay(ts), t)
  <2> DEFINE m == n + 1
  <2>1. m \in 1..(n + 1) /\ m - 1 = n
    BY <1>1
  <2> HIDE DEF m
  <2>2. g[1..m] = ReplayStatus(g[1..(m - 1)], us[m])
    BY <1>3, <2>1
  <2> QED
    BY <1>1, <1>2, <1>3, <1>4, <2>1, <2>2 DEF m
<1> QED
  BY <1>5 DEF us

\* The same in verifyLedgerConsistency.
LEMMA VerifyOneMore ==
    ASSUME NEW ts \in Seq(Assessed), NEW t \in Assessed
    PROVE  VerifyRun(Append(ts, t)) = VerifyStep(VerifyRun(ts), t)
<1> DEFINE us == Append(ts, t)
           n == Len(ts)
<1>1. /\ us \in Seq(Assessed) /\ Len(us) = n + 1 /\ n \in Nat
      /\ us[n + 1] = t /\ \A k \in 1..n : us[k] = ts[k]
  OBVIOUS
<1> HIDE DEF us, n
<1>2. PICK f : /\ VerifyRun(ts) = f[1..n] /\ f[1..0] = FreshStatus
               /\ \A k \in 1..n : f[1..k] = VerifyStep(f[1..(k - 1)], ts[k])
  BY VerifyLoop DEF n
<1>3. PICK g : /\ VerifyRun(us) = g[1..(n + 1)] /\ g[1..0] = FreshStatus
               /\ \A k \in 1..(n + 1) : g[1..k] = VerifyStep(g[1..(k - 1)], us[k])
  <2>1. \E g : /\ VerifyRun(us) = g[1..Len(us)] /\ g[1..0] = FreshStatus
               /\ \A k \in 1..Len(us) : g[1..k] = VerifyStep(g[1..(k - 1)], us[k])
    BY <1>1, VerifyLoop
  <2> QED
    BY <1>1, <2>1
<1>4. f[1..n] = g[1..n]
  <2>1. ASSUME NEW k \in 1..n, f[1..(k - 1)] = g[1..(k - 1)] PROVE f[1..k] = g[1..k]
    <3>1. k \in 1..(n + 1)
      BY <1>1
    <3> QED
      BY <1>1, <1>2, <1>3, <2>1, <3>1
  <2> QED
    BY <1>1, <1>2, <1>3, <2>1, LoopsAlike
<1>5. VerifyRun(us) = VerifyStep(VerifyRun(ts), t)
  <2> DEFINE m == n + 1
  <2>1. m \in 1..(n + 1) /\ m - 1 = n
    BY <1>1
  <2> HIDE DEF m
  <2>2. g[1..m] = VerifyStep(g[1..(m - 1)], us[m])
    BY <1>3, <2>1
  <2> QED
    BY <1>1, <1>2, <1>3, <1>4, <2>1, <2>2 DEF m
<1> QED
  BY <1>5 DEF us

\* One step of that loop, field by field.
LEMMA StatusStep ==
    ASSUME NEW run \in StatusRuns, NEW t \in Assessed
    PROVE  /\ ReplayStatus(run, t).ok = (run.ok /\ run.status[t.requirement] = t.from)
           /\ ReplayStatus(run, t).status = [run.status EXCEPT ![t.requirement] = t.to]
           /\ run.ok \in BOOLEAN /\ run.status \in Assessments
<1>1. run.ok \in BOOLEAN /\ run.status \in Assessments
  BY DEF StatusRuns
<1> DEFINE ok == run.ok /\ run.status[t.requirement] = t.from
           status == [run.status EXCEPT ![t.requirement] = t.to]
<1>2. ReplayStatus(run, t) = [ok |-> ok, status |-> status]
  BY DEF ReplayStatus
<1> HIDE DEF ok, status
<1>3. ReplayStatus(run, t).ok = ok /\ ReplayStatus(run, t).status = status
  BY <1>2
<1> QED
  BY <1>1, <1>3 DEF ok, status

\* One loop ends where the other does as long as every transition fits, and
\* deriveCurrentStates, which starts from the end, meets the replay on its way there: a
\* requirement stands where it stood at this point of the history, or still at its end.
LEMMA DerivingEndsAtTheEnd ==
    ASSUME NEW ts \in Seq(Assessed), StatusReplay(ts).ok
    PROVE  FoldLeft(DeriveStep, StatusReplay(ts).status, ts) = StatusReplay(ts).status
<1> DEFINE now == StatusReplay(ts).status
           n == Len(ts)
<1>1. PICK f : /\ StatusReplay(ts) = f[1..n] /\ f[1..0] = FreshStatus
               /\ \A k \in 1..n : f[1..k] = ReplayStatus(f[1..(k - 1)], ts[k])
  BY StatusLoop DEF n
<1>2. n \in Nat /\ \A k \in 1..n : ts[k] \in Assessed
  BY DEF n
<1> HIDE DEF n
<1>3. \A k \in Nat : k <= n => f[1..k] \in StatusRuns
  <2> DEFINE P == {k \in Nat : k <= n => f[1..k] \in StatusRuns}
  <2>1. 0 \in P
    BY <1>1, InitialStatusTyped
  <2>2. ASSUME NEW k \in P PROVE k + 1 \in P
    <3> DEFINE j == k + 1
    <3>1. j \in Nat /\ j - 1 = k /\ (j <= n => j \in 1..n /\ k <= n) /\ k \in Nat
      BY <1>2
    <3>2. j <= n => f[1..k] \in StatusRuns
      BY <3>1
    <3> HIDE DEF j, P
    <3>3. j <= n => f[1..j] \in StatusRuns
      BY <1>1, <1>2, <3>1, <3>2, StatusRunsStay
    <3> QED
      BY <3>1, <3>3 DEF P, j
  <2>3. P \in SUBSET Nat
    OBVIOUS
  <2> HIDE DEF P
  <2>4. P = Nat
    BY <2>1, <2>2, <2>3, Induction
  <2> QED
    BY <2>4 DEF P
<1>4. \A k \in Nat : k <= n => f[1..(n - k)].ok
  <2> DEFINE P == {k \in Nat : k <= n => f[1..(n - k)].ok}
  <2>1. 0 \in P
    <3>1. n - 0 = n
      BY <1>2
    <3> QED
      BY <1>1, <3>1
  <2>2. ASSUME NEW k \in P PROVE k + 1 \in P
    <3> DEFINE j == n - k
    <3>1. k \in Nat /\ k + 1 \in Nat /\ (k + 1 <= n => j \in 1..n /\ k <= n /\ n - (k + 1) = j - 1)
      BY <1>2
    <3>2. k <= n => f[1..j].ok
      BY <3>1
    <3> HIDE DEF j, P
    <3>3. k + 1 <= n => f[1..(j - 1)].ok
      <4> SUFFICES ASSUME k + 1 <= n PROVE f[1..(j - 1)].ok
        OBVIOUS
      <4> DEFINE run == f[1..(j - 1)]
                 t == ts[j]
      <4>1. j - 1 \in Nat /\ j - 1 <= n
        BY <1>2, <3>1
      <4>2. run \in StatusRuns /\ t \in Assessed /\ f[1..j] = ReplayStatus(run, t) /\ f[1..j].ok
        BY <1>1, <1>2, <1>3, <3>1, <3>2, <4>1
      <4> HIDE DEF run, t
      <4>3. ReplayStatus(run, t).ok = (run.ok /\ run.status[t.requirement] = t.from)
        BY <4>2, StatusStep
      <4>4. run.ok
        BY <4>2, <4>3
      <4> QED
        BY <4>4 DEF run
    <3> QED
      BY <3>1, <3>3 DEF P
  <2>3. P \in SUBSET Nat
    OBVIOUS
  <2> HIDE DEF P
  <2>4. P = Nat
    BY <2>1, <2>2, <2>3, Induction
  <2> QED
    BY <2>4 DEF P
<1>5. ASSUME NEW k \in 1..n
      PROVE  LET was == f[1..(k - 1)].status
             IN  was \in Assessments /\ was[ts[k].requirement] = ts[k].from
                 /\ f[1..k].status = [was EXCEPT ![ts[k].requirement] = ts[k].to]
  <2>1. n - k \in Nat /\ n - k <= n /\ n - (n - k) = k /\ k - 1 \in Nat /\ k - 1 <= n
    BY <1>2
  <2>2. f[1..k].ok
    <3> DEFINE i == n - k
    <3>1. i \in Nat /\ i <= n /\ n - i = k
      BY <2>1
    <3> HIDE DEF i
    <3> QED
      BY <1>4, <3>1
  <2>3. f[1..k] = ReplayStatus(f[1..(k - 1)], ts[k])
    BY <1>1
  <2>4. f[1..(k - 1)] \in StatusRuns
    BY <1>3, <2>1
  <2> DEFINE run == f[1..(k - 1)]
             t == ts[k]
  <2>5. run \in StatusRuns /\ t \in Assessed /\ f[1..k] = ReplayStatus(run, t) /\ f[1..k].ok
    BY <1>2, <2>2, <2>3, <2>4
  <2> HIDE DEF run, t
  <2>6. /\ run.status \in Assessments /\ run.status[t.requirement] = t.from
        /\ f[1..k].status = [run.status EXCEPT ![t.requirement] = t.to]
    <3>1. /\ ReplayStatus(run, t).ok = (run.ok /\ run.status[t.requirement] = t.from)
          /\ ReplayStatus(run, t).status = [run.status EXCEPT ![t.requirement] = t.to]
          /\ run.status \in Assessments
      BY <2>5, StatusStep
    <3> QED
      BY <2>5, <3>1
  <2> QED
    BY <2>6 DEF run, t
<1>6. now \in Assessments
  <2>1. f[1..n] \in StatusRuns
    BY <1>2, <1>3
  <2> QED
    BY <1>1, <2>1 DEF StatusRuns
<1>7. PICK d : /\ FoldLeft(DeriveStep, now, ts) = d[1..n] /\ d[1..0] = now
               /\ \A k \in 1..n : d[1..k] = DeriveStep(d[1..(k - 1)], ts[k])
  BY <1>6, DeriveLoop DEF n
<1> DEFINE Meeting(k) == /\ d[1..k] \in Assessments
                         /\ \A r \in Requirements : d[1..k][r] \in {f[1..k].status[r], now[r]}
<1>8. \A k \in Nat : k <= n => Meeting(k)
  <2> DEFINE P == {k \in Nat : k <= n => Meeting(k)}
  <2> HIDE DEF now
  <2>1. 0 \in P
    BY <1>6, <1>7
  <2>2. ASSUME NEW k \in P PROVE k + 1 \in P
    <3> DEFINE j == k + 1
    <3>1. k \in Nat /\ j \in Nat /\ j - 1 = k /\ (j <= n => j \in 1..n /\ k <= n)
      BY <1>2
    <3>2. j <= n => Meeting(k)
      BY <3>1
    <3> HIDE DEF j, P
    <3>3. ASSUME j <= n PROVE Meeting(j)
      <4> DEFINE t == ts[j]
                 was == f[1..k].status
                 mine == d[1..k]
      <4>1. /\ was \in Assessments /\ was[t.requirement] = t.from
            /\ f[1..j].status = [was EXCEPT ![t.requirement] = t.to]
        BY <1>5, <3>1, <3>3
      <4>2. d[1..j] = IF mine[t.requirement] = t.from THEN [mine EXCEPT ![t.requirement] = t.to] ELSE mine
        BY <1>7, <3>1, <3>3 DEF DeriveStep
      <4>3. t \in Assessed /\ mine \in Assessments /\ \A r \in Requirements : mine[r] \in {was[r], now[r]}
        BY <1>2, <3>1, <3>2, <3>3
      <4> HIDE DEF t, was, mine
      <4>4. d[1..j] \in Assessments
        BY <4>2, <4>3 DEF Assessments, Assessed
      <4>5. ASSUME NEW r \in Requirements PROVE d[1..j][r] \in {f[1..j].status[r], now[r]}
        BY <4>1, <4>2, <4>3 DEF Assessments, Assessed
      <4> QED
        BY <4>4, <4>5
    <3> HIDE DEF Meeting
    <3> QED
      BY <3>1, <3>3 DEF P, j
  <2>3. P \in SUBSET Nat
    OBVIOUS
  <2> HIDE DEF P, Meeting
  <2>4. P = Nat
    BY <2>1, <2>2, <2>3, Induction
  <2> QED
    BY <2>4 DEF P
<1>9. d[1..n] = now
  <2>1. Meeting(n)
    BY <1>2, <1>8
  <2>2. \A r \in Requirements : d[1..n][r] = now[r]
    BY <1>1, <2>1
  <2> QED
    BY <1>6, <2>1, <2>2 DEF Assessments
<1> QED
  BY <1>7, <1>9

-----------------------------------------------------------------------------
(* Requirement ledgers *)

LedgerType(l) ==
    l \in [status : Assessments, regressed : [Requirements -> Nat],
           evidence : Seq(Evidence), transitions : Seq(Assessed)]

\* What is not a claim was added by a collector and obeys the rules of its criteria.
EvidenceInv(l) ==
    \A i \in DOMAIN l.evidence :
        l.evidence[i].authority # AgentClaim => l.evidence[i].by = "collector" /\ ObeysRules(l.evidence[i])

\* Every transition can be replayed, with evidence that is no claim and passed.
TransitionInv(l) ==
    \A j \in DOMAIN l.transitions :
        /\ TransitionReplays(l, l.transitions[j])
        /\ l.transitions[j].to = "SATISFIED" =>
             \A i \in l.transitions[j].evidenceIds :
                l.evidence[i].authority # AgentClaim /\ l.evidence[i].status = "pass"

\* The transitions lead to the statuses in both replays, each one starting where the one
\* before it ended.
StatusInv(l) ==
    /\ StatusReplay(l.transitions) = [ok |-> TRUE, status |-> l.status]
    /\ VerifyRun(l.transitions) = [ok |-> TRUE, status |-> l.status]

\* The regression that is recorded is the last one.
RegressionInv(l) ==
    \A j \in DOMAIN l.transitions :
        LET t == l.transitions[j]
        IN  t.from = "SATISFIED" => t.after <= l.regressed[t.requirement]

\* Transition j is the last one that satisfied r.
LastSatisfaction(l, r, j) ==
    /\ j \in DOMAIN l.transitions
    /\ l.transitions[j].requirement = r /\ l.transitions[j].to = "SATISFIED"
    /\ \A k \in DOMAIN l.transitions :
         l.transitions[k].requirement = r /\ l.transitions[k].to = "SATISFIED" => k <= j

\* What is satisfied was satisfied last by evidence added since it regressed.
FreshInv(l) ==
    \A r \in Requirements : l.status[r] = "SATISFIED" =>
        \E j \in DOMAIN l.transitions :
            LastSatisfaction(l, r, j) /\ EvidenceIsFresh(l, r, l.transitions[j].evidenceIds)

LedgerInv(l) ==
    /\ LedgerType(l) /\ EvidenceInv(l) /\ TransitionInv(l) /\ RevisionsAreSequential(l)
    /\ StatusInv(l) /\ RegressionInv(l) /\ FreshInv(l)

\* What is asked of evidence that is named is not changed by evidence that comes later.
LEMMA EvidenceGrows ==
    ASSUME NEW l, LedgerType(l), NEW m, LedgerType(m), m.regressed = l.regressed,
           NEW e, m.evidence = Append(l.evidence, e),
           NEW ids, ids \subseteq DOMAIN l.evidence, NEW r
    PROVE  /\ ids \subseteq DOMAIN m.evidence /\ \A i \in ids : m.evidence[i] = l.evidence[i]
           /\ CriteriaMet(m, r, ids) <=> CriteriaMet(l, r, ids)
           /\ EvidenceIsFresh(m, r, ids) <=> EvidenceIsFresh(l, r, ids)
<1>1. l.evidence \in Seq(Evidence)
  BY DEF LedgerType
<1>2. ids \subseteq DOMAIN m.evidence /\ \A i \in ids : m.evidence[i] = l.evidence[i]
  <2>1. \A i \in DOMAIN l.evidence : i \in DOMAIN Append(l.evidence, e) /\ Append(l.evidence, e)[i] = l.evidence[i]
    BY <1>1
  <2> QED
    BY <2>1
<1>3. CriteriaMet(m, r, ids) <=> CriteriaMet(l, r, ids)
  BY <1>2 DEF CriteriaMet
<1>4. EvidenceIsFresh(m, r, ids) <=> EvidenceIsFresh(l, r, ids)
  BY <1>2 DEF EvidenceIsFresh
<1> QED
  BY <1>2, <1>3, <1>4

\* addLedgerEvidence, of a claim that is not validated or of evidence that is.
LEMMA EvidenceKeepsLedger ==
    ASSUME NEW l, LedgerInv(l), NEW e \in Evidence, e.addedAt = LedgerRevision(l) + 1,
           e.authority # AgentClaim => e.by = "collector" /\ ObeysRules(e)
    PROVE  LedgerInv([l EXCEPT !.evidence = Append(@, e)])
<1> DEFINE m == [l EXCEPT !.evidence = Append(@, e)]
           n == Len(l.evidence)
<1>1. /\ l.evidence \in Seq(Evidence) /\ l.transitions \in Seq(Assessed)
      /\ l.status \in Assessments /\ l.regressed \in [Requirements -> Nat]
      /\ DOMAIN l = {"status", "regressed", "evidence", "transitions"}
  BY DEF LedgerInv, LedgerType
<1>2. /\ m.evidence = Append(l.evidence, e) /\ m.transitions = l.transitions
      /\ m.status = l.status /\ m.regressed = l.regressed
  BY <1>1
<1>3. LedgerType(m)
  <2>1. Append(l.evidence, e) \in Seq(Evidence)
    BY <1>1
  <2> QED
    BY <2>1 DEF LedgerInv, LedgerType
<1> HIDE DEF m
<1>4. /\ n \in Nat /\ DOMAIN l.evidence = 1..n /\ DOMAIN m.evidence = 1..(n + 1)
      /\ Len(m.evidence) = n + 1 /\ m.evidence[n + 1] = e
      /\ \A i \in 1..n : m.evidence[i] = l.evidence[i]
  BY <1>1, <1>2
<1> HIDE DEF n
<1>5. EvidenceInv(m)
  <2>1. \A i \in 1..(n + 1) : i \in 1..n \/ i = n + 1
    BY <1>4
  <2>2. \A i \in 1..n : l.evidence[i].authority # AgentClaim =>
                          l.evidence[i].by = "collector" /\ ObeysRules(l.evidence[i])
    BY <1>4 DEF LedgerInv, EvidenceInv
  <2> QED
    BY <1>4, <2>1, <2>2 DEF EvidenceInv
<1>6. TransitionInv(m)
  <2> SUFFICES ASSUME NEW j \in DOMAIN l.transitions
               PROVE  LET t == l.transitions[j]
                      IN  /\ TransitionReplays(m, t)
                          /\ t.to = "SATISFIED" =>
                               \A i \in t.evidenceIds : m.evidence[i].authority # AgentClaim /\ m.evidence[i].status = "pass"
    BY <1>2 DEF TransitionInv
  <2> DEFINE t == l.transitions[j]
  <2>1. /\ TransitionReplays(l, t)
        /\ t.to = "SATISFIED" =>
             \A i \in t.evidenceIds : l.evidence[i].authority # AgentClaim /\ l.evidence[i].status = "pass"
    BY DEF LedgerInv, TransitionInv
  <2> HIDE DEF t
  <2>2. t.evidenceIds \subseteq DOMAIN l.evidence
    BY <2>1 DEF TransitionReplays
  <2>3. LedgerType(l)
    BY DEF LedgerInv
  <2>4. /\ t.evidenceIds \subseteq DOMAIN m.evidence /\ \A i \in t.evidenceIds : m.evidence[i] = l.evidence[i]
        /\ CriteriaMet(m, t.requirement, t.evidenceIds) <=> CriteriaMet(l, t.requirement, t.evidenceIds)
    <3> DEFINE ids == t.evidenceIds
               r == t.requirement
    <3>1. ids \subseteq DOMAIN l.evidence
      BY <2>2
    <3> HIDE DEF ids, r
    <3>2. /\ ids \subseteq DOMAIN m.evidence /\ \A i \in ids : m.evidence[i] = l.evidence[i]
      BY <1>2, <1>3, <2>3, <3>1, EvidenceGrows
    <3>3. CriteriaMet(m, r, ids) <=> CriteriaMet(l, r, ids)
      BY <1>2, <1>3, <2>3, <3>1, EvidenceGrows
    <3> QED
      BY <3>2, <3>3 DEF ids, r
  <2>5. TransitionReplays(m, t)
    BY <2>1, <2>4 DEF TransitionReplays
  <2> QED
    BY <2>1, <2>4, <2>5 DEF t
<1>7. RevisionsAreSequential(m)
  <2>1. {l.evidence[i].addedAt : i \in 1..n} \cup {l.transitions[i].after : i \in DOMAIN l.transitions}
          = 1..LedgerRevision(l)
    BY <1>4 DEF LedgerInv, RevisionsAreSequential
  <2>2. LedgerRevision(l) \in Nat /\ LedgerRevision(m) = LedgerRevision(l) + 1
    BY <1>1, <1>2, <1>4 DEF LedgerRevision, n
  <2>3. {m.evidence[i].addedAt : i \in 1..(n + 1)} = {l.evidence[i].addedAt : i \in 1..n} \cup {e.addedAt}
    <3>1. \A i \in 1..(n + 1) : i \in 1..n \/ i = n + 1
      BY <1>4
    <3>2. n + 1 \in 1..(n + 1) /\ \A i \in 1..n : i \in 1..(n + 1)
      BY <1>4
    <3> QED
      BY <1>4, <3>1, <3>2
  <2>4. 1..(LedgerRevision(l) + 1) = (1..LedgerRevision(l)) \cup {LedgerRevision(l) + 1}
    BY <2>2
  <2> QED
    BY SMTT(30), <1>2, <1>4, <2>1, <2>2, <2>3, <2>4 DEF RevisionsAreSequential
<1>8. StatusInv(m) /\ RegressionInv(m)
  BY <1>2 DEF LedgerInv, StatusInv, RegressionInv
<1>9. FreshInv(m)
  <2> SUFFICES ASSUME NEW r \in Requirements, l.status[r] = "SATISFIED"
               PROVE  \E j \in DOMAIN l.transitions :
                        LastSatisfaction(m, r, j) /\ EvidenceIsFresh(m, r, l.transitions[j].evidenceIds)
    BY <1>2 DEF FreshInv
  <2>1. PICK j \in DOMAIN l.transitions :
               LastSatisfaction(l, r, j) /\ EvidenceIsFresh(l, r, l.transitions[j].evidenceIds)
    BY DEF LedgerInv, FreshInv
  <2>2. l.transitions[j].evidenceIds \subseteq DOMAIN l.evidence
    BY DEF LedgerInv, TransitionInv, TransitionReplays
  <2>3. LedgerType(l)
    BY DEF LedgerInv
  <2>4. EvidenceIsFresh(m, r, l.transitions[j].evidenceIds)
    <3> DEFINE ids == l.transitions[j].evidenceIds
    <3>1. ids \subseteq DOMAIN l.evidence /\ EvidenceIsFresh(l, r, ids)
      BY <2>1, <2>2
    <3> HIDE DEF ids
    <3>2. EvidenceIsFresh(m, r, ids)
      BY <1>2, <1>3, <2>3, <3>1, EvidenceGrows
    <3> QED
      BY <3>2 DEF ids
  <2> QED
    BY <1>2, <2>1, <2>4 DEF LastSatisfaction
<1> QED
  BY <1>3, <1>5, <1>6, <1>7, <1>8, <1>9 DEF LedgerInv, m

\* applyRequirementTransition, of a transition that policy permits: who may not satisfy or
\* exempt a requirement names no evidence that would be asked for.
LEMMA TransitionKeepsLedger ==
    ASSUME NEW l, LedgerInv(l), NEW by \in {"agent", "reviewer"}, NEW r \in Requirements,
           NEW to \in Statuses, to # l.status[r], NEW ids, ids \subseteq DOMAIN l.evidence,
           to \in {"SATISFIED", "NOT_APPLICABLE"} => by = "reviewer",
           to = "SATISFIED" => SatisfactionAuthorized(l, r, ids) /\ EvidenceIsFresh(l, r, ids)
    PROVE  LedgerInv(WithTransition(l, by, r, to, ids))
<1> DEFINE m == WithTransition(l, by, r, to, ids)
           after == LedgerRevision(l) + 1
           t == [requirement |-> r, from |-> l.status[r], to |-> to, by |-> by, evidenceIds |-> ids, after |-> after]
           n == Len(l.transitions)
<1>1. /\ l.evidence \in Seq(Evidence) /\ l.transitions \in Seq(Assessed)
      /\ l.status \in Assessments /\ l.regressed \in [Requirements -> Nat]
      /\ l \in [status : Assessments, regressed : [Requirements -> Nat],
                evidence : Seq(Evidence), transitions : Seq(Assessed)]
  BY DEF LedgerInv, LedgerType
<1>2. LedgerRevision(l) \in Nat /\ after \in Nat
  BY <1>1 DEF LedgerRevision
<1>3. /\ m.evidence = l.evidence /\ m.transitions = Append(l.transitions, t)
      /\ m.status = [l.status EXCEPT ![r] = to]
      /\ m.regressed = [l.regressed EXCEPT ![r] = IF l.status[r] = "SATISFIED" THEN after ELSE @]
      /\ DOMAIN m = DOMAIN l
  BY <1>1 DEF WithTransition
<1>4. l.status[r] \in Statuses
  BY <1>1 DEF Assessments
<1>5. t \in Assessed
  <2>1. ids \in SUBSET Nat
    <3>1. \A i \in DOMAIN l.evidence : i \in Nat
      BY <1>1
    <3> QED
      BY <3>1
  <2> QED
    BY <1>2, <1>4, <2>1 DEF Assessed
<1>6. LedgerType(m)
  <2>1. m.transitions \in Seq(Assessed)
    BY <1>1, <1>3, <1>5
  <2>2. m.status \in Assessments
    BY <1>1, <1>3 DEF Assessments
  <2>3. m.regressed \in [Requirements -> Nat]
    BY <1>1, <1>2, <1>3
  <2>4. m = [l EXCEPT !.status = m.status, !.regressed = m.regressed, !.transitions = m.transitions]
    BY <1>1, <1>3 DEF WithTransition
  <2> DEFINE status == m.status
             regressed == m.regressed
             transitions == m.transitions
  <2>5. m = [l EXCEPT !.status = status, !.regressed = regressed, !.transitions = transitions]
        /\ status \in Assessments /\ regressed \in [Requirements -> Nat] /\ transitions \in Seq(Assessed)
    BY <2>1, <2>2, <2>3, <2>4
  <2> HIDE DEF m, status, regressed, transitions
  <2> QED
    BY <1>1, <2>5 DEF LedgerType
<1>7. /\ t.requirement = r /\ t.from = l.status[r] /\ t.to = to /\ t.by = by
      /\ t.evidenceIds = ids /\ t.after = after
  OBVIOUS
<1> HIDE DEF m, t, after, n
<1>8. /\ n \in Nat /\ DOMAIN l.transitions = 1..n /\ DOMAIN m.transitions = 1..(n + 1)
      /\ Len(m.transitions) = n + 1 /\ m.transitions[n + 1] = t
      /\ \A j \in 1..n : m.transitions[j] = l.transitions[j]
  BY <1>1, <1>3, <1>5 DEF n
<1>9. (\A j \in 1..(n + 1) : j \in 1..n \/ j = n + 1) /\ (\A j \in 1..n : j \in 1..(n + 1) /\ j < n + 1)
      /\ n + 1 \in 1..(n + 1)
  BY <1>8
<1>10. /\ \A i \in DOMAIN l.evidence : l.evidence[i].addedAt \in 1..LedgerRevision(l)
       /\ \A j \in 1..n : l.transitions[j].after \in 1..LedgerRevision(l)
  BY <1>8 DEF LedgerInv, RevisionsAreSequential
<1>11. EvidenceInv(m)
  BY <1>3 DEF LedgerInv, EvidenceInv
<1>12. TransitionInv(m)
  <2>1. ASSUME NEW j \in 1..n
        PROVE  /\ TransitionReplays(m, l.transitions[j])
               /\ l.transitions[j].to = "SATISFIED" =>
                    \A i \in l.transitions[j].evidenceIds :
                       m.evidence[i].authority # AgentClaim /\ m.evidence[i].status = "pass"
    BY SMTT(30), <1>3, <1>8 DEF LedgerInv, TransitionInv, TransitionReplays, CriteriaMet
  <2>2. TransitionReplays(m, t)
    <3>1. \A i \in ids : i \in DOMAIN m.evidence /\ m.evidence[i].addedAt < after
      BY <1>2, <1>3, <1>10 DEF after
    <3>2. to = "SATISFIED" => by # "agent" /\ "transition:satisfy" \in Capabilities(by) /\ CriteriaMet(m, r, ids)
      BY <1>3 DEF Capabilities, SatisfactionAuthorized, CriteriaMet
    <3>3. to = "NOT_APPLICABLE" => "transition:not-applicable" \in Capabilities(by)
      BY DEF Capabilities
    <3> QED
      BY <1>7, <3>1, <3>2, <3>3 DEF TransitionReplays
  <2>3. to = "SATISFIED" => \A i \in ids : m.evidence[i].authority # AgentClaim /\ m.evidence[i].status = "pass"
    BY <1>3 DEF SatisfactionAuthorized
  <2> QED
    BY <1>7, <1>8, <1>9, <2>1, <2>2, <2>3 DEF TransitionInv
<1>13. RevisionsAreSequential(m)
  <2>1. {l.evidence[i].addedAt : i \in DOMAIN l.evidence} \cup {l.transitions[i].after : i \in 1..n}
          = 1..LedgerRevision(l)
    BY <1>8 DEF LedgerInv, RevisionsAreSequential
  <2>2. LedgerRevision(m) = LedgerRevision(l) + 1
    <3> DEFINE a == Len(l.evidence)
    <3>1. a \in Nat /\ Len(m.evidence) = a /\ Len(m.transitions) = n + 1 /\ Len(l.transitions) = n
      BY <1>1, <1>3, <1>8 DEF n
    <3>2. LedgerRevision(l) = a + n
      BY <3>1 DEF LedgerRevision
    <3> HIDE DEF a
    <3>3. LedgerRevision(m) = a + (n + 1)
      BY <3>1 DEF LedgerRevision
    <3> QED
      BY <1>8, <3>1, <3>2, <3>3
  <2>3. {m.transitions[i].after : i \in 1..(n + 1)} = {l.transitions[i].after : i \in 1..n} \cup {after}
    BY <1>7, <1>8, <1>9
  <2>4. 1..(LedgerRevision(l) + 1) = (1..LedgerRevision(l)) \cup {LedgerRevision(l) + 1}
    BY <1>2
  <2> QED
    <3>1. {m.evidence[i].addedAt : i \in DOMAIN m.evidence} = {l.evidence[i].addedAt : i \in DOMAIN l.evidence}
      BY <1>3
    <3>2. {m.transitions[i].after : i \in DOMAIN m.transitions}
            = {l.transitions[i].after : i \in 1..n} \cup {LedgerRevision(l) + 1}
      BY <1>8, <2>3 DEF after
    <3> QED
      BY <2>1, <2>2, <2>4, <3>1, <3>2 DEF RevisionsAreSequential
<1>14. StatusInv(m)
  <2> DEFINE run == [ok |-> TRUE, status |-> l.status]
  <2>1. StatusReplay(l.transitions) = run /\ VerifyRun(l.transitions) = run
    BY DEF LedgerInv, StatusInv
  <2>2. StatusReplay(m.transitions) = ReplayStatus(run, t) /\ VerifyRun(m.transitions) = VerifyStep(run, t)
    <3> DEFINE ts == l.transitions
    <3>1. ts \in Seq(Assessed) /\ t \in Assessed /\ m.transitions = Append(ts, t)
      BY <1>1, <1>3, <1>5
    <3>2. StatusReplay(ts) = run /\ VerifyRun(ts) = run
      BY <2>1
    <3> HIDE DEF ts, t, m, run
    <3>3. StatusReplay(Append(ts, t)) = ReplayStatus(StatusReplay(ts), t)
      BY <3>1, StatusOneMore
    <3>4. VerifyRun(Append(ts, t)) = VerifyStep(VerifyRun(ts), t)
      BY <3>1, VerifyOneMore
    <3> QED
      BY <3>1, <3>2, <3>3, <3>4
  <2>3. run.status[t.requirement] = t.from
    BY <1>7
  <2>4. ReplayStatus(run, t) = [ok |-> TRUE, status |-> m.status]
    BY <1>3, <1>7, <2>3 DEF ReplayStatus
  <2>5. VerifyStep(run, t) = [ok |-> TRUE, status |-> m.status]
    BY <1>3, <1>7, <2>3 DEF VerifyStep
  <2> QED
    BY <2>2, <2>4, <2>5 DEF StatusInv
<1>15. RegressionInv(m)
  <2>1. ASSUME NEW j \in 1..n, l.transitions[j].from = "SATISFIED"
        PROVE  l.transitions[j].after <= m.regressed[l.transitions[j].requirement]
    <3>1. l.transitions[j].after <= l.regressed[l.transitions[j].requirement]
      BY <1>8, <2>1 DEF LedgerInv, RegressionInv
    <3>2. l.transitions[j].requirement \in Requirements
      <4>1. l.transitions[j] \in Assessed
        BY <1>1, <1>8
      <4> QED
        BY <4>1 DEF Assessed
    <3>3. l.transitions[j].after \in 1..LedgerRevision(l)
      BY <1>10
    <3>4. l.transitions[j].after <= after
      BY <1>2, <3>3 DEF after
    <3> QED
      BY <1>1, <1>3, <3>1, <3>2, <3>4
  <2>2. t.from = "SATISFIED" => t.after <= m.regressed[t.requirement]
    BY <1>1, <1>2, <1>3, <1>7
  <2> QED
    BY <1>8, <1>9, <2>1, <2>2 DEF RegressionInv
<1>16. FreshInv(m)
  <2> SUFFICES ASSUME NEW q \in Requirements, m.status[q] = "SATISFIED"
               PROVE  \E j \in 1..(n + 1) :
                        LastSatisfaction(m, q, j) /\ EvidenceIsFresh(m, q, m.transitions[j].evidenceIds)
    BY <1>8 DEF FreshInv
  <2>1. CASE q # r
    <3>1. l.status[q] = "SATISFIED" /\ m.regressed[q] = l.regressed[q]
      BY <1>1, <1>3, <2>1 DEF Assessments
    <3>2. PICK j \in 1..n : LastSatisfaction(l, q, j) /\ EvidenceIsFresh(l, q, l.transitions[j].evidenceIds)
      BY <1>8, <3>1 DEF LedgerInv, FreshInv
    <3>3. LastSatisfaction(m, q, j)
      BY <1>7, <1>8, <1>9, <2>1, <3>2 DEF LastSatisfaction
    <3>4. EvidenceIsFresh(m, q, m.transitions[j].evidenceIds)
      BY <1>3, <1>8, <3>1, <3>2 DEF EvidenceIsFresh
    <3> QED
      BY <1>9, <3>3, <3>4
  <2>2. CASE q = r
    <3>1. to = "SATISFIED" /\ m.regressed[r] = l.regressed[r]
      BY <1>1, <1>3, <2>2 DEF Assessments
    <3>2. LastSatisfaction(m, r, n + 1)
      BY <1>7, <1>8, <1>9, <3>1 DEF LastSatisfaction
    <3>3. EvidenceIsFresh(m, r, ids)
      BY <1>3, <3>1 DEF EvidenceIsFresh
    <3> QED
      BY <1>7, <1>8, <1>9, <2>2, <3>2, <3>3
  <2> QED
    BY <2>1, <2>2
<1> QED
  BY <1>6, <1>11, <1>12, <1>13, <1>14, <1>15, <1>16 DEF LedgerInv, m

LEMMA NewLedger == LedgerInit => LedgerInv(ledger)
<1> SUFFICES ASSUME LedgerInit PROVE LedgerInv(ledger)
  OBVIOUS
<1>1. /\ ledger.status = InitialStatuses /\ ledger.regressed = [r \in Requirements |-> NeverRegressed]
      /\ ledger.evidence = <<>> /\ ledger.transitions = <<>>
  BY DEF LedgerInit, InitialStatuses
<1>2. LedgerType(ledger)
  BY InitialStatusTyped DEF LedgerInit, LedgerType, InitialStatuses, NeverRegressed
<1>3. EvidenceInv(ledger) /\ TransitionInv(ledger) /\ RegressionInv(ledger)
  BY <1>1 DEF EvidenceInv, TransitionInv, RegressionInv
<1>4. RevisionsAreSequential(ledger)
  <2>1. LedgerRevision(ledger) = 0 /\ 1..0 = {}
    BY <1>1 DEF LedgerRevision
  <2>2. {ledger.evidence[i].addedAt : i \in DOMAIN ledger.evidence} = {}
        /\ {ledger.transitions[i].after : i \in DOMAIN ledger.transitions} = {}
    BY <1>1
  <2> QED
    BY <2>1, <2>2 DEF RevisionsAreSequential
<1>5. StatusInv(ledger)
  <2>1. <<>> \in Seq(Assessed) /\ Len(<<>>) = 0
    OBVIOUS
  <2>2. StatusReplay(<<>>) = FreshStatus
    BY <2>1, StatusLoop
  <2>3. VerifyRun(<<>>) = FreshStatus
    BY <2>1, VerifyLoop
  <2> QED
    BY <1>1, <2>2, <2>3 DEF StatusInv, FreshStatus
<1>6. FreshInv(ledger)
  BY <1>1, InitialStatusTyped DEF FreshInv
<1> QED
  BY <1>2, <1>3, <1>4, <1>5, <1>6 DEF LedgerInv

\* Whatever is asked of addLedgerEvidence.
LEMMA EvidenceAccepted ==
    ASSUME LedgerInv(ledger), NEW by \in {"agent", "collector"}, NEW criteria \in SUBSET Criteria,
           NEW status \in {"pass", "fail"}, NEW authority \in Nat,
           AddLedgerEvidence(by, criteria, status, authority)
    PROVE  LedgerInv(ledger')
<1> DEFINE e == [criteria |-> criteria, status |-> status, by |-> by, addedAt |-> LedgerRevision(ledger) + 1,
                 authority |-> IF "evidence" \in Capabilities(by) THEN authority ELSE AgentClaim]
           new == [ledger EXCEPT !.evidence = Append(@, e)]
<1>1. ledger' = new /\ (e.authority # AgentClaim => ValidateRequirementLedger(new))
  BY DEF AddLedgerEvidence
<1>2. ledger.evidence \in Seq(Evidence) /\ ledger.transitions \in Seq(Assessed)
      /\ ledger \in [status : Assessments, regressed : [Requirements -> Nat],
                     evidence : Seq(Evidence), transitions : Seq(Assessed)]
  BY DEF LedgerInv, LedgerType
<1>3. e \in Evidence /\ e.addedAt = LedgerRevision(ledger) + 1
  <2>1. LedgerRevision(ledger) + 1 \in Nat
    BY <1>2 DEF LedgerRevision
  <2> QED
    BY <2>1 DEF Evidence, AgentClaim
<1>4. new.evidence = Append(ledger.evidence, e)
  BY <1>2
<1> HIDE DEF e, new
<1>5. ASSUME e.authority # AgentClaim PROVE e.by = "collector" /\ ObeysRules(e)
  <2> DEFINE n == Len(ledger.evidence) + 1
  <2>1. n \in DOMAIN new.evidence /\ new.evidence[n] = e
    BY <1>2, <1>4
  <2>2. new.evidence[n].by # "agent" /\ ObeysRules(new.evidence[n])
    BY <1>1, <1>5, <2>1 DEF ValidateRequirementLedger
  <2> QED
    BY <1>3, <2>1, <2>2 DEF Evidence
<1>6. LedgerInv([ledger EXCEPT !.evidence = Append(@, e)])
  BY <1>3, <1>5, EvidenceKeepsLedger
<1> QED
  BY <1>1, <1>6 DEF new

LEMMA PermittedChanges ==
    ASSUME NEW from \in Statuses, NEW to \in PERMITTED_TRANSITIONS(from)
    PROVE  to \in Statuses /\ to # from
  BY DEF Statuses, PERMITTED_TRANSITIONS

\* Whatever is asked of applyRequirementTransition.
LEMMA TransitionAccepted ==
    ASSUME LedgerInv(ledger), NEW by \in {"agent", "reviewer"}, NEW r \in Requirements, NEW to,
           NEW ids, ids \subseteq DOMAIN ledger.evidence, ApplyRequirementTransition(by, r, to, ids)
    PROVE  LedgerInv(ledger')
<1>1. /\ to \in PERMITTED_TRANSITIONS(ledger.status[r]) /\ AuthorizeTransition(by, to)
      /\ to = "SATISFIED" => SatisfactionAuthorized(ledger, r, ids) /\ EvidenceIsFresh(ledger, r, ids)
      /\ ledger' = WithTransition(ledger, by, r, to, ids)
  BY DEF ApplyRequirementTransition
<1>2. ledger.status[r] \in Statuses
  BY DEF LedgerInv, LedgerType, Assessments
<1>3. to \in Statuses /\ to # ledger.status[r]
  BY <1>1, <1>2, PermittedChanges
<1>4. to \in {"SATISFIED", "NOT_APPLICABLE"} => by = "reviewer"
  BY <1>1 DEF AuthorizeTransition, Capabilities
<1>5. LedgerInv(WithTransition(ledger, by, r, to, ids))
  BY <1>1, <1>3, <1>4, TransitionKeepsLedger
<1> QED
  BY <1>1, <1>5

LEMMA LedgersKept == LedgerSpec => []LedgerInv(ledger)
<1>1. ASSUME LedgerInv(ledger), [LedgerNext]_ledger PROVE LedgerInv(ledger)'
  <2>0. LedgerInv(ledger') => LedgerInv(ledger)'
    BY DEF LedgerInv, LedgerType, EvidenceInv, TransitionInv, RevisionsAreSequential, StatusInv,
           RegressionInv, FreshInv, TransitionReplays, CriteriaMet, LedgerRevision, StatusReplay,
           VerifyRun, LastSatisfaction, EvidenceIsFresh
  <2>1. CASE UNCHANGED ledger
    <3>1. LedgerInv(ledger')
      BY <1>1, <2>1
    <3> QED
      BY <2>0, <3>1
  <2>2. ASSUME NEW criteria \in SUBSET Criteria \ {{}}, NEW status \in {"pass", "fail"},
               \/ AddLedgerEvidence("agent", criteria, status, AgentClaim)
               \/ \E authority \in Authorities : AddLedgerEvidence("collector", criteria, status, authority)
        PROVE  LedgerInv(ledger')
    <3>1. AgentClaim \in Nat /\ \A authority \in Authorities : authority \in Nat
      <4>1. Authorities \subseteq 1..6
        BY LedgerAssumption, Zenon
      <4>2. 0 \in Nat /\ \A k \in 1..6 : k \in Nat
        OBVIOUS
      <4> QED
        BY <4>1, <4>2 DEF AgentClaim
    <3>2. CASE AddLedgerEvidence("agent", criteria, status, AgentClaim)
      BY <1>1, <3>1, <3>2, EvidenceAccepted
    <3>3. CASE \E authority \in Authorities : AddLedgerEvidence("collector", criteria, status, authority)
      <4>1. PICK authority \in Authorities : AddLedgerEvidence("collector", criteria, status, authority)
        BY <3>3
      <4> QED
        BY <1>1, <3>1, <4>1, EvidenceAccepted
    <3> QED
      BY <2>2, <3>2, <3>3
  <2>3. ASSUME NEW r \in Requirements,
               \/ \E to \in Statuses : ApplyRequirementTransition("agent", r, to, {})
               \/ \E ids \in SUBSET DOMAIN ledger.evidence : ApplyRequirementTransition("reviewer", r, "SATISFIED", ids)
               \/ ApplyRequirementTransition("reviewer", r, "NOT_APPLICABLE", {})
        PROVE  LedgerInv(ledger')
    <3>1. {} \subseteq DOMAIN ledger.evidence
      OBVIOUS
    <3>2. CASE \E to \in Statuses : ApplyRequirementTransition("agent", r, to, {})
      BY <1>1, <3>1, <3>2, TransitionAccepted
    <3>3. CASE \E ids \in SUBSET DOMAIN ledger.evidence : ApplyRequirementTransition("reviewer", r, "SATISFIED", ids)
      BY <1>1, <3>3, TransitionAccepted
    <3>4. CASE ApplyRequirementTransition("reviewer", r, "NOT_APPLICABLE", {})
      BY <1>1, <3>1, <3>4, TransitionAccepted
    <3> QED
      BY <2>3, <3>2, <3>3, <3>4
  <2>4. CASE LedgerNext
    <3>1. LedgerInv(ledger')
      BY <2>2, <2>3, <2>4 DEF LedgerNext
    <3> QED
      BY <2>0, <3>1
  <2> QED
    BY <1>1, <2>1, <2>4
<1> QED
  BY <1>1, NewLedger, PTL DEF LedgerSpec

\* The last transition that satisfied a requirement, as validateRequirementLedger finds it.
LEMMA LastSatisfactionIsFound ==
    ASSUME NEW l, LedgerType(l), NEW r, NEW j, LastSatisfaction(l, r, j)
    PROVE  SelectLastInSeq(l.transitions, LAMBDA t : t.requirement = r /\ t.to = "SATISFIED") = j
<1> DEFINE ts == l.transitions
           s == {i \in 1..Len(ts) : ts[i].requirement = r /\ ts[i].to = "SATISFIED"}
<1>1. ts \in Seq(Assessed) /\ Len(ts) \in Nat /\ DOMAIN ts = 1..Len(ts)
  BY DEF LedgerType
<1>2. j \in s /\ s \in SUBSET (1..Len(ts)) /\ \A k \in s : k <= j
  BY <1>1 DEF LastSatisfaction
<1>3. Max(s) = j
  <2> HIDE DEF s
  <2>1. Max(s) \in s /\ \A k \in s : k <= Max(s)
    BY <1>1, <1>2, MaxOfPositions
  <2>2. Max(s) <= j /\ j <= Max(s)
    BY <1>2, <2>1
  <2>3. \A k \in s : k \in Nat
    BY <1>1, <1>2
  <2>4. Max(s) \in Nat /\ j \in Nat
    BY <1>2, <2>1, <2>3
  <2> QED
    BY <2>2, <2>4
<1> QED
  BY <1>2, <1>3 DEF SelectLastInSeq

\* What the mutations build without replaying it, the strict validation accepts, but for
\* claims that disobey the rules of their criteria (requirement-ledger.ts).
LEMMA ValidationAccepts ==
    ASSUME LedgerInv(ledger), \A i \in DOMAIN ledger.evidence : ObeysRules(ledger.evidence[i])
    PROVE  ValidateRequirementLedger(ledger)
<1>1. \A i \in DOMAIN ledger.evidence :
         /\ ledger.evidence[i].authority # AgentClaim =>
              ledger.evidence[i].by # "agent" /\ "evidence" \in Capabilities(ledger.evidence[i].by)
         /\ ObeysRules(ledger.evidence[i])
  <2>1. \A i \in DOMAIN ledger.evidence : ledger.evidence[i].authority # AgentClaim => ledger.evidence[i].by = "collector"
    BY DEF LedgerInv, EvidenceInv
  <2> QED
    BY <2>1 DEF Capabilities
<1>2. \A i \in DOMAIN ledger.transitions : TransitionReplays(ledger, ledger.transitions[i])
  BY DEF LedgerInv, TransitionInv
<1>3. ReplayStatuses(ledger).ok /\ ReplayStatuses(ledger).status = ledger.status
  <2>1. ReplayStatuses(ledger) = StatusReplay(ledger.transitions)
    BY DEF ReplayStatuses, StatusReplay, FreshStatus, InitialStatuses
  <2> QED
    BY <2>1 DEF LedgerInv, StatusInv
<1>4. ASSUME NEW r \in Requirements, ledger.status[r] = "SATISFIED"
      PROVE  EvidenceIsFresh(ledger, r, ledger.transitions[SelectLastInSeq(ledger.transitions,
                 LAMBDA t : t.requirement = r /\ t.to = "SATISFIED")].evidenceIds)
  <2>1. PICK j \in DOMAIN ledger.transitions :
               LastSatisfaction(ledger, r, j) /\ EvidenceIsFresh(ledger, r, ledger.transitions[j].evidenceIds)
    BY <1>4 DEF LedgerInv, FreshInv
  <2>2. LedgerType(ledger)
    BY DEF LedgerInv
  <2>3. SelectLastInSeq(ledger.transitions, LAMBDA t : t.requirement = r /\ t.to = "SATISFIED") = j
    BY <2>1, <2>2, LastSatisfactionIsFound DEF SelectLastInSeq
  <2> QED
    BY <2>1, <2>3
<1>5. RevisionsAreSequential(ledger)
  BY DEF LedgerInv
<1> QED
  BY <1>1, <1>2, <1>3, <1>4, <1>5 DEF ValidateRequirementLedger

LEMMA SatisfiedHasProof == LedgerInv(ledger) => SatisfiedIsProven
<1> SUFFICES ASSUME LedgerInv(ledger), NEW r \in Requirements, ledger.status[r] = "SATISFIED",
                    NEW c \in CriteriaOf(r)
             PROVE  \E e \in ToSet(ledger.evidence) :
                      /\ c \in e.criteria /\ Meets(e, c) /\ e.by # "agent"
                      /\ \A t \in {u \in ToSet(ledger.transitions) : u.requirement = r /\ u.from = "SATISFIED"} :
                           e.addedAt > t.after
  BY DEF SatisfiedIsProven
<1>1. PICK j \in DOMAIN ledger.transitions :
             LastSatisfaction(ledger, r, j) /\ EvidenceIsFresh(ledger, r, ledger.transitions[j].evidenceIds)
  BY DEF LedgerInv, FreshInv
<1> DEFINE ids == ledger.transitions[j].evidenceIds
<1>2. /\ ids \subseteq DOMAIN ledger.evidence /\ CriteriaMet(ledger, r, ids)
      /\ \A i \in ids : ledger.evidence[i].authority # AgentClaim /\ ledger.evidence[i].status = "pass"
  BY <1>1 DEF LedgerInv, TransitionInv, TransitionReplays, LastSatisfaction
<1>3. EvidenceIsFresh(ledger, r, ids)
  BY <1>1
<1> HIDE DEF ids
<1>4. ASSUME NEW i \in ids, c \in ledger.evidence[i].criteria
      PROVE  Meets(ledger.evidence[i], c) /\ ledger.evidence[i].by # "agent"
             /\ ledger.evidence[i] \in ToSet(ledger.evidence)
  BY <1>2, <1>4 DEF LedgerInv, EvidenceInv, ObeysRules, Meets, ToSet
<1>5. /\ \A t \in ToSet(ledger.transitions) : t.requirement = r /\ t.from = "SATISFIED" =>
             t.after <= ledger.regressed[r] /\ t.after \in Nat /\ t.after > 0
      /\ ledger.regressed[r] \in Nat
      /\ \A i \in ids : ledger.evidence[i].addedAt \in Nat
  <2>1. \A i \in DOMAIN ledger.transitions :
           ledger.transitions[i].requirement = r /\ ledger.transitions[i].from = "SATISFIED" =>
             ledger.transitions[i].after <= ledger.regressed[r]
    BY DEF LedgerInv, RegressionInv
  <2>2. \A i \in DOMAIN ledger.transitions : ledger.transitions[i].after \in 1..LedgerRevision(ledger)
    BY DEF LedgerInv, RevisionsAreSequential
  <2>3. LedgerRevision(ledger) \in Nat /\ ledger.regressed[r] \in Nat
        /\ \A i \in DOMAIN ledger.evidence : ledger.evidence[i].addedAt \in Nat
    <3>1. /\ ledger.evidence \in Seq(Evidence) /\ ledger.transitions \in Seq(Assessed)
          /\ ledger.regressed \in [Requirements -> Nat]
      BY DEF LedgerInv, LedgerType
    <3>2. LedgerRevision(ledger) \in Nat
      <4> DEFINE a == Len(ledger.evidence)
                 b == Len(ledger.transitions)
      <4>1. a \in Nat /\ b \in Nat
        BY <3>1
      <4>2. LedgerRevision(ledger) = a + b
        BY DEF LedgerRevision
      <4> HIDE DEF a, b
      <4> QED
        BY <4>1, <4>2
    <3>3. \A i \in DOMAIN ledger.evidence : ledger.evidence[i] \in Evidence
      BY <3>1
    <3> QED
      BY <3>1, <3>2, <3>3 DEF Evidence
  <2> QED
    BY <1>2, <2>1, <2>2, <2>3 DEF ToSet
<1>6. CASE ledger.regressed[r] = NeverRegressed
  <2>1. \A t \in ToSet(ledger.transitions) : ~(t.requirement = r /\ t.from = "SATISFIED")
    BY <1>5, <1>6 DEF NeverRegressed
  <2>2. PICK i \in ids : c \in ledger.evidence[i].criteria
    BY <1>2 DEF CriteriaMet
  <2> QED
    BY <1>4, <2>1, <2>2
<1>7. CASE ledger.regressed[r] # NeverRegressed
  <2>1. PICK i \in ids : c \in ledger.evidence[i].criteria /\ ledger.evidence[i].addedAt > ledger.regressed[r]
    BY <1>3, <1>7 DEF EvidenceIsFresh
  <2>2. \A t \in ToSet(ledger.transitions) : t.requirement = r /\ t.from = "SATISFIED" =>
           ledger.evidence[i].addedAt > t.after
    BY <1>5, <2>1
  <2> QED
    BY <1>4, <2>1, <2>2
<1> QED
  BY <1>6, <1>7

\* What every ledger that the mutations leave has to be (requirement-ledger.ts,
\* ledger-reducer.ts): it replays, what is satisfied is proven, and the reducers agree.
THEOREM LedgersAreSound == LedgerSpec => []LedgerIsSound
<1>1. ASSUME LedgerInv(ledger) PROVE LedgerIsSound
  <2>1. OnlyClaimsInvalidate
    <3> SUFFICES ASSUME ~\E i \in DOMAIN ledger.evidence :
                            ledger.evidence[i].authority = AgentClaim /\ ~ObeysRules(ledger.evidence[i])
                 PROVE  ValidateRequirementLedger(ledger)
      BY DEF OnlyClaimsInvalidate
    <3>1. \A i \in DOMAIN ledger.evidence : ObeysRules(ledger.evidence[i])
      BY <1>1 DEF LedgerInv, EvidenceInv
    <3> QED
      BY <1>1, <3>1, ValidationAccepts
  <2>2. ReducersAgree
    <3>1. StatusReplay(ledger.transitions) = [ok |-> TRUE, status |-> ledger.status]
          /\ VerifyRun(ledger.transitions) = [ok |-> TRUE, status |-> ledger.status]
          /\ ledger.transitions \in Seq(Assessed)
      BY <1>1 DEF LedgerInv, StatusInv, LedgerType
    <3>2. DeriveCurrentStates(ledger) = ledger.status
      <4>1. StatusReplay(ledger.transitions).ok /\ StatusReplay(ledger.transitions).status = ledger.status
        BY <3>1
      <4>2. FoldLeft(DeriveStep, StatusReplay(ledger.transitions).status, ledger.transitions)
              = StatusReplay(ledger.transitions).status
        BY <3>1, <4>1, DerivingEndsAtTheEnd
      <4> QED
        BY <4>1, <4>2 DEF DeriveCurrentStates
    <3>3. LedgerIsConsistent(ledger)
      <4>1. FoldLeft(VerifyStep, [ok |-> TRUE, status |-> [r \in Requirements |-> InitialStatus(r)]],
                     ledger.transitions) = [ok |-> TRUE, status |-> ledger.status]
        BY <3>1 DEF VerifyRun, FreshStatus, InitialStatuses
      <4> QED
        BY <4>1 DEF LedgerIsConsistent
    <3> QED
      BY <3>2, <3>3 DEF ReducersAgree
  <2>3. SatisfiedIsProven
    BY <1>1, SatisfiedHasProof
  <2> QED
    BY <2>1, <2>2, <2>3 DEF LedgerIsSound
<1> QED
  BY <1>1, LedgersKept, PTL

-----------------------------------------------------------------------------
(* Replaying the history of a continuation scheduler *)

EventKinds == {"SCHEDULE", "DISPATCH", "CONSUME", "CANCEL", "ABANDON"}
SchedulerStates == {"IDLE", "SCHEDULED", "DISPATCHED"}
Revisions == Nat \cup {NoRevision}
Dispatched == Continuations \cup {Absent}

Events == [eventId : Nat, kind : EventKinds, cycleId : Nat, requestSchedulerRevision : Nat,
           observed : Revisions, fromState : SchedulerStates, toState : SchedulerStates,
           revisionBefore : Nat, previousEventDigest : Seq(Nat), expected : Revisions,
           continuation : Dispatched]

Cycles == [cycle : Nat, due : Revisions, continuation : Dispatched]
CycleRuns == [ok : BOOLEAN, state : SchedulerStates, active : Cycles]
FreshCycle == [ok |-> TRUE, state |-> "IDLE", active |-> Unscheduled]

\* The values the loop of replayAndVerifyEvents has after each event.
SchedulerRun(events) ==
    LET run[i \in 0..Len(events)] ==
            IF i = 0 THEN [ok |-> TRUE, state |-> "IDLE", active |-> Unscheduled]
            ELSE ReplayEvent(run[i - 1], events[i], i, events)
    IN  run

LEMMA CycleRunsStay ==
    ASSUME NEW run \in CycleRuns, NEW e \in Events, NEW i, NEW events
    PROVE  ReplayEvent(run, e, i, events) \in CycleRuns
<1> DEFINE new == ReplayEvent(run, e, i, events)
<1>1. new.ok \in BOOLEAN
  BY DEF ReplayEvent
<1>2. new.state \in SchedulerStates
  BY DEF ReplayEvent, Events
<1>3. new.active \in Cycles
  <2>1. Unscheduled \in Cycles
    BY DEF Unscheduled, Cycles, Absent, NoRevision, Revisions, Dispatched
  <2>2. run.active \in Cycles
    BY DEF CycleRuns
  <2>3. [cycle |-> e.cycleId, due |-> e.expected, continuation |-> Absent] \in Cycles
    BY DEF Events, Cycles, Dispatched
  <2>4. [run.active EXCEPT !.continuation = e.continuation] \in Cycles
    BY <2>2 DEF Events, Cycles
  <2>5. new.active = CASE e.kind = "SCHEDULE" ->
                              [cycle |-> e.cycleId, due |-> e.expected, continuation |-> Absent]
                         [] e.kind = "DISPATCH" -> [run.active EXCEPT !.continuation = e.continuation]
                         [] OTHER -> Unscheduled
    BY DEF ReplayEvent
  <2> HIDE DEF new
  <2> QED
    BY <2>1, <2>3, <2>4, <2>5
<1> QED
  BY <1>1, <1>2, <1>3 DEF ReplayEvent, CycleRuns

LEMMA CycleLoop ==
    ASSUME NEW events \in Seq(Events)
    PROVE  /\ SchedulerRun(events)[0] = FreshCycle
           /\ \A i \in 1..Len(events) :
                SchedulerRun(events)[i] = ReplayEvent(SchedulerRun(events)[i - 1], events[i], i, events)
<1> DEFINE n == Len(events)
           places == [i \in 1..n |-> i]
           step == [p \in CycleRuns \X (1..n) |-> ReplayEvent(p[1], events[p[2]], p[2], events)]
           Equation(run) ==
             run = [i \in 0..n |-> IF i = 0 THEN [ok |-> TRUE, state |-> "IDLE", active |-> Unscheduled]
                                    ELSE ReplayEvent(run[i - 1], events[i], i, events)]
<1>1. SchedulerRun(events) = CHOOSE run : Equation(run)
  BY DEF SchedulerRun
<1>2. n \in Nat /\ \A i \in 1..n : events[i] \in Events
  OBVIOUS
<1> HIDE DEF n
<1>3. places \in Seq(1..n) /\ Len(places) = n /\ \A i \in 1..n : places[i] = i
  BY <1>2
<1>4. step \in [CycleRuns \X (1..n) -> CycleRuns]
  <2> SUFFICES ASSUME NEW v \in CycleRuns, NEW i \in 1..n PROVE ReplayEvent(v, events[i], i, events) \in CycleRuns
    OBVIOUS
  <2> QED
    BY <1>2, CycleRunsStay
<1>5. FreshCycle \in CycleRuns
  BY DEF FreshCycle, CycleRuns, SchedulerStates, Unscheduled, Cycles, Absent, NoRevision, Revisions, Dispatched
<1>6. PICK g \in [SUBSET (1..n) -> CycleRuns] : Folds(g, n, FreshCycle, step, places)
  <2> HIDE DEF step, places
  <2>1. \E g \in [SUBSET (1..Len(places)) -> CycleRuns] : Folds(g, Len(places), FreshCycle, step, places)
    BY <1>3, <1>4, <1>5, FoldsExist
  <2> QED
    BY <1>3, <2>1
<1> DEFINE run == [i \in 0..n |-> g[1..i]]
<1>7. ASSUME NEW i \in 0..n
      PROVE  run[i] = IF i = 0 THEN [ok |-> TRUE, state |-> "IDLE", active |-> Unscheduled]
                      ELSE ReplayEvent(run[i - 1], events[i], i, events)
  <2>1. CASE i = 0
    <3>1. 1..0 = {} /\ 1..0 \in SUBSET (1..n)
      BY <1>2
    <3>2. g[1..0] = FreshCycle
      BY <1>6, <3>1 DEF Folds
    <3> QED
      BY <2>1, <3>2 DEF FreshCycle
  <2>2. CASE i # 0
    <3>1. i \in 1..n /\ i - 1 \in 0..n /\ 1..(i - 1) \in SUBSET (1..n)
      BY <1>2, <2>2
    <3>2. Max(1..i) = i /\ (1..i) \ {Max(1..i)} = 1..(i - 1) /\ 1..i \in SUBSET (1..n) /\ 1..i # {}
      BY <1>2, <3>1, FoldsInOrder
    <3>3. g[1..i] = step[g[1..(i - 1)], places[i]]
      BY <1>6, <3>2 DEF Folds
    <3>4. g[1..(i - 1)] \in CycleRuns
      BY <3>1
    <3>5. g[1..i] = ReplayEvent(g[1..(i - 1)], events[i], i, events)
      BY <1>3, <3>1, <3>3, <3>4
    <3> QED
      BY <2>2, <3>1, <3>5
  <2> QED
    BY <2>1, <2>2
<1>8. Equation(run)
  <2> HIDE DEF run
  <2>1. run = [i \in 0..n |-> run[i]]
    BY DEF run
  <2> QED
    BY <1>7, <2>1
<1>9. Equation(SchedulerRun(events))
  <2> HIDE DEF Equation, run
  <2> QED
    BY <1>1, <1>8
<1>10. \A i \in 1..n : i \in 0..n /\ i # 0
  BY <1>2
<1>11. 0 \in 0..n
  BY <1>2
<1>12. SchedulerRun(events)[0] = FreshCycle
  BY <1>9, <1>11 DEF FreshCycle
<1>13. \A i \in 1..n : SchedulerRun(events)[i] = ReplayEvent(SchedulerRun(events)[i - 1], events[i], i, events)
  BY <1>9, <1>10
<1> QED
  BY <1>12, <1>13 DEF n

LEMMA CycleRunsTyped ==
    ASSUME NEW ts \in Seq(Events)
    PROVE  SchedulerRun(ts)[Len(ts)] \in CycleRuns
<1> DEFINE n == Len(ts)
           f == SchedulerRun(ts)
           P == {k \in Nat : k <= n => f[k] \in CycleRuns}
<1>1. n \in Nat /\ \A k \in 1..n : ts[k] \in Events
  OBVIOUS
<1>2. f[0] = FreshCycle /\ \A k \in 1..n : f[k] = ReplayEvent(f[k - 1], ts[k], k, ts)
  BY CycleLoop
<1> HIDE DEF f, n
<1>3. 0 \in P
  <2>1. FreshCycle \in CycleRuns
    BY DEF FreshCycle, CycleRuns, SchedulerStates, Unscheduled, Cycles, Absent, NoRevision, Revisions, Dispatched
  <2> QED
    BY <1>2, <2>1
<1>4. ASSUME NEW k \in P PROVE k + 1 \in P
  <2> DEFINE j == k + 1
  <2>1. j \in Nat /\ k \in Nat /\ j - 1 = k /\ (j <= n => j \in 1..n /\ k <= n)
    BY <1>1
  <2>2. j <= n => f[k] \in CycleRuns
    BY <2>1
  <2> HIDE DEF j, P
  <2>3. ASSUME j <= n PROVE f[j] \in CycleRuns
    BY <1>1, <1>2, <2>1, <2>2, <2>3, CycleRunsStay
  <2> QED
    BY <2>1, <2>3 DEF P, j
<1>5. P \in SUBSET Nat
  OBVIOUS
<1> HIDE DEF P
<1>6. P = Nat
  BY <1>3, <1>4, <1>5, Induction
<1> QED
  BY <1>1, <1>6 DEF P, f, n

\* An event that is added is replayed after those before it, which it does not change.
LEMMA CycleOneMore ==
    ASSUME NEW ts \in Seq(Events), NEW e \in Events
    PROVE  LET us == Append(ts, e)
               n == Len(ts)
           IN  SchedulerRun(us)[n + 1] = ReplayEvent(SchedulerRun(ts)[n], e, n + 1, us)
<1> DEFINE us == Append(ts, e)
           n == Len(ts)
           f == SchedulerRun(ts)
           g == SchedulerRun(us)
<1>1. /\ us \in Seq(Events) /\ Len(us) = n + 1 /\ n \in Nat
      /\ us[n + 1] = e /\ \A k \in 1..n : us[k] = ts[k] /\ SubSeq(us, 1, k - 1) = SubSeq(ts, 1, k - 1)
  OBVIOUS
<1> HIDE DEF us, n
<1>2. f[0] = FreshCycle /\ \A k \in 1..n : f[k] = ReplayEvent(f[k - 1], ts[k], k, ts)
  BY CycleLoop DEF n
<1>3. g[0] = FreshCycle /\ \A k \in 1..(n + 1) : g[k] = ReplayEvent(g[k - 1], us[k], k, us)
  <2>1. g[0] = FreshCycle /\ \A k \in 1..Len(us) : g[k] = ReplayEvent(g[k - 1], us[k], k, us)
    BY <1>1, CycleLoop
  <2> QED
    BY <1>1, <2>1
<1> HIDE DEF f, g
<1>4. ASSUME NEW k \in 1..n, NEW run PROVE ReplayEvent(run, ts[k], k, us) = ReplayEvent(run, ts[k], k, ts)
  <2>1. SubSeq(us, 1, k - 1) = SubSeq(ts, 1, k - 1)
    BY <1>1
  <2>2. \A j \in 1..(k - 1) : us[j] = ts[j]
    <3>1. \A j \in 1..(k - 1) : j \in 1..n
      BY <1>1
    <3> QED
      BY <1>1, <3>1
  <2> QED
    BY <2>1, <2>2 DEF ReplayEvent
<1>5. f[n] = g[n]
  <2> DEFINE P == {k \in Nat : k <= n => f[k] = g[k]}
  <2>1. 0 \in P
    BY <1>2, <1>3
  <2>2. ASSUME NEW k \in P PROVE k + 1 \in P
    <3> DEFINE j == k + 1
    <3>1. j \in Nat /\ k \in Nat /\ j - 1 = k /\ (j <= n => j \in 1..n /\ j \in 1..(n + 1) /\ k <= n)
      BY <1>1
    <3>2. j <= n => f[k] = g[k]
      BY <3>1
    <3> HIDE DEF j, P
    <3>3. ASSUME j <= n PROVE f[j] = g[j]
      <4>1. j \in 1..n /\ j \in 1..(n + 1) /\ f[k] = g[k] /\ j - 1 = k
        BY <3>1, <3>2, <3>3
      <4>2. f[j] = ReplayEvent(f[k], ts[j], j, ts) /\ g[j] = ReplayEvent(g[k], us[j], j, us)
        BY <1>2, <1>3, <4>1
      <4>3. us[j] = ts[j]
        BY <1>1, <4>1
      <4>4. ReplayEvent(f[k], ts[j], j, us) = ReplayEvent(f[k], ts[j], j, ts)
        BY <1>4, <4>1
      <4> QED
        BY <4>1, <4>2, <4>3, <4>4
    <3> QED
      BY <3>1, <3>3 DEF P, j
  <2>3. P \in SUBSET Nat
    OBVIOUS
  <2> HIDE DEF P
  <2>4. P = Nat
    BY <2>1, <2>2, <2>3, Induction
  <2> QED
    BY <1>1, <2>4 DEF P
<1>6. g[n + 1] = ReplayEvent(f[n], e, n + 1, us)
  <2> DEFINE m == n + 1
  <2>1. m \in 1..(n + 1) /\ m - 1 = n
    BY <1>1
  <2> HIDE DEF m
  <2>2. g[m] = ReplayEvent(g[m - 1], us[m], m, us)
    BY <1>3, <2>1
  <2>3. us[m] = e
    BY <1>1 DEF m
  <2> QED
    BY <1>5, <2>1, <2>2, <2>3 DEF m
<1> QED
  BY <1>6 DEF us, n, f, g

-----------------------------------------------------------------------------
(* Scheduler records *)

SchedulerType(rec) ==
    rec \in [state : SchedulerStates, events : Seq(Events), historyDigest : Seq(Nat)]

\* Every event belongs to a cycle that was scheduled before it, and no id is used twice.
LineInv(events) ==
    \A i \in DOMAIN events :
        /\ events[i].kind = "SCHEDULE" => events[i].cycleId = events[i].eventId
        /\ \E j \in 1..i : events[i].cycleId = events[j].eventId
        /\ \A j \in DOMAIN events : events[i].eventId = events[j].eventId => i = j

\* CyclesAreExclusive, of any history.
Exclusive(events) ==
    \A i, j \in DOMAIN events :
        /\ i < j /\ events[i].kind = events[j].kind => events[i].cycleId # events[j].cycleId
        /\ i < j /\ Closes(events[i]) => events[i].cycleId # events[j].cycleId
        /\ (/\ events[i].kind = "CONSUME" /\ events[j].kind = "DISPATCH"
            /\ events[i].cycleId = events[j].cycleId) =>
             events[i].continuation = events[j].continuation /\ events[i].observed = events[j].observed

\* The event that opened the open cycle: the last one, or the one before its dispatch.
OpenedAt(rec) == IF rec.state = "SCHEDULED" THEN Len(rec.events) ELSE Len(rec.events) - 1

\* The open cycle is at the end of the history, and it is what the replay finds there.
OpenInv(rec) ==
    LET events == rec.events
        n == Len(events)
        s == OpenedAt(rec)
        run == SchedulerRun(events)[n]
    IN  /\ run.ok /\ run.state = rec.state
        /\ rec.state = IF n = 0 THEN "IDLE" ELSE events[n].toState
        /\ rec.state = "IDLE" => run.active = Unscheduled
        /\ rec.state # "IDLE" =>
             /\ s \in 1..n /\ events[s].kind = "SCHEDULE"
             /\ run.active.cycle = events[s].eventId /\ run.active.due = events[s].expected
        /\ rec.state = "DISPATCHED" =>
             /\ events[n].kind = "DISPATCH" /\ events[n].cycleId = events[s].eventId
             /\ events[n].observed = events[s].expected
             /\ run.active.continuation = events[n].continuation

RecInv(rec) ==
    /\ SchedulerType(rec) /\ rec.historyDigest = ComputeHistoryDigest(rec.events)
    /\ LineInv(rec.events) /\ Exclusive(rec.events) /\ OpenInv(rec)

\* findActiveScheduleEvent and findActiveDispatchEvent find the open cycle, and no event
\* before it belongs to it.
LEMMA OpenCycleIsFound ==
    ASSUME NEW rec, RecInv(rec), rec.state # "IDLE"
    PROVE  LET events == rec.events
               s == OpenedAt(rec)
           IN  /\ s \in 1..Len(events) /\ FindActive(events, "SCHEDULE") = s
               /\ \A i \in 1..Len(events) : i < s => events[i].cycleId # events[s].eventId
               /\ rec.state = "DISPATCHED" => FindActive(events, "DISPATCH") = Len(events)
<1> DEFINE events == rec.events
           n == Len(events)
           s == OpenedAt(rec)
           open(kind) == {i \in DOMAIN events :
                            /\ events[i].kind = kind
                            /\ \A j \in (i + 1)..Len(events) :
                                 ~(Closes(events[j]) /\ events[j].cycleId = events[i].cycleId)}
<1>1. /\ events \in Seq(Events) /\ n \in Nat /\ DOMAIN events = 1..n
      /\ rec.state \in {"SCHEDULED", "DISPATCHED"}
  BY DEF RecInv, SchedulerType, SchedulerStates
<1>2. /\ s \in 1..n /\ events[s].kind = "SCHEDULE"
      /\ rec.state = "DISPATCHED" => events[n].kind = "DISPATCH" /\ events[n].cycleId = events[s].eventId
  BY DEF RecInv, OpenInv
<1>3. /\ rec.state = "SCHEDULED" => s = n
      /\ rec.state = "DISPATCHED" => s = n - 1
  BY DEF OpenedAt
<1> HIDE DEF s, n
<1>4. \A i \in 1..n : i < s => events[i].cycleId # events[s].eventId
  <2> SUFFICES ASSUME NEW i \in 1..n, i < s PROVE events[i].cycleId # events[s].eventId
    OBVIOUS
  <2>1. PICK j \in 1..i : events[i].cycleId = events[j].eventId
    BY <1>1 DEF RecInv, LineInv
  <2>2. j \in 1..n /\ j # s
    BY <1>1, <1>2, <2>1
  <2> QED
    BY <1>1, <1>2, <2>1, <2>2 DEF RecInv, LineInv
<1>5. \A j \in (s + 1)..n : events[j].kind = "DISPATCH" /\ j = n
  BY <1>1, <1>2, <1>3
<1>6. n = Len(events)
  BY DEF n
<1> HIDE DEF events
<1>7. FindActive(events, "SCHEDULE") = s
  <2>1. s \in open("SCHEDULE")
    BY <1>1, <1>2, <1>5, <1>6 DEF Closes
  <2>2. \A i \in open("SCHEDULE") : i <= s
    <3> SUFFICES ASSUME NEW i \in 1..n, events[i].kind = "SCHEDULE", i > s PROVE FALSE
      BY <1>1, <1>2
    <3>1. i \in (s + 1)..n
      BY <1>1, <1>2
    <3> QED
      BY <1>5, <3>1
  <2>3. open("SCHEDULE") \in SUBSET (1..n)
    BY <1>1
  <2> DEFINE o == open("SCHEDULE")
  <2> HIDE DEF open
  <2>4. Max(o) \in o /\ \A j \in o : j <= Max(o)
    BY <1>1, <2>1, <2>3, MaxOfPositions
  <2>5. Max(o) = s
    BY <1>1, <1>2, <2>1, <2>2, <2>3, <2>4
  <2>6. FindActive(events, "SCHEDULE") = IF open("SCHEDULE") = {} THEN 0 ELSE Max(open("SCHEDULE"))
    BY DEF FindActive, open
  <2> QED
    BY <2>1, <2>5, <2>6
<1>8. ASSUME rec.state = "DISPATCHED" PROVE FindActive(events, "DISPATCH") = n
  <2>1. n \in open("DISPATCH")
    BY <1>1, <1>2, <1>3, <1>6, <1>8
  <2>2. \A i \in open("DISPATCH") : i <= n
    BY <1>1
  <2>3. open("DISPATCH") \in SUBSET (1..n)
    BY <1>1
  <2> DEFINE o == open("DISPATCH")
  <2> HIDE DEF open
  <2>4. Max(o) \in o /\ \A j \in o : j <= Max(o)
    BY <1>1, <2>1, <2>3, MaxOfPositions
  <2>5. Max(o) = n
    BY <1>1, <1>2, <2>1, <2>2, <2>3, <2>4
  <2>6. FindActive(events, "DISPATCH") = IF open("DISPATCH") = {} THEN 0 ELSE Max(open("DISPATCH"))
    BY DEF FindActive, open
  <2> QED
    BY <2>1, <2>5, <2>6
<1> QED
  BY <1>1, <1>2, <1>4, <1>7, <1>8 DEF events, n, s

\* checkIdempotency finds an event with the id of the request, or there is none.
LEMMA ExistingIsFound ==
    ASSUME NEW rec, SchedulerType(rec), NEW q
    PROVE  /\ Existing(rec, q) # 0 => /\ Existing(rec, q) \in DOMAIN rec.events
                                      /\ rec.events[Existing(rec, q)].eventId = q.eventId
           /\ Existing(rec, q) = 0 => \A i \in DOMAIN rec.events : rec.events[i].eventId # q.eventId
<1> DEFINE events == rec.events
           s == {i \in 1..Len(events) : events[i].eventId = q.eventId}
<1>1. Len(events) \in Nat /\ DOMAIN events = 1..Len(events)
  BY DEF SchedulerType
<1>2. Existing(rec, q) = IF s # {} THEN Min(s) ELSE 0
  BY DEF Existing, SelectInSeq
<1>3. ASSUME s # {} PROVE Min(s) \in s
  <2>1. s \in SUBSET Nat
    BY <1>1
  <2> HIDE DEF s
  <2>2. PICK k \in s : \A j \in s : ~(<<j, k>> \in OpToRel(<, Nat))
    BY <1>3, <2>1, NatLessThanWellFounded, WFMin
  <2>3. ASSUME NEW j \in s PROVE k <= j
    <3>1. j \in Nat /\ k \in Nat
      BY <2>1
    <3>2. ~(j < k)
      BY <2>2, <3>1 DEF OpToRel
    <3> QED
      BY <3>1, <3>2
  <2>4. \E x \in s : \A y \in s : x <= y
    BY <2>3
  <2> QED
    BY <2>4 DEF Min
<1>4. 0 \notin s
  BY <1>1
<1> QED
  BY <1>1, <1>2, <1>3, <1>4

\* A request that the commands make: scheduling a cycle names it after itself.
IsRequest(q) ==
    /\ q.kind \in EventKinds /\ q.eventId \in Nat /\ q.cycleId \in Nat /\ q.schedulerRevision \in Nat
    /\ q.expected \in Revisions /\ q.continuation \in Dispatched
    /\ q.kind = "SCHEDULE" => q.cycleId = q.eventId /\ q.expected \in Nat

\* What the five mutations append.
LEMMA FreshEvent ==
    ASSUME NEW rec, RecInv(rec), NEW q, IsRequest(q), NEW current \in Nat, FreshGuards(rec, q, current)
    PROVE  LET e == EventFor(rec, q, current)
               n == Len(rec.events)
               opened == rec.events[OpenedAt(rec)]
           IN  /\ e \in Events
               /\ e.kind = q.kind /\ e.eventId = q.eventId /\ e.cycleId = q.cycleId
               /\ e.expected = q.expected /\ e.continuation = q.continuation
               /\ e.requestSchedulerRevision = q.schedulerRevision
               /\ e.fromState = rec.state /\ e.fromState \in FromStates(q.kind) /\ e.toState = ToState(q.kind)
               /\ e.revisionBefore = n /\ e.previousEventDigest = rec.historyDigest
               /\ q.kind = "SCHEDULE" => rec.state = "IDLE" /\ e.observed = q.expected
               /\ q.kind # "SCHEDULE" => rec.state # "IDLE" /\ q.cycleId = opened.eventId
               /\ q.kind = "DISPATCH" => rec.state = "SCHEDULED" /\ e.observed = opened.expected
               /\ q.kind = "CONSUME" => /\ rec.state = "DISPATCHED" /\ e.observed = opened.expected
                                        /\ q.continuation = rec.events[n].continuation
               /\ q.kind = "CANCEL" => e.observed >= opened.expected
               /\ q.kind = "ABANDON" => e.observed > opened.expected
<1> DEFINE e == EventFor(rec, q, current)
           n == Len(rec.events)
           s == OpenedAt(rec)
           cycle == FindActive(rec.events, "SCHEDULE")
<1>1. /\ rec.events \in Seq(Events) /\ n \in Nat /\ rec.state \in SchedulerStates
      /\ rec.historyDigest \in Seq(Nat)
  BY DEF RecInv, SchedulerType
<1>2. q.kind = "SCHEDULE" <=> rec.state = "IDLE"
  BY <1>1 DEF FreshGuards, FromStates, IsRequest, EventKinds, SchedulerStates
<1>3. rec.state # "IDLE" => /\ s \in 1..n /\ cycle = s
                            /\ rec.state = "DISPATCHED" => FindActive(rec.events, "DISPATCH") = n
  BY OpenCycleIsFound
<1> DEFINE observed == CASE q.kind = "SCHEDULE" -> q.expected
                         [] q.kind \in {"DISPATCH", "CONSUME"} -> rec.events[cycle].expected
                         [] OTHER -> current
<1>4. e = [eventId |-> q.eventId, kind |-> q.kind, cycleId |-> q.cycleId,
           requestSchedulerRevision |-> q.schedulerRevision, observed |-> observed,
           fromState |-> rec.state, toState |-> ToState(q.kind),
           revisionBefore |-> n, previousEventDigest |-> rec.historyDigest,
           expected |-> q.expected, continuation |-> q.continuation]
  BY DEF EventFor, SchedulerRevision
<1>5. observed \in Revisions
  <2>1. rec.state # "IDLE" => rec.events[s] \in Events
    BY <1>1, <1>3
  <2> QED
    BY <1>2, <1>3, <2>1 DEF IsRequest, Events, Revisions
<1>6. ToState(q.kind) \in SchedulerStates
  BY DEF ToState, SchedulerStates
<1>7. q.kind # "SCHEDULE" => /\ rec.events[s].eventId = q.cycleId
                             /\ RevisionAllows(q.kind, rec.events[s].expected, current)
  BY <1>2, <1>3 DEF FreshGuards
<1>8. rec.state \in FromStates(q.kind)
  BY DEF FreshGuards
<1>9. q.kind = "CONSUME" => q.continuation = rec.events[n].continuation
  BY <1>3, <1>8 DEF FreshGuards, FromStates
<1> HIDE DEF e, n, s, cycle, observed
<1>10. e \in Events
  BY <1>1, <1>4, <1>5, <1>6 DEF IsRequest, Events
<1>11. /\ q.kind = "SCHEDULE" => observed = q.expected
       /\ q.kind \in {"DISPATCH", "CONSUME"} => observed = rec.events[s].expected
       /\ q.kind = "CANCEL" => observed >= rec.events[s].expected
       /\ q.kind = "ABANDON" => observed > rec.events[s].expected
  BY <1>2, <1>3, <1>7 DEF observed, RevisionAllows
<1>12. /\ q.kind = "DISPATCH" => rec.state = "SCHEDULED"
       /\ q.kind = "CONSUME" => rec.state = "DISPATCHED"
  BY <1>8 DEF FromStates
<1> QED
  BY <1>2, <1>4, <1>7, <1>8, <1>9, <1>10, <1>11, <1>12 DEF e, n, s

\* The record a command writes replays, and its cycles are exclusive.
LEMMA WithEventKeepsRecord ==
    ASSUME NEW rec, RecInv(rec), NEW q, IsRequest(q), Existing(rec, q) = 0,
           NEW current \in Nat, FreshGuards(rec, q, current)
    PROVE  RecInv(WithEvent(rec, EventFor(rec, q, current)))
<1> DEFINE e == EventFor(rec, q, current)
           ts == rec.events
           us == Append(ts, e)
           n == Len(ts)
           s == OpenedAt(rec)
           new == WithEvent(rec, e)
           before == SchedulerRun(ts)[n]
           after == ReplayEvent(before, e, n + 1, us)
<1>1. /\ ts \in Seq(Events) /\ n \in Nat /\ rec.state \in SchedulerStates /\ DOMAIN ts = 1..n
      /\ rec.historyDigest \in Seq(Nat) /\ rec.historyDigest = ComputeHistoryDigest(ts)
  BY DEF RecInv, SchedulerType
<1>2. /\ e \in Events
      /\ e.kind = q.kind /\ e.eventId = q.eventId /\ e.cycleId = q.cycleId
      /\ e.expected = q.expected /\ e.continuation = q.continuation
      /\ e.fromState = rec.state /\ e.fromState \in FromStates(q.kind) /\ e.toState = ToState(q.kind)
      /\ e.revisionBefore = n /\ e.previousEventDigest = rec.historyDigest
      /\ q.kind = "SCHEDULE" => rec.state = "IDLE" /\ e.observed = q.expected
      /\ q.kind # "SCHEDULE" => rec.state # "IDLE" /\ q.cycleId = ts[s].eventId
      /\ q.kind = "DISPATCH" => rec.state = "SCHEDULED" /\ e.observed = ts[s].expected
      /\ q.kind = "CONSUME" => /\ rec.state = "DISPATCHED" /\ e.observed = ts[s].expected
                               /\ q.continuation = ts[n].continuation
      /\ q.kind = "CANCEL" => e.observed >= ts[s].expected
      /\ q.kind = "ABANDON" => e.observed > ts[s].expected
  BY FreshEvent
<1>3. /\ q.kind \in EventKinds /\ (q.kind = "SCHEDULE" => q.cycleId = q.eventId)
  BY DEF IsRequest
<1>4. \A i \in 1..n : ts[i].eventId # q.eventId
  BY <1>1, ExistingIsFound DEF RecInv
<1>5. new = [state |-> e.toState, events |-> us, historyDigest |-> ComputeHistoryDigest(us)]
  BY DEF WithEvent
<1>6. rec.state # "IDLE" => /\ s \in 1..n /\ \A i \in 1..n : i < s => ts[i].cycleId # ts[s].eventId
                            /\ ts[s].kind = "SCHEDULE"
                            /\ rec.state = "SCHEDULED" => s = n
                            /\ rec.state = "DISPATCHED" => /\ s = n - 1 /\ ts[n].kind = "DISPATCH"
                                                           /\ ts[n].cycleId = ts[s].eventId
                                                           /\ ts[n].observed = ts[s].expected
                            /\ before.active.cycle = ts[s].eventId /\ before.active.due = ts[s].expected
                            /\ rec.state = "DISPATCHED" => before.active.continuation = ts[n].continuation
  BY OpenCycleIsFound DEF RecInv, OpenInv, OpenedAt
<1>7. before.ok /\ before.state = rec.state
  BY DEF RecInv, OpenInv
<1> HIDE DEF e, s, before
<1>8. /\ us \in Seq(Events) /\ Len(us) = n + 1 /\ DOMAIN us = 1..(n + 1) /\ us[n + 1] = e
      /\ \A i \in 1..n : us[i] = ts[i]
      /\ SubSeq(us, 1, n) = ts
  BY <1>1, <1>2
<1>9. SchedulerRun(us)[n + 1] = after
  BY <1>1, <1>2, CycleOneMore DEF before
<1> HIDE DEF us, n, new, after, ts
<1>10. (\A i \in 1..(n + 1) : i \in 1..n \/ i = n + 1)
       /\ (\A i \in 1..n : i \in 1..(n + 1) /\ i < n + 1 /\ i \in Nat) /\ n + 1 \in 1..(n + 1)
  BY <1>1
<1>11. SchedulerType(new) /\ new.historyDigest = ComputeHistoryDigest(new.events)
  <2>1. ComputeHistoryDigest(us) \in Seq(Nat)
    <3>1. \A i \in 1..(n + 1) : us[i].eventId \in Nat
      <4>1. \A i \in 1..(n + 1) : us[i] \in Events
        BY <1>8
      <4> QED
        BY <4>1 DEF Events
    <3>2. ComputeHistoryDigest(us) = [i \in 1..(n + 1) |-> us[i].eventId]
      BY <1>8 DEF ComputeHistoryDigest
    <3> QED
      BY <1>1, <3>1, <3>2
  <2> QED
    BY <1>2, <1>5, <1>8, <2>1 DEF SchedulerType, Events
<1>12. LineInv(us)
  <2>1. \A i \in 1..n : /\ ts[i].kind = "SCHEDULE" => ts[i].cycleId = ts[i].eventId
                        /\ \E j \in 1..i : ts[i].cycleId = ts[j].eventId
                        /\ \A j \in 1..n : ts[i].eventId = ts[j].eventId => i = j
    BY <1>1 DEF RecInv, LineInv, ts
  <2>2. \A i \in 1..n : \E j \in 1..i : us[i].cycleId = us[j].eventId
    <3> SUFFICES ASSUME NEW i \in 1..n PROVE \E j \in 1..i : us[i].cycleId = us[j].eventId
      OBVIOUS
    <3>1. PICK j \in 1..i : ts[i].cycleId = ts[j].eventId
      BY <2>1
    <3>2. j \in 1..n
      BY <1>1
    <3> QED
      BY <1>8, <3>1, <3>2
  <2>3. \E j \in 1..(n + 1) : e.cycleId = us[j].eventId
    BY <1>2, <1>3, <1>6, <1>8, <1>10
  <2>4. \A i, j \in 1..(n + 1) : us[i].eventId = us[j].eventId => i = j
    BY <1>2, <1>4, <1>8, <1>10, <2>1
  <2>5. \A i \in 1..(n + 1) : us[i].kind = "SCHEDULE" => us[i].cycleId = us[i].eventId
    BY <1>2, <1>3, <1>8, <1>10, <2>1
  <2>6. \A i \in 1..(n + 1) : \E j \in 1..i : us[i].cycleId = us[j].eventId
    BY <1>8, <1>10, <2>2, <2>3
  <2> QED
    BY <1>8, <2>4, <2>5, <2>6 DEF LineInv
<1>13. ASSUME NEW i \in 1..n
       PROVE  /\ ts[i].kind = e.kind => ts[i].cycleId # e.cycleId
              /\ Closes(ts[i]) => ts[i].cycleId # e.cycleId
              /\ (ts[i].kind = "CONSUME" /\ e.kind = "DISPATCH") => ts[i].cycleId # e.cycleId
              /\ (ts[i].kind = "DISPATCH" /\ e.kind = "CONSUME" /\ ts[i].cycleId = e.cycleId) =>
                   ts[i].continuation = e.continuation /\ ts[i].observed = e.observed
  <2>1. CASE q.kind = "SCHEDULE"
    <3>1. PICK j \in 1..i : ts[i].cycleId = ts[j].eventId
      BY <1>1 DEF RecInv, LineInv, ts
    <3>2. j \in 1..n
      BY <1>1
    <3>3. ts[i].cycleId # e.cycleId
      BY <1>2, <1>3, <1>4, <2>1, <3>1, <3>2
    <3> QED
      BY <1>2, <2>1, <3>3
  <2>2. CASE q.kind # "SCHEDULE"
    <3>1. rec.state # "IDLE" /\ e.cycleId = ts[s].eventId /\ s \in 1..n
      BY <1>2, <1>6, <2>2
    <3>2. CASE i < s
      BY <1>6, <3>1, <3>2
    <3>3. CASE i = s
      BY <1>2, <1>6, <2>2, <3>1, <3>3 DEF Closes
    <3>4. CASE i > s
      <4>1. rec.state = "DISPATCHED" /\ i = n
        BY <1>1, <1>6, <3>1, <3>4 DEF SchedulerStates
      <4> QED
        BY <1>2, <1>6, <2>2, <3>1, <4>1 DEF Closes
    <3> QED
      BY <1>1, <3>1, <3>2, <3>3, <3>4
  <2> QED
    BY <2>1, <2>2
<1>14. Exclusive(us)
  <2>1. \A i, j \in 1..n :
           /\ i < j /\ ts[i].kind = ts[j].kind => ts[i].cycleId # ts[j].cycleId
           /\ i < j /\ Closes(ts[i]) => ts[i].cycleId # ts[j].cycleId
           /\ (ts[i].kind = "CONSUME" /\ ts[j].kind = "DISPATCH" /\ ts[i].cycleId = ts[j].cycleId) =>
                ts[i].continuation = ts[j].continuation /\ ts[i].observed = ts[j].observed
    BY <1>1 DEF RecInv, Exclusive, ts
  <2> SUFFICES ASSUME NEW i \in 1..(n + 1), NEW j \in 1..(n + 1)
               PROVE  /\ i < j /\ us[i].kind = us[j].kind => us[i].cycleId # us[j].cycleId
                      /\ i < j /\ Closes(us[i]) => us[i].cycleId # us[j].cycleId
                      /\ (us[i].kind = "CONSUME" /\ us[j].kind = "DISPATCH" /\ us[i].cycleId = us[j].cycleId) =>
                           us[i].continuation = us[j].continuation /\ us[i].observed = us[j].observed
    BY <1>8 DEF Exclusive
  <2>2. CASE i \in 1..n /\ j \in 1..n
    BY <1>8, <2>1, <2>2
  <2>3. CASE i \in 1..n /\ j = n + 1
    BY <1>8, <1>13, <2>3
  <2>4. CASE i = n + 1 /\ j \in 1..n
    <3>1. ~(i < j) /\ us[i] = e /\ us[j] = ts[j]
      BY <1>1, <1>8, <2>4
    <3> QED
      BY <1>13, <2>4, <3>1
  <2>5. CASE i = n + 1 /\ j = n + 1
    <3>1. ~(i < j) /\ us[i] = e /\ us[j] = e
      BY <1>1, <1>8, <2>5
    <3> QED
      BY <3>1
  <2> QED
    BY <1>10, <2>2, <2>3, <2>4, <2>5
<1>15. OpenInv(new)
  <2>1. /\ after.state = e.toState
        /\ after.active = CASE e.kind = "SCHEDULE" ->
                                 [cycle |-> e.cycleId, due |-> e.expected, continuation |-> Absent]
                            [] e.kind = "DISPATCH" -> [before.active EXCEPT !.continuation = e.continuation]
                            [] OTHER -> Unscheduled
    BY DEF ReplayEvent, after
  <2>2. after.ok
    <3>1. e.previousEventDigest = ComputeHistoryDigest(SubSeq(us, 1, (n + 1) - 1))
      <4>1. (n + 1) - 1 = n
        BY <1>1
      <4>2. SubSeq(us, 1, (n + 1) - 1) = ts
        BY <1>8, <4>1
      <4> QED
        BY <1>1, <1>2, <4>2
    <3>2. \A j \in 1..((n + 1) - 1) : us[j].eventId # e.eventId
      <4>1. (n + 1) - 1 = n /\ \A j \in 1..n : us[j].eventId # e.eventId
        BY <1>1, <1>2, <1>4, <1>8
      <4> QED
        BY <4>1
    <3>3. e.revisionBefore = (n + 1) - 1
      BY <1>1, <1>2
    <3>4. /\ e.fromState = before.state /\ e.fromState \in FromStates(e.kind)
          /\ e.toState = ToState(e.kind)
      BY <1>2, <1>7
    <3>5. e.cycleId = IF e.kind = "SCHEDULE" THEN e.eventId ELSE before.active.cycle
      BY <1>2, <1>3, <1>6
    <3>6. (CASE e.kind = "SCHEDULE" -> e.observed = e.expected
             [] e.kind \in {"DISPATCH", "CONSUME"} -> e.observed = before.active.due
             [] e.kind = "CANCEL" -> e.observed >= before.active.due
             [] e.kind = "ABANDON" -> e.observed > before.active.due)
      BY <1>2, <1>3, <1>6 DEF EventKinds
    <3>7. e.kind = "CONSUME" => e.continuation = before.active.continuation
      BY <1>2, <1>6
    <3> DEFINE accepted ==
                 /\ before.ok
                 /\ e.previousEventDigest = ComputeHistoryDigest(SubSeq(us, 1, (n + 1) - 1))
                 /\ \A j \in 1..((n + 1) - 1) : us[j].eventId # e.eventId
                 /\ e.revisionBefore = (n + 1) - 1
                 /\ e.fromState = before.state /\ e.fromState \in FromStates(e.kind)
                 /\ e.toState = ToState(e.kind)
                 /\ e.cycleId = IF e.kind = "SCHEDULE" THEN e.eventId ELSE before.active.cycle
                 /\ CASE e.kind = "SCHEDULE" -> e.observed = e.expected
                      [] e.kind \in {"DISPATCH", "CONSUME"} -> e.observed = before.active.due
                      [] e.kind = "CANCEL" -> e.observed >= before.active.due
                      [] e.kind = "ABANDON" -> e.observed > before.active.due
                 /\ e.kind = "CONSUME" => e.continuation = before.active.continuation
           active == CASE e.kind = "SCHEDULE" ->
                            [cycle |-> e.cycleId, due |-> e.expected, continuation |-> Absent]
                       [] e.kind = "DISPATCH" -> [before.active EXCEPT !.continuation = e.continuation]
                       [] OTHER -> Unscheduled
    <3>8. after = [ok |-> accepted, state |-> e.toState, active |-> active]
      BY DEF ReplayEvent, after
    <3>9. accepted
      BY <1>7, <3>1, <3>2, <3>3, <3>4, <3>5, <3>6, <3>7
    <3> HIDE DEF accepted, active
    <3> QED
      BY <3>8, <3>9
  <2>3. /\ new.events = us /\ new.state = e.toState /\ us[Len(us)] = e /\ Len(us) # 0
        /\ SchedulerRun(us)[Len(us)] = after
    BY <1>1, <1>5, <1>8, <1>9
  <2>4. e.toState = ToState(e.kind) /\ e.kind \in EventKinds
    BY <1>2, <1>3
  <2>5. CASE e.kind = "SCHEDULE"
    <3>1. e.toState = "SCHEDULED" /\ OpenedAt(new) = n + 1
      BY <1>8, <2>3, <2>4, <2>5 DEF ToState, OpenedAt
    <3> QED
      BY <1>2, <1>3, <1>8, <1>10, <2>1, <2>2, <2>3, <2>5, <3>1 DEF OpenInv
  <2>6. CASE e.kind = "DISPATCH"
    <3>1. e.toState = "DISPATCHED" /\ OpenedAt(new) = n /\ rec.state = "SCHEDULED" /\ s = n /\ n \in 1..n
      BY <1>1, <1>2, <1>6, <1>8, <2>3, <2>4, <2>6 DEF ToState, OpenedAt
    <3>2. us[n] = ts[s]
      BY <1>8, <3>1
    <3>3. /\ after.active.cycle = before.active.cycle /\ after.active.due = before.active.due
          /\ after.active.continuation = e.continuation
      <4>1. before.active \in Cycles
        BY <1>1, CycleRunsTyped DEF before, CycleRuns, n, ts
      <4> QED
        BY <2>1, <2>6, <4>1 DEF Cycles
    <3> QED
      BY <1>2, <1>6, <1>8, <1>10, <2>2, <2>1, <2>3, <2>6, <3>1, <3>2, <3>3 DEF OpenInv
  <2>7. CASE Closes(e)
    <3>1. e.toState = "IDLE" /\ after.active = Unscheduled
      BY <2>1, <2>4, <2>7 DEF ToState, Closes
    <3> QED
      BY <2>1, <2>2, <2>3, <3>1 DEF OpenInv
  <2> QED
    BY <2>4, <2>5, <2>6, <2>7 DEF EventKinds, Closes
<1> QED
  BY <1>5, <1>11, <1>12, <1>14, <1>15 DEF RecInv, new, e

LEMMA NewRecordReplays == RecInv(NewScheduler) /\ NewScheduler.events = <<>> /\ NewScheduler.state = "IDLE"
<1> DEFINE ts == NewScheduler.events
<1>1. /\ NewScheduler.state = "IDLE" /\ ts = <<>> /\ NewScheduler.historyDigest = <<>>
      /\ ts \in Seq(Events) /\ Len(ts) = 0 /\ DOMAIN ts = {}
  BY DEF NewScheduler
<1>2. SchedulerRun(ts)[Len(ts)] = FreshCycle
  <2>1. SchedulerRun(ts)[0] = FreshCycle
    <3> HIDE DEF ts
    <3> QED
      BY <1>1, CycleLoop
  <2> QED
    BY <1>1, <2>1
<1>3. ComputeHistoryDigest(ts) = <<>>
  BY <1>1 DEF ComputeHistoryDigest
<1>4. SchedulerType(NewScheduler)
  <2>1. <<>> \in Seq(Events) /\ <<>> \in Seq(Nat)
    OBVIOUS
  <2> QED
    BY <2>1 DEF NewScheduler, SchedulerType, SchedulerStates
<1>5. OpenInv(NewScheduler)
  BY <1>1, <1>2 DEF OpenInv, FreshCycle
<1>6. LineInv(ts) /\ Exclusive(ts)
  BY <1>1 DEF LineInv, Exclusive
<1> QED
  BY <1>1, <1>3, <1>4, <1>5, <1>6 DEF RecInv

\* What a command holds while it runs, and what callers were answered.
CommandRecords == [at : {"idle", "scheduler", "ready"},
                   record : [state : SchedulerStates, events : Seq(Events), historyDigest : Seq(Nat)],
                   current : Revisions]
IsAnswer(e) == e \in Events /\ IsRequest(RequestOf(e))

CommandsInv ==
    /\ RecInv(scheduler) /\ revision \in Nat /\ overlapped \in BOOLEAN
    /\ command \in [Commands -> CommandRecords]
    /\ \A c \in Commands : /\ RecInv(command[c].record)
                           /\ command[c].at = "ready" => command[c].current \in Nat
    /\ IsFiniteSet(answers) /\ \A e \in answers : IsAnswer(e)

\* As long as no two commands ran at the same time, the only one has read the file as it is.
SoloInv ==
    ~overlapped => /\ \A c \in Commands :
                        command[c].at # "idle" =>
                            /\ command[c].record = scheduler
                            /\ \A d \in Commands : command[d].at # "idle" => d = c
                   /\ answers = ToSet(scheduler.events)

\* The requests of the callers.
LEMMA RequestsTyped ==
    ASSUME CommandsInv, NEW c \in Commands, NEW q \in NewRequests(command[c].record)
    PROVE  IsRequest(q)
<1> DEFINE rec == command[c].record
           id == Cardinality(answers) + 1
           revs == 0..SchedulerRevision(rec)
           cycles == {e.eventId : e \in ToSet(rec.events)}
<1>1. revision \in Nat /\ Ahead \in Nat /\ id \in Nat
  BY FS_CardinalityType, ContinuationAssumption DEF CommandsInv
<1>2. rec.events \in Seq(Events) /\ revs \in SUBSET Nat
  BY DEF CommandsInv, RecInv, SchedulerType, SchedulerRevision
<1>3. cycles \in SUBSET Nat
  <2> SUFFICES ASSUME NEW i \in DOMAIN rec.events PROVE rec.events[i].eventId \in Nat
    BY DEF ToSet
  <2>1. rec.events[i] \in Events
    BY <1>2
  <2> QED
    BY <2>1 DEF Events
<1>4. \/ \E rev \in revs : \E e \in 0..(revision + Ahead) : q = Request("SCHEDULE", id, id, rev, e, Absent)
      \/ \E k \in {"DISPATCH", "CONSUME"} : \E cy \in cycles : \E rev \in revs : \E w \in Continuations :
           q = Request(k, id, cy, rev, NoRevision, w)
      \/ \E k \in {"CANCEL", "ABANDON"} : \E cy \in cycles : \E rev \in revs :
           q = Request(k, id, cy, rev, NoRevision, Absent)
  BY DEF NewRequests
<1> HIDE DEF rec, id, revs, cycles
<1>5. CASE \E rev \in revs : \E e \in 0..(revision + Ahead) : q = Request("SCHEDULE", id, id, rev, e, Absent)
  BY <1>1, <1>2, <1>5 DEF Request, IsRequest, EventKinds, Revisions, Dispatched
<1>6. CASE \E k \in {"DISPATCH", "CONSUME"} : \E cy \in cycles : \E rev \in revs : \E w \in Continuations :
             q = Request(k, id, cy, rev, NoRevision, w)
  BY <1>1, <1>2, <1>3, <1>6 DEF Request, IsRequest, EventKinds, Revisions, Dispatched
<1>7. CASE \E k \in {"CANCEL", "ABANDON"} : \E cy \in cycles : \E rev \in revs :
             q = Request(k, id, cy, rev, NoRevision, Absent)
  BY <1>1, <1>2, <1>3, <1>7 DEF Request, IsRequest, EventKinds, Revisions, Dispatched
<1> QED
  BY <1>4, <1>5, <1>6, <1>7

\* The step that replaces the file by a record with one more event.
LEMMA PersistKeeps ==
    ASSUME CommandsInv, NEW c \in Commands, NEW q, IsRequest(q), Persist(c, q)
    PROVE  /\ CommandsInv'
           /\ SoloInv => SoloInv'
<1> DEFINE rec == command[c].record
           current == command[c].current
           e == EventFor(rec, q, current)
           new == WithEvent(rec, e)
<1>1. /\ RecInv(rec) /\ current \in Nat /\ Existing(rec, q) = 0 /\ FreshGuards(rec, q, current)
      /\ command[c].at = "ready"
  BY DEF CommandsInv, Persist
<1>2. RecInv(new)
  BY <1>1, WithEventKeepsRecord
<1>3. /\ e \in Events /\ e.kind = q.kind /\ e.eventId = q.eventId /\ e.cycleId = q.cycleId
      /\ e.expected = q.expected /\ e.continuation = q.continuation
      /\ e.requestSchedulerRevision = q.schedulerRevision
  BY <1>1, FreshEvent
<1>4. new.events = Append(rec.events, e)
  BY DEF WithEvent
<1>5. rec.events \in Seq(Events)
  BY <1>1 DEF RecInv, SchedulerType
<1>6. /\ scheduler' = new /\ answers' = answers \cup {e} /\ command' = [command EXCEPT ![c] = NoCommand]
      /\ revision' = revision /\ overlapped' = overlapped
  BY DEF Persist
<1> HIDE DEF e, new
<1>7. IsAnswer(e)
  BY <1>3 DEF IsAnswer, RequestOf, Request, IsRequest
<1>8. RecInv(NoCommand.record) /\ NoCommand.at = "idle" /\ NoCommand \in CommandRecords
      /\ NoCommand.record.events = <<>>
  BY NewRecordReplays DEF NoCommand, RecInv, SchedulerType, CommandRecords, Revisions
<1>9. /\ command \in [Commands -> CommandRecords]
      /\ command'[c] = NoCommand /\ \A d \in Commands : d # c => command'[d] = command[d]
      /\ command' \in [Commands -> CommandRecords]
  BY <1>6, <1>8 DEF CommandsInv
<1>10. CommandsInv'
  <2>1. \A d \in Commands : /\ RecInv(command'[d].record)
                            /\ command'[d].at = "ready" => command'[d].current \in Nat
    BY <1>8, <1>9 DEF CommandsInv
  <2>2. IsFiniteSet(answers')
    BY <1>6, FS_AddElement DEF CommandsInv
  <2>3. \A a \in answers' : IsAnswer(a)
    BY <1>6, <1>7 DEF CommandsInv
  <2> QED
    BY <1>2, <1>6, <1>9, <2>1, <2>2, <2>3 DEF CommandsInv
<1>11. ASSUME SoloInv PROVE SoloInv'
  <2> SUFFICES ASSUME ~overlapped
               PROVE  /\ \A d \in Commands : command'[d].at = "idle"
                      /\ answers' = ToSet(scheduler'.events)
    BY <1>6 DEF SoloInv
  <2>1. rec = scheduler /\ \A d \in Commands : command[d].at # "idle" => d = c
    BY <1>1, <1>11 DEF SoloInv
  <2>2. answers = ToSet(rec.events)
    BY <1>11, <2>1 DEF SoloInv
  <2>3. ToSet(Append(rec.events, e)) = ToSet(rec.events) \cup {e}
    <3> DEFINE ts == rec.events
               us == Append(ts, e)
    <3>1. Len(ts) \in Nat /\ DOMAIN ts = 1..Len(ts) /\ DOMAIN us = 1..(Len(ts) + 1)
          /\ us[Len(ts) + 1] = e /\ \A j \in 1..Len(ts) : us[j] = ts[j]
      <4>1. ts \in Seq(Events) /\ e \in Events
        BY <1>3, <1>5
      <4> HIDE DEF ts
      <4>2. Len(ts) \in Nat /\ DOMAIN ts = 1..Len(ts)
        BY <4>1
      <4>3. us \in Seq(Events) /\ Len(us) = Len(ts) + 1 /\ us[Len(ts) + 1] = e
        BY <4>1
      <4>4. \A j \in 1..Len(ts) : us[j] = ts[j]
        BY <4>1
      <4> QED
        BY <4>2, <4>3, <4>4
    <3> HIDE DEF ts, us
    <3>2. \A j \in 1..(Len(ts) + 1) : j \in 1..Len(ts) \/ j = Len(ts) + 1
      BY <3>1
    <3>3. \A x \in ToSet(us) : x \in ToSet(ts) \cup {e}
      BY <3>1, <3>2 DEF ToSet
    <3>4. Len(ts) + 1 \in 1..(Len(ts) + 1) /\ \A j \in 1..Len(ts) : j \in 1..(Len(ts) + 1)
      BY <3>1
    <3>5. \A x \in ToSet(ts) \cup {e} : x \in ToSet(us)
      BY <3>1, <3>4 DEF ToSet
    <3>6. ToSet(us) = ToSet(ts) \cup {e}
      BY <3>3, <3>5
    <3> QED
      BY <3>6 DEF us, ts
  <2> QED
    BY <1>4, <1>6, <1>8, <1>9, <2>1, <2>2, <2>3
<1> QED
  BY <1>10, <1>11

\* The step that answers a retry and writes the record back as it was read.
LEMMA PersistAgainKeeps ==
    ASSUME CommandsInv, NEW c \in Commands, NEW q, IsRequest(q), PersistAgain(c, q)
    PROVE  /\ CommandsInv'
           /\ SoloInv => SoloInv'
<1> DEFINE rec == command[c].record
           i == Existing(rec, q)
           e == rec.events[i]
<1>1. RecInv(rec) /\ i # 0 /\ SameFingerprint(e, q) /\ command[c].at = "ready"
  BY DEF CommandsInv, PersistAgain
<1>2. i \in DOMAIN rec.events /\ e.eventId = q.eventId
  BY <1>1, ExistingIsFound DEF RecInv
<1>3. /\ scheduler' = rec /\ answers' = answers \cup {e} /\ command' = [command EXCEPT ![c] = NoCommand]
      /\ revision' = revision /\ overlapped' = overlapped
  BY DEF PersistAgain
<1> HIDE DEF i
<1>4. rec.events \in Seq(Events) /\ e \in Events
  BY <1>1, <1>2 DEF RecInv, SchedulerType
<1> HIDE DEF e
<1>5. IsAnswer(e)
  BY <1>1, <1>2, <1>4 DEF IsAnswer, RequestOf, Request, IsRequest, SameFingerprint
<1>6. RecInv(NoCommand.record) /\ NoCommand.at = "idle" /\ NoCommand \in CommandRecords
      /\ NoCommand.record.events = <<>>
  BY NewRecordReplays DEF NoCommand, RecInv, SchedulerType, CommandRecords, Revisions
<1>7. /\ command \in [Commands -> CommandRecords]
      /\ command'[c] = NoCommand /\ \A d \in Commands : d # c => command'[d] = command[d]
      /\ command' \in [Commands -> CommandRecords]
  BY <1>3, <1>6 DEF CommandsInv
<1>8. CommandsInv'
  <2>1. \A d \in Commands : /\ RecInv(command'[d].record)
                            /\ command'[d].at = "ready" => command'[d].current \in Nat
    BY <1>6, <1>7 DEF CommandsInv
  <2>2. IsFiniteSet(answers')
    BY <1>3, FS_AddElement DEF CommandsInv
  <2>3. \A a \in answers' : IsAnswer(a)
    BY <1>3, <1>5 DEF CommandsInv
  <2> QED
    BY <1>1, <1>3, <1>7, <2>1, <2>2, <2>3 DEF CommandsInv
<1>9. ASSUME SoloInv PROVE SoloInv'
  <2> SUFFICES ASSUME ~overlapped
               PROVE  /\ \A d \in Commands : command'[d].at = "idle"
                      /\ answers' = ToSet(scheduler'.events)
    BY <1>3 DEF SoloInv
  <2>1. rec = scheduler /\ \A d \in Commands : command[d].at # "idle" => d = c
    BY <1>1, <1>9 DEF SoloInv
  <2>2. answers = ToSet(rec.events)
    BY <1>9, <2>1 DEF SoloInv
  <2>3. e \in ToSet(rec.events)
    BY <1>2 DEF ToSet, e
  <2> QED
    BY <1>3, <1>6, <1>7, <2>1, <2>2, <2>3
<1> QED
  BY <1>8, <1>9

\* Every step of the commands keeps the two parts of the invariant.
LEMMA CommandsKept == ContinuationSpec => [](CommandsInv /\ SoloInv)
<1> DEFINE Inv == CommandsInv /\ SoloInv
<1>1. ContinuationInit => Inv
  <2> SUFFICES ASSUME ContinuationInit PROVE Inv
    OBVIOUS
  <2>1. /\ RecInv(NewScheduler) /\ NewScheduler.events = <<>> /\ NoCommand \in CommandRecords
        /\ NoCommand.record = NewScheduler /\ NoCommand.at = "idle"
    BY NewRecordReplays DEF NoCommand, RecInv, SchedulerType, CommandRecords, Revisions
  <2>2. /\ scheduler = NewScheduler /\ revision = 0 /\ answers = {} /\ overlapped = FALSE
        /\ command \in [Commands -> CommandRecords]
        /\ \A c \in Commands : command[c] = NoCommand
    BY <2>1 DEF ContinuationInit
  <2>3. CommandsInv
    BY <2>1, <2>2, FS_EmptySet DEF CommandsInv
  <2>4. SoloInv
    BY <2>1, <2>2 DEF SoloInv, ToSet
  <2> QED
    BY <2>3, <2>4
<1>2. Inv /\ [ContinuationNext]_continuationVars => Inv'
  <2> SUFFICES ASSUME CommandsInv, SoloInv, [ContinuationNext]_continuationVars PROVE Inv'
    OBVIOUS
  <2>1. CASE AdvanceExecution
    <3>1. /\ revision' = revision + 1 /\ revision \in Nat
          /\ scheduler' = scheduler /\ command' = command /\ answers' = answers /\ overlapped' = overlapped
      BY <2>1 DEF AdvanceExecution, CommandsInv
    <3>2. CommandsInv' /\ SoloInv'
      BY <3>1 DEF CommandsInv, SoloInv
    <3> QED
      BY <3>2
  <2>2. CASE InitScheduler
    <3>1. /\ RecInv(NewScheduler) /\ NewScheduler.events = <<>>
          /\ scheduler' = NewScheduler /\ answers' = {} /\ overlapped' = FALSE
          /\ revision' = revision /\ command' = command /\ \A c \in Commands : command[c].at = "idle"
      BY <2>2, NewRecordReplays DEF InitScheduler
    <3>2. CommandsInv'
      BY <3>1, FS_EmptySet DEF CommandsInv
    <3>3. SoloInv'
      BY <3>1 DEF SoloInv, ToSet
    <3> QED
      BY <3>2, <3>3
  <2>3. ASSUME NEW c \in Commands, ReadScheduler(c) PROVE Inv'
    <3> DEFINE read == [at |-> "scheduler", record |-> scheduler, current |-> NoRevision]
    <3>1. /\ command' = [command EXCEPT ![c] = read]
          /\ overlapped' = (overlapped \/ \E d \in Commands : command[d].at # "idle")
          /\ scheduler' = scheduler /\ revision' = revision /\ answers' = answers
      BY <2>3 DEF ReadScheduler
    <3>2. read \in CommandRecords /\ RecInv(read.record) /\ read.at = "scheduler" /\ read.record = scheduler
      BY DEF CommandsInv, CommandRecords, RecInv, SchedulerType, Revisions
    <3> HIDE DEF read
    <3>3. /\ command' \in [Commands -> CommandRecords] /\ command'[c] = read
          /\ \A d \in Commands : d # c => command'[d] = command[d]
      BY <3>1, <3>2 DEF CommandsInv
    <3>4. CommandsInv'
      <4>1. \A d \in Commands : /\ RecInv(command'[d].record)
                                /\ command'[d].at = "ready" => command'[d].current \in Nat
        BY <3>2, <3>3 DEF CommandsInv
      <4>2. overlapped' \in BOOLEAN
        BY <3>1
      <4> QED
        BY <3>1, <3>3, <4>1, <4>2 DEF CommandsInv
    <3>5. SoloInv'
      BY <3>1, <3>2, <3>3 DEF SoloInv
    <3> QED
      BY <3>4, <3>5
  <2>4. ASSUME NEW c \in Commands, ReadExecution(c) PROVE Inv'
    <3>1. /\ command' = [command EXCEPT ![c].at = "ready", ![c].current = revision]
          /\ command[c].at = "scheduler"
          /\ scheduler' = scheduler /\ revision' = revision /\ answers' = answers /\ overlapped' = overlapped
      BY <2>4 DEF ReadExecution
    <3>2. /\ command' \in [Commands -> CommandRecords]
          /\ command'[c].record = command[c].record /\ command'[c].current = revision
          /\ \A d \in Commands : d # c => command'[d] = command[d]
      BY <3>1 DEF CommandsInv, CommandRecords, Revisions
    <3>3. CommandsInv'
      <4>1. \A d \in Commands : /\ RecInv(command'[d].record)
                                /\ command'[d].at = "ready" => command'[d].current \in Nat
        BY <3>2 DEF CommandsInv
      <4> QED
        BY <3>1, <3>2, <4>1 DEF CommandsInv
    <3>4. SoloInv'
      BY <3>1, <3>2 DEF SoloInv
    <3> QED
      BY <3>3, <3>4
  <2>5. ASSUME NEW c \in Commands, GiveUp(c) PROVE Inv'
    <3>1. /\ command' = [command EXCEPT ![c] = NoCommand]
          /\ scheduler' = scheduler /\ revision' = revision /\ answers' = answers /\ overlapped' = overlapped
      BY <2>5 DEF GiveUp
    <3>2. RecInv(NoCommand.record) /\ NoCommand.at = "idle" /\ NoCommand \in CommandRecords
          /\ NoCommand.record.events = <<>>
      BY NewRecordReplays DEF NoCommand, RecInv, SchedulerType, CommandRecords, Revisions
    <3>3. /\ command' \in [Commands -> CommandRecords] /\ command'[c] = NoCommand
          /\ \A d \in Commands : d # c => command'[d] = command[d]
      BY <3>1, <3>2 DEF CommandsInv
    <3>4. CommandsInv'
      <4>1. \A d \in Commands : /\ RecInv(command'[d].record)
                                /\ command'[d].at = "ready" => command'[d].current \in Nat
        BY <3>2, <3>3 DEF CommandsInv
      <4> QED
        BY <3>1, <3>3, <4>1 DEF CommandsInv
    <3>5. SoloInv'
      BY <3>1, <3>2, <3>3 DEF SoloInv
    <3> QED
      BY <3>4, <3>5
  <2>6. ASSUME NEW c \in Commands, NEW q \in NewRequests(command[c].record), Persist(c, q) PROVE Inv'
    <3>1. IsRequest(q)
      BY RequestsTyped
    <3> QED
      BY <2>6, <3>1, PersistKeeps
  <2>7. ASSUME NEW c \in Commands, NEW e \in answers, Persist(c, RequestOf(e)) PROVE Inv'
    <3>1. IsRequest(RequestOf(e))
      BY DEF CommandsInv, IsAnswer
    <3> QED
      BY <2>7, <3>1, PersistKeeps
  <2>8. ASSUME NEW c \in Commands, NEW e \in answers, PersistAgain(c, RequestOf(e)) PROVE Inv'
    <3>1. IsRequest(RequestOf(e))
      BY DEF CommandsInv, IsAnswer
    <3> QED
      BY <2>8, <3>1, PersistAgainKeeps
  <2>9. CASE UNCHANGED continuationVars
    BY <2>9 DEF continuationVars, CommandsInv, SoloInv
  <2> HIDE DEF Inv
  <2> QED
    BY <2>1, <2>2, <2>3, <2>4, <2>5, <2>6, <2>7, <2>8, <2>9 DEF ContinuationNext
<1> QED
  BY <1>1, <1>2, PTL DEF ContinuationSpec

\* What the invariant says of the file and of the answers.
LEMMA RecordIsSound ==
    ASSUME CommandsInv, SoloInv
    PROVE  SchedulerReplays /\ CyclesAreExclusive /\ AnswersAreKept
<1> DEFINE ts == scheduler.events
           n == Len(ts)
<1>1. /\ ts \in Seq(Events) /\ n \in Nat /\ RecInv(scheduler)
      /\ SchedulerRun(ts)[n].ok /\ scheduler.historyDigest = ComputeHistoryDigest(ts)
      /\ scheduler.state = IF n = 0 THEN "IDLE" ELSE ts[n].toState
  <2>1. RecInv(scheduler)
    BY DEF CommandsInv
  <2>2. ts \in Seq(Events) /\ n \in Nat /\ scheduler.historyDigest = ComputeHistoryDigest(ts)
    BY <2>1 DEF RecInv, SchedulerType
  <2>3. SchedulerRun(ts)[n].ok /\ scheduler.state = IF n = 0 THEN "IDLE" ELSE ts[n].toState
    BY <2>1, Zenon DEF RecInv, OpenInv
  <2> QED
    BY <2>1, <2>2, <2>3
<1>2. ReplayAccepts(scheduler)
  BY <1>1 DEF ReplayAccepts, SchedulerRun
<1>3. scheduler.state = IF ts = <<>> THEN "IDLE" ELSE Last(ts).toState
  <2>1. ts = <<>> <=> n = 0
    BY <1>1
  <2> QED
    BY <1>1, <2>1 DEF Last
<1>4. CyclesAreExclusive
  BY <1>1 DEF RecInv, Exclusive, CyclesAreExclusive
<1>5. AnswersAreKept
  BY DEF SoloInv, AnswersAreKept
<1> QED
  BY <1>2, <1>3, <1>4, <1>5 DEF SchedulerReplays

\* The open cycle is found, and whether it can be cancelled is a question of its revision
\* alone.
LEMMA OpenCycleIsCancelled == ASSUME CommandsInv PROVE OpenCycleCanBeCancelled
<1> DEFINE ts == scheduler.events
           n == Len(ts)
           s == OpenedAt(scheduler)
           q == CancelRequest(s)
<1> SUFFICES ASSUME scheduler.state # "IDLE"
             PROVE  /\ FindActive(ts, "SCHEDULE") # 0
                    /\ FreshGuards(scheduler, CancelRequest(FindActive(ts, "SCHEDULE")), revision)
                         <=> ts[FindActive(ts, "SCHEDULE")].expected <= revision
  BY DEF OpenCycleCanBeCancelled
<1>1. RecInv(scheduler) /\ ts \in Seq(Events) /\ scheduler.state \in SchedulerStates /\ revision \in Nat
  BY DEF CommandsInv, RecInv, SchedulerType
<1>2. s \in 1..n /\ FindActive(ts, "SCHEDULE") = s
  BY <1>1, OpenCycleIsFound
<1>3. s # 0 /\ s \in DOMAIN ts /\ ts[s] \in Events
  BY <1>1, <1>2
<1>4. RevisionAllows("CANCEL", ts[s].expected, revision) <=> ts[s].expected <= revision
  BY <1>1, <1>3 DEF RevisionAllows, Events, Revisions, NoRevision
<1>5. scheduler.state \in FromStates("CANCEL")
  BY <1>1 DEF FromStates, SchedulerStates
<1>6. /\ q.kind = "CANCEL" /\ q.cycleId = ts[s].eventId
      /\ q.schedulerRevision = SchedulerRevision(scheduler)
  BY DEF CancelRequest, Request
<1> HIDE DEF q, s, ts
<1>7. FreshGuards(scheduler, q, revision) <=> ts[s].expected <= revision
  BY <1>2, <1>3, <1>4, <1>5, <1>6 DEF FreshGuards, ts
<1> QED
  BY <1>2, <1>3, <1>7 DEF q

\* However commands overlap, die and are retried, and however far their requests are ahead
\* of the execution (continuation-scheduler.ts): the record in the file replays, its cycles
\* are exclusive, the open one can be cancelled once the execution has reached its revision,
\* and nothing that was reported is lost or repeated by a command that ran alone.
THEOREM CommandsStaySound == ContinuationSpec => []CommandsAreSound
<1>1. CommandsInv /\ SoloInv => CommandsAreSound
  BY RecordIsSound, OpenCycleIsCancelled DEF CommandsAreSound
<1> QED
  BY <1>1, CommandsKept, PTL
=============================================================================
