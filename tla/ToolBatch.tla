----------------------------- MODULE ToolBatch -----------------------------
(***************************************************************************)
(* What the parallel tool scheduler promises to the agent loop: a batch of *)
(* tool calls, in the order the model wrote them, each of which is run at  *)
(* most once and then reported.  A call that must be ordered against an    *)
(* earlier one starts only after that one is reported, and at most         *)
(* GlobalMax calls run together.  Nothing is said about waves, workers,    *)
(* slots or timers: module Scheduler is shown to implement this one.       *)
(***************************************************************************)
EXTENDS Integers, FiniteSets

CONSTANTS
    N,            \* number of calls in the batch; call i is the i-th call written
    GlobalMax     \* how many calls may run at once

VARIABLES
    mustFollow,   \* mustFollow[c]: the earlier calls c may not overlap
    progress,     \* progress[c] \in {"pending", "running", "done"}
    stopped       \* the batch was cancelled: nothing starts any more

batchVars == <<mustFollow, progress, stopped>>

Indexes == 1..N

Running == {c \in Indexes : progress[c] = "running"}

Init ==
    /\ mustFollow \in [Indexes -> SUBSET Indexes]
    /\ \A c \in Indexes : \A d \in mustFollow[c] : d < c
    /\ progress = [c \in Indexes |-> "pending"]
    /\ stopped \in BOOLEAN

\* A call starts once everything it must follow is reported.
Start(c) ==
    /\ ~stopped
    /\ progress[c] = "pending"
    /\ \A d \in mustFollow[c] : progress[d] = "done"
    /\ Cardinality(Running) < GlobalMax
    /\ progress' = [progress EXCEPT ![c] = "running"]
    /\ UNCHANGED <<mustFollow, stopped>>

\* A running call is reported, whatever its outcome.
Report(c) ==
    /\ progress[c] = "running"
    /\ progress' = [progress EXCEPT ![c] = "done"]
    /\ UNCHANGED <<mustFollow, stopped>>

\* A call that never started is reported as cancelled, in the same order.
ReportCancelled(c) ==
    /\ stopped
    /\ progress[c] = "pending"
    /\ \A d \in mustFollow[c] : progress[d] = "done"
    /\ progress' = [progress EXCEPT ![c] = "done"]
    /\ UNCHANGED <<mustFollow, stopped>>

Stop ==
    /\ ~stopped
    /\ stopped' = TRUE
    /\ UNCHANGED <<mustFollow, progress>>

Next ==
    \/ Stop
    \/ \E c \in Indexes : Start(c) \/ Report(c) \/ ReportCancelled(c)

Spec == Init /\ [][Next]_batchVars
=============================================================================
