----------------------------- MODULE Scheduler -----------------------------
(***************************************************************************)
(* packages/agent/src/scheduler.ts: DeterministicParallelScheduler.run.    *)
(*                                                                         *)
(* A batch of N tool calls is cut into waves (partitionWaves), the waves   *)
(* run one after the other, and inside a wave a pool of workers claims the *)
(* calls in order, waits for a slot under the per-tool, per-host and       *)
(* per-server limits, runs the call and pushes its result.                 *)
(*                                                                         *)
(* JavaScript runs one synchronous segment at a time, so an action is one  *)
(* segment between two awaits.  partitionWaves and the loop that spawns    *)
(* the workers are synchronous and long: they are cut into one step per    *)
(* iteration, and `phase' keeps everything else out until they are over.   *)
(***************************************************************************)
EXTENDS Integers, Sequences, FiniteSets

CONSTANTS
    N,            \* length of the batch, already sorted by index
    Tools, Hosts, Servers, Resources,
    None,         \* an optional field that is absent
    GlobalMax, PerTool, PerHost, PerServer,   \* SchedulerLimits
    Kinds,        \* the calls a batch is made of, without their dependencies
    Consumable    \* the positions whose results later calls may consume

ASSUME SizeAssumption == N \in Nat

\* SchedulerLimits is not validated; a zero limit would make waitForSlot poll
\* for ever, and no caller passes one.
ASSUME LimitsAssumption ==
    /\ GlobalMax \in Nat
    /\ PerTool \in Nat \ {0}
    /\ PerHost \in Nat \ {0}
    /\ PerServer \in Nat \ {0}

ASSUME NoneAssumption == None \notin Tools \cup Hosts \cup Servers \cup Resources

Calls == 1..N

\* A boolean field that may be absent.
Tristate == {"yes", "no", "absent"}

\* ToolEffects, reduced to what isSerialBarrier reads of it: whether any of
\* the nine mutating flags is set, whether a scope is unknown, parallelSafe.
Effects == [mutates : BOOLEAN, unknownScope : BOOLEAN, parallelSafe : Tristate]

SchedulerCall ==
    [effects : Effects \cup {None}, concurrencySafe : Tristate,
     tool : Tools, host : Hosts \cup {None}, server : Servers \cup {None},
     resource : Resources \cup {None}]

ASSUME KindsAssumption == Kinds \subseteq SchedulerCall

VARIABLES
    batch,        \* batch[c]: the SchedulerCall at position c
    consumes,     \* consumes[c]: the calls whose results c consumes
    aborted,      \* signal.aborted
    phase,        \* "partition", "spawn", "run" or "returned"
    \* partitionWaves
    cursor,       \* the next call of the for loop
    waves, current, waveIndex,
    emitted,      \* emittedByCallId: 0 stands for a missing key
    \* run and runWave
    waveNo,       \* the wave that runs
    next,         \* position in the wave of the next unclaimed call
    spawned,      \* workers started by the spawning loop
    live,         \* workers that have not returned
    status,       \* "unclaimed", "waiting" (timer), "ready", "running", "done"
    holds,        \* calls whose waitForSlot took a slot not yet given back
    perToolCount, perHostCount, perServerCount,
    cancelled,    \* calls reported with cancelled = true
    results,      \* results of the wave, in completion order
    allResults    \* results of the finished waves

partitionVars == <<cursor, waves, current, waveIndex, emitted>>
countVars == <<perToolCount, perHostCount, perServerCount>>
waveVars == <<waveNo, next, spawned, live, status, holds, countVars,
              cancelled, results, allResults>>
vars == <<batch, consumes, aborted, phase, partitionVars, waveVars>>

-----------------------------------------------------------------------------
(* The classification of calls *)

IsSerialBarrier(c) ==
    LET k == batch[c]
        e == k.effects
    IN  \/ /\ e # None
           /\ e.mutates \/ e.unknownScope \/ e.parallelSafe = "no"
        \/ IF k.concurrencySafe # "absent"
             THEN k.concurrencySafe = "no"
             ELSE e = None \/ e.parallelSafe # "yes"

NeedsServerSerialization(c) == batch[c].concurrencySafe # "yes"

CallsConflict(c, d) ==
    \/ batch[c].resource # None /\ batch[c].resource = batch[d].resource
    \/ /\ batch[c].server # None /\ batch[c].server = batch[d].server
       /\ NeedsServerSerialization(c) /\ NeedsServerSerialization(d)

\* dependsOnPast: some consumed call was recorded in an earlier wave.  Wave
\* indexes count from 1 here, so that 0 can stand for a missing key.
DependsOnPast(c) ==
    \E d \in consumes[c] : emitted[d] # 0 /\ emitted[d] < waveIndex

-----------------------------------------------------------------------------
Init ==
    /\ batch \in [Calls -> Kinds]
    /\ consumes \in [Calls -> SUBSET (Calls \cap Consumable)]
    /\ \A c \in Calls : \A d \in consumes[c] : d < c
    /\ aborted \in BOOLEAN
    /\ phase = "partition"
    /\ cursor = 1 /\ waves = <<>> /\ current = <<>> /\ waveIndex = 1
    /\ emitted = [c \in Calls |-> 0]
    /\ waveNo = 0 /\ next = 1 /\ spawned = 0 /\ live = 0
    /\ status = [c \in Calls |-> "unclaimed"]
    /\ holds = {}
    /\ perToolCount = [t \in Tools |-> 0]
    /\ perHostCount = [h \in Hosts |-> 0]
    /\ perServerCount = [s \in Servers |-> 0]
    /\ cancelled = {} /\ results = <<>> /\ allResults = <<>>

-----------------------------------------------------------------------------
(* partitionWaves: one iteration of the for loop *)

Conflicting(c) == \E i \in DOMAIN current : CallsConflict(c, current[i])

\* Mutant: a conflict with the open wave is overlooked.
MustFlush_NoConflict(c) ==
    current # <<>> /\ (IsSerialBarrier(c) \/ DependsOnPast(c))

\* The open wave is closed before call c is placed.
MustFlush(c) ==
    current # <<>> /\ (IsSerialBarrier(c) \/ DependsOnPast(c) \/ Conflicting(c))

PartitionCall ==
    /\ phase = "partition"
    /\ cursor <= N
    /\ LET flush == MustFlush(cursor)
           flushedWaves == IF flush THEN Append(waves, current) ELSE waves
           flushedIndex == IF flush THEN waveIndex + 1 ELSE waveIndex
           kept == IF flush THEN <<>> ELSE current
       IN  /\ IF IsSerialBarrier(cursor)
                THEN /\ waves' = Append(flushedWaves, <<cursor>>)
                     /\ waveIndex' = flushedIndex + 1
                     /\ current' = kept
                ELSE /\ waves' = flushedWaves
                     /\ waveIndex' = flushedIndex
                     /\ current' = Append(kept, cursor)
           /\ emitted' = [emitted EXCEPT ![cursor] = waveIndex']
    /\ cursor' = cursor + 1
    /\ UNCHANGED <<batch, consumes, aborted, phase, waveVars>>

\* The state a new wave starts from: fresh counters, no results.
EnterWave(w) ==
    /\ waveNo' = w
    /\ next' = 1 /\ spawned' = 0 /\ live' = 0
    /\ perToolCount' = [t \in Tools |-> 0]
    /\ perHostCount' = [h \in Hosts |-> 0]
    /\ perServerCount' = [s \in Servers |-> 0]
    /\ results' = <<>>

\* The last partial wave is pushed and run enters its loop.
EndPartition ==
    /\ phase = "partition"
    /\ cursor > N
    /\ waves' = IF current # <<>> THEN Append(waves, current) ELSE waves
    /\ current' = <<>>
    /\ phase' = IF waves' = <<>> THEN "returned" ELSE "spawn"
    /\ EnterWave(1)
    /\ UNCHANGED <<batch, consumes, aborted, cursor, waveIndex, emitted,
                   status, holds, cancelled, allResults>>

-----------------------------------------------------------------------------
(* runWave: the worker pool *)

wave == waves[waveNo]

MinOf(a, b) == IF a < b THEN a ELSE b
MaxOf(a, b) == IF a > b THEN a ELSE b

SlotLimit == MaxOf(1, MinOf(GlobalMax, Len(wave)))

\* One entry of a counter map, for a key that may be absent.
Bump(count, key) == IF key = None THEN count ELSE [count EXCEPT ![key] = @ + 1]

\* Mutant: a release that is forgotten.
Drop_Leak(count, key) == count

Drop(count, key) == IF key = None THEN count
                    ELSE [count EXCEPT ![key] = MaxOf(0, @ - 1)]

\* Mutant: the limit itself counts as free.
Below_OffByOne(count, key, limit) == key = None \/ count[key] <= limit

Below(count, key, limit) == key = None \/ count[key] < limit

\* The check of waitForSlot for call c, on the counters tc, hc, sc and with
\* the calls of h holding a slot: an aborted signal lets c through without a
\* slot, free slots are taken, otherwise a timer will check again.
CheckSlot(c, st, h, tc, hc, sc) ==
    LET k == batch[c]
        free == /\ Below(tc, k.tool, PerTool)
                /\ Below(hc, k.host, PerHost)
                /\ Below(sc, k.server, PerServer)
        take == ~aborted /\ free
    IN  /\ status' = [st EXCEPT ![c] = IF aborted \/ free THEN "ready" ELSE "waiting"]
        /\ holds' = IF take THEN h \cup {c} ELSE h
        /\ perToolCount' = IF take THEN Bump(tc, k.tool) ELSE tc
        /\ perHostCount' = IF take THEN Bump(hc, k.host) ELSE hc
        /\ perServerCount' = IF take THEN Bump(sc, k.server) ELSE sc

\* The top of a worker's loop: claim the next call of the wave, or return.
ClaimNext(st, h, tc, hc, sc) ==
    /\ next' = next + 1
    /\ IF next <= Len(wave)
         THEN /\ CheckSlot(wave[next], st, h, tc, hc, sc)
              /\ UNCHANGED live
         ELSE /\ live' = live - 1
              /\ status' = st /\ holds' = h
              /\ perToolCount' = tc /\ perHostCount' = hc /\ perServerCount' = sc

\* A worker reports call c: decSlot, the push, and the next claim are one
\* synchronous segment.
ReportAndClaim(c) ==
    LET k == batch[c]
    IN  /\ results' = Append(results, c)
        /\ ClaimNext([status EXCEPT ![c] = "done"], holds \ {c},
                     Drop(perToolCount, k.tool), Drop(perHostCount, k.host),
                     Drop(perServerCount, k.server))

\* One iteration of the loop that creates the workers.
SpawnWorker ==
    /\ phase = "spawn"
    /\ spawned < SlotLimit
    /\ spawned' = spawned + 1
    /\ live' = live + 1
    /\ next' = next + 1
    /\ CheckSlot(wave[next], status, holds, perToolCount, perHostCount, perServerCount)
    /\ UNCHANGED <<batch, consumes, aborted, phase, partitionVars, waveNo,
                   cancelled, results, allResults>>

EndSpawn ==
    /\ phase = "spawn"
    /\ spawned = SlotLimit
    /\ phase' = "run"
    /\ UNCHANGED <<batch, consumes, aborted, partitionVars, waveVars>>

\* The 1 ms timer of waitForSlot.
Recheck(c) ==
    /\ phase = "run"
    /\ status[c] = "waiting"
    /\ CheckSlot(c, status, holds, perToolCount, perHostCount, perServerCount)
    /\ UNCHANGED <<batch, consumes, aborted, phase, partitionVars, waveNo, next,
                   spawned, live, cancelled, results, allResults>>

\* Mutant: the signal is not looked at again after the wait for a slot.
StartCall_IgnoresAbort(c) ==
    /\ phase = "run"
    /\ status[c] = "ready"
    /\ status' = [status EXCEPT ![c] = "running"]
    /\ UNCHANGED <<batch, consumes, aborted, phase, partitionVars, waveNo, next,
                   spawned, live, holds, countVars, cancelled, results, allResults>>

\* waitForSlot resolved and the signal is not aborted: the tool starts.
StartCall(c) ==
    /\ phase = "run"
    /\ status[c] = "ready"
    /\ ~aborted
    /\ status' = [status EXCEPT ![c] = "running"]
    /\ UNCHANGED <<batch, consumes, aborted, phase, partitionVars, waveNo, next,
                   spawned, live, holds, countVars, cancelled, results, allResults>>

\* waitForSlot resolved but the signal is aborted: the call never runs.
CancelCall(c) ==
    /\ phase = "run"
    /\ status[c] = "ready"
    /\ aborted
    /\ cancelled' = cancelled \cup {c}
    /\ ReportAndClaim(c)
    /\ UNCHANGED <<batch, consumes, aborted, phase, partitionVars, waveNo,
                   spawned, allResults>>

\* The promise of call.run settles; a rejection counts as a cancellation when
\* the signal is aborted by then.
SettleCall(c) ==
    /\ phase = "run"
    /\ status[c] = "running"
    /\ \/ UNCHANGED cancelled
       \/ aborted /\ cancelled' = cancelled \cup {c}
    /\ ReportAndClaim(c)
    /\ UNCHANGED <<batch, consumes, aborted, phase, partitionVars, waveNo,
                   spawned, allResults>>

\* Mutant: results stay in completion order.
ByIndex_Unsorted(s) == s

\* What sort((a, b) => a.index - b.index) puts before the i-th result or in its
\* place: the sort is stable.
NotAfter(s, i) == {j \in DOMAIN s : s[j] < s[i] \/ (s[j] = s[i] /\ j <= i)}

ByIndex(s) ==
    [k \in DOMAIN s |-> s[CHOOSE i \in DOMAIN s : Cardinality(NotAfter(s, i)) = k]]

\* Promise.all of the workers settles: the results of the wave are put back in
\* call order, and the next wave starts or run returns.
EndWave ==
    /\ phase = "run"
    /\ live = 0
    /\ LET collected == allResults \o ByIndex(results)
           last == waveNo = Len(waves)
       IN  /\ allResults' = IF last THEN ByIndex(collected) ELSE collected
           /\ phase' = IF last THEN "returned" ELSE "spawn"
           /\ EnterWave(IF last THEN waveNo ELSE waveNo + 1)
    /\ UNCHANGED <<batch, consumes, aborted, partitionVars, status, holds, cancelled>>

\* The caller aborts, between two segments.
Abort ==
    /\ ~aborted
    /\ phase = "run"
    /\ aborted' = TRUE
    /\ UNCHANGED <<batch, consumes, phase, partitionVars, waveVars>>

Returned == phase = "returned" /\ UNCHANGED vars

Next ==
    \/ PartitionCall \/ EndPartition
    \/ SpawnWorker \/ EndSpawn \/ EndWave
    \/ \E c \in Calls : Recheck(c) \/ StartCall(c) \/ CancelCall(c) \/ SettleCall(c)
    \/ Abort
    \/ Returned

Fairness ==
    /\ WF_vars(PartitionCall \/ EndPartition \/ SpawnWorker \/ EndSpawn \/ EndWave)
    /\ \A c \in Calls : WF_vars(Recheck(c) \/ StartCall(c) \/ CancelCall(c))
    /\ \A c \in Calls : WF_vars(SettleCall(c))

Spec == Init /\ [][Next]_vars
FairSpec == Spec /\ Fairness

-----------------------------------------------------------------------------
(* Properties *)

\* The type invariant (allResults is the subject of CanonicalResults).
TypeOK ==
    /\ batch \in [Calls -> SchedulerCall]
    /\ consumes \in [Calls -> SUBSET Calls]
    /\ aborted \in BOOLEAN
    /\ phase \in {"partition", "spawn", "run", "returned"}
    /\ cursor \in 1..(N + 1)
    /\ waves \in Seq(Seq(Calls)) /\ current \in Seq(Calls)
    /\ waveIndex \in Nat /\ emitted \in [Calls -> Nat]
    /\ waveNo \in Nat /\ next \in Nat \ {0} /\ spawned \in Nat /\ live \in Int
    /\ status \in [Calls -> {"unclaimed", "waiting", "ready", "running", "done"}]
    /\ holds \subseteq Calls
    /\ perToolCount \in [Tools -> Nat]
    /\ perHostCount \in [Hosts -> Nat]
    /\ perServerCount \in [Servers -> Nat]
    /\ cancelled \subseteq Calls
    /\ results \in Seq(Calls)

Running == {c \in Calls : status[c] = "running"}

RunningOn(t) == {c \in Running : batch[c].tool = t}
RunningAt(h) == {c \in Running : batch[c].host = h}
RunningWith(s) == {c \in Running : batch[c].server = s}

\* The calls that really run together stay within every limit, although the
\* counters are released for calls that an abort let through without a slot
\* (waitForSlot, decSlot, slotLimit).
LimitsRespected ==
    /\ Cardinality(Running) <= MaxOf(1, GlobalMax)
    /\ \A t \in Tools : Cardinality(RunningOn(t)) <= PerTool
    /\ \A h \in Hosts : Cardinality(RunningAt(h)) <= PerHost
    /\ \A s \in Servers : Cardinality(RunningWith(s)) <= PerServer

ToolHolders(t) == {c \in holds : batch[c].tool = t}
HostHolders(h) == {c \in holds : batch[c].host = h}
ServerHolders(s) == {c \in holds : batch[c].server = s}

\* Slot accounting: until an abort the counters are exactly the slots held, so
\* no slot is leaked or counted twice by waitForSlot and decSlot; an abort can
\* only make them too small.
SlotAccounting ==
    /\ \A t \in Tools :
          /\ perToolCount[t] <= Cardinality(ToolHolders(t))
          /\ ~aborted => perToolCount[t] = Cardinality(ToolHolders(t))
    /\ \A h \in Hosts :
          /\ perHostCount[h] <= Cardinality(HostHolders(h))
          /\ ~aborted => perHostCount[h] = Cardinality(HostHolders(h))
    /\ \A s \in Servers :
          /\ perServerCount[s] <= Cardinality(ServerHolders(s))
          /\ ~aborted => perServerCount[s] = Cardinality(ServerHolders(s))

\* The earlier calls that c may not overlap.
MustFollow(c) ==
    {d \in 1..(c - 1) : IsSerialBarrier(c) \/ IsSerialBarrier(d) \/ CallsConflict(c, d)}

\* Serial barriers and conflicting calls keep the order the model wrote them
\* in: a call is not even claimed by a worker before the calls it must follow
\* are reported (partitionWaves and the loop over the waves).
OrderPreserved ==
    \A c \in Calls : status[c] # "unclaimed" =>
        \A d \in MustFollow(c) : status[d] = "done"

\* run returns one result for every call, in the original order, whatever the
\* order in which the calls settled or were cancelled.
CanonicalResults ==
    phase = "returned" => allResults = [i \in 1..N |-> i]

\* scheduler.ts, line 9: a call runs after the calls whose results it consumes.
DependencyOrder ==
    \A c \in Calls : status[c] \in {"running", "done"} =>
        \A d \in consumes[c] : status[d] = "done"

\* Every batch is eventually answered: the 1 ms polling of waitForSlot and the
\* worker pool cannot keep a call waiting for ever.
EventuallyReturned == <>(phase = "returned")

\* The scheduler implements the abstract batch.
Batch == INSTANCE ToolBatch WITH
    GlobalMax <- MaxOf(1, GlobalMax),
    mustFollow <- [c \in Calls |-> MustFollow(c)],
    progress <- [c \in Calls |->
                   IF status[c] \in {"running", "done"} THEN status[c] ELSE "pending"],
    stopped <- aborted

\* The waves, workers and slots show the caller only steps of ToolBatch: calls
\* start in an admissible order and nothing starts once the batch is aborted.
ImplementsToolBatch == Batch!Spec
=============================================================================
