---------------------------- MODULE ProcessesProofs ----------------------------
(***************************************************************************)
(* Theorems about processes that share something: Jobs, for any set of     *)
(* pids, any number of processes and with either module loader,            *)
(* LanguageServers, for any bound on restarts and on processes, and        *)
(* AuthStorage, for any set of processes, keys and any bounds.             *)
(***************************************************************************)
EXTENDS Jobs, LanguageServers, AuthStorage, TLAPS, FiniteSetTheorems

-----------------------------------------------------------------------------
(* Jobs: who is sent a signal                                               *)

\* The processes the job may signal: its own, and those adopted by their name.
Known == ours \cup adopted \cup {Nobody}

Places == {"idle", "registered", "spawned", "started", "restarted", "stopping", "waiting", "killed",
           "stopped", "inspecting", "adopting", "refusing"}
States == {"none", "starting", "running", "stopped", "exited", "failed", "adoption_required"}
Purposes == {"idle", "restart", "remove", "shutdown"}
Records(starters) == [state : States, pid : Pids \cup {NoPid}, start : starters]
Tasks(starters) ==
    [at : Places, copy : Records(starters), after : Purposes, pid : Pids \cup {NoPid}, start : starters]
Handlers(starters) ==
    [start : Nat, state : {"exited", "failed"}, read : BOOLEAN, copy : Records(starters)]

\* What makes StrangersAreSpared inductive: the record, and every copy of it that a call
\* or a handler still works on, names a process of the job or an adopted one, however
\* old the copy is.
JobInv ==
    /\ record \in Records(Known) /\ task \in Tasks(Known) /\ handlers \subseteq Handlers(Known)
    /\ starts \in Nat /\ os \in [Pids -> Nat]
    /\ struck = {}

\* The records that more processes are known of.
LEMMA MoreAreKnown ==
    ASSUME NEW some, NEW more, some \subseteq more
    PROVE  Records(some) \subseteq Records(more) /\ Tasks(some) \subseteq Tasks(more)
           /\ Handlers(some) \subseteq Handlers(more)
<1>1. Records(some) \subseteq Records(more)
  BY DEF Records
<1> QED
  BY <1>1 DEF Tasks, Handlers

\* persist with another state: the process that is named stays the same.
LEMMA StateChanges ==
    ASSUME NEW starters, NEW copy \in Records(starters), NEW state \in States
    PROVE  InState(copy, state) \in Records(starters)
BY DEF Records, InState

\* A new call works on a copy of a record.
LEMMA TaskBegins ==
    ASSUME NEW starters, Nobody \in starters, NEW copy \in Records(starters), NEW where \in Places, NEW after \in Purposes
    PROVE  Task(where, copy, after) \in Tasks(starters)
BY DEF Task, Tasks, NoPid

\* The call goes on with the same copy.
LEMMA TaskGoesOn ==
    ASSUME NEW starters, NEW call \in Tasks(starters), NEW where \in Places
    PROVE  [call EXCEPT !.at = where] \in Tasks(starters)
BY DEF Tasks

\* Before any process was started.
LEMMA NothingIsKnown == ASSUME NEW starters, Nobody \in starters PROVE NoRecord \in Records(starters) /\ NoTask \in Tasks(starters)
<1>1. NoRecord \in Records(starters)
  BY DEF NoRecord, JobRecord, Records, States, NoPid
<1>2. "idle" \in Places /\ "idle" \in Purposes
  BY DEF Places, Purposes
<1> QED
  BY <1>1, <1>2, TaskBegins DEF NoTask

\* start, stop, restart, adopt and the handlers of exits: what is written of a process,
\* early or late, is about a process of the job or an adopted one.
LEMMA RecordsNameKnown == JobsSpec => []JobInv
<1>1. JobsInit => JobInv
  <2> SUFFICES ASSUME JobsInit PROVE JobInv
    OBVIOUS
  <2>1. Nobody \in Known
    BY DEF Known
  <2> QED
    BY <2>1, NothingIsKnown DEF JobsInit, JobInv, Nobody
<1>2. JobInv /\ [JobsNext]_jobVars => JobInv'
  <2> SUFFICES ASSUME JobInv, [JobsNext]_jobVars PROVE JobInv'
    OBVIOUS
  <2>i. /\ record \in Records(Known) /\ task \in Tasks(Known) /\ handlers \subseteq Handlers(Known)
        /\ starts \in Nat /\ os \in [Pids -> Nat] /\ struck = {}
    BY DEF JobInv
  <2>k. Nobody \in Known
    BY DEF Known
  <2>c. task.copy \in Records(Known) /\ task.start \in Known /\ task.pid \in Pids \cup {NoPid}
    BY <2>i DEF Tasks
  <2>p. /\ Terminal \subseteq States /\ {"starting", "running", "adoption_required", "none"} \subseteq States
        /\ Places = {"idle", "registered", "spawned", "started", "restarted", "stopping", "waiting", "killed",
           "stopped", "inspecting", "adopting", "refusing"}
    BY DEF Terminal, States, Places
  <2> USE <2>i, <2>k, <2>p DEF JobInv
  <2>g. \A where \in Places : [task EXCEPT !.at = where] \in Tasks(Known)
    BY <2>i, TaskGoesOn
  <2>a. ASSUME Known' = Known, starts' \in Nat, os' \in [Pids -> Nat], struck' = struck,
               record' \in Records(Known), task' \in Tasks(Known), handlers' \subseteq Handlers(Known)
        PROVE  JobInv'
    BY <2>a
  <2>1. ASSUME NEW after \in Purposes, Register(after) PROVE JobInv'
    <3>1. /\ Known' = Known /\ UNCHANGED <<starts, os, struck, handlers>>
          /\ record' = InState(NoRecord, "starting") /\ task' = Task("registered", record', after)
      BY <2>1 DEF Register, jobHistory, Known
    <3>2. record' \in Records(Known)
      BY <3>1, NothingIsKnown, StateChanges
    <3>3. task' \in Tasks(Known)
      BY <3>1, <3>2, TaskBegins
    <3> QED
      BY <2>a, <3>1, <3>2, <3>3
  <2>2. CASE Spawn
    <3>1. PICK pid \in Pids :
            /\ starts' = starts + 1 /\ os' = [os EXCEPT ![pid] = starts + 1]
            /\ ours' = ours \union {starts + 1} /\ UNCHANGED <<adopted, struck, record, handlers>>
            /\ task' = [task EXCEPT !.at = "spawned", !.pid = pid, !.start = starts + 1]
      BY <2>2 DEF Spawn, jobHistory
    <3>2. Known \subseteq Known' /\ starts + 1 \in Known'
      BY <3>1 DEF Known
    <3>3. record' \in Records(Known') /\ handlers' \subseteq Handlers(Known') /\ task \in Tasks(Known')
      BY <3>1, <3>2, MoreAreKnown
    <3>4. task' \in Tasks(Known')
      BY <3>1, <3>2, <3>3 DEF Tasks
    <3>5. starts' \in Nat /\ os' \in [Pids -> Nat] /\ struck' = {}
      BY <3>1
    <3> QED
      BY <3>3, <3>4, <3>5
  <2>3. CASE SpawnFails
    <3>1. /\ Known' = Known /\ UNCHANGED <<os, struck, record>> /\ starts' = starts + 1
          /\ task' = [task EXCEPT !.at = "spawned"] /\ handlers' = handlers \union {Handler(Nobody, "failed")}
      BY <2>3 DEF SpawnFails, jobHistory, Known
    <3>2. Handler(Nobody, "failed") \in Handlers(Known)
      BY NothingIsKnown DEF Handler, Handlers, Nobody
    <3> QED
      BY <2>a, <3>1, <3>2, <2>g
  <2>4. CASE PersistRunning
    <3>1. /\ Known' = Known /\ UNCHANGED <<os, struck, handlers, starts>>
          /\ record' = JobRecord("running", task.pid, task.start)
          /\ task' = [task EXCEPT !.at = "started", !.copy = record']
      BY <2>4 DEF PersistRunning, PersistRecord, Known
    <3>2. record' \in Records(Known)
      BY <2>c, <3>1 DEF JobRecord, Records
    <3>3. task' \in Tasks(Known)
      BY <3>1, <3>2 DEF Tasks
    <3> QED
      BY <2>a, <3>1, <3>2, <3>3
  <2>5. CASE Track \/ PersistLineage
    <3>1. /\ Known' = Known /\ UNCHANGED <<os, struck, handlers, starts>>
          /\ record' \in {record, task.copy} /\ task' \in {NoTask, [task EXCEPT !.at = "restarted"]}
      BY <2>5 DEF Track, PersistLineage, PersistRecord, Known, jobHistory
    <3> QED
      BY <2>a, <2>c, <3>1, NothingIsKnown, <2>g
  <2>6. ASSUME NEW pid \in Pids, ProcessExits(pid) \/ SigKill(pid) PROVE JobInv'
    <3>1. /\ Known' = Known /\ UNCHANGED <<record, task, struck, starts>>
          /\ os' = os \/ os' = [os EXCEPT ![pid] = Nobody]
          /\ handlers' \subseteq handlers \cup {Handler(os[pid], "exited"), Handler(os[pid], "failed")}
      BY <2>6 DEF ProcessExits, SigKill, Known, jobHistory
    <3>2. Handler(os[pid], "exited") \in Handlers(Known) /\ Handler(os[pid], "failed") \in Handlers(Known)
      BY NothingIsKnown DEF Handler, Handlers
    <3>3. os' \in [Pids -> Nat]
      BY <3>1 DEF Nobody
    <3> QED
      BY <2>a, <3>1, <3>2, <3>3
  <2>7. ASSUME NEW h \in handlers, HandlerReads(h) PROVE JobInv'
    <3>1. /\ Known' = Known /\ UNCHANGED <<record, task, struck, starts, os>>
          /\ handlers' \subseteq handlers \cup {[h EXCEPT !.read = TRUE, !.copy = record]}
      BY <2>7 DEF HandlerReads, Known, jobHistory
    <3>2. [h EXCEPT !.read = TRUE, !.copy = record] \in Handlers(Known)
      BY DEF Handlers
    <3> QED
      BY <2>a, <3>1, <3>2
  <2>8. ASSUME NEW h \in handlers, HandlerPersists(h) PROVE JobInv'
    <3>1. /\ Known' = Known /\ UNCHANGED <<task, struck, starts, os>>
          /\ handlers' \subseteq handlers /\ record' = InState(h.copy, h.state)
      BY <2>8 DEF HandlerPersists, Known
    <3>2. h.copy \in Records(Known) /\ h.state \in States
      BY DEF Handlers, States
    <3> QED
      BY <2>a, <3>1, <3>2, StateChanges
  <2>9. ASSUME NEW after \in Purposes, StopJob(after) PROVE JobInv'
    <3>1. /\ Known' = Known /\ UNCHANGED <<record, handlers, struck, starts, os>>
          /\ \E where \in {"stopped", "stopping"} : task' = Task(where, record, after)
      BY <2>9 DEF StopJob, Known, jobHistory
    <3> QED
      BY <2>a, <3>1, TaskBegins
  <2>10. CASE StopSignals
    <3> DEFINE live == Live(task.copy.pid)
    <3>1. /\ Known' = Known /\ UNCHANGED <<handlers, starts, os>>
          /\ record' = record \/ record' = InState(task.copy, "adoption_required")
          /\ \E where \in {"killed", "stopped", "waiting"} : task' = [task EXCEPT !.at = where]
          /\ struck' = struck \/ (live = task.copy.start /\ live # Nobody /\ struck' = struck \union ({live} \ (ours \union adopted)))
      BY <2>10 DEF StopSignals, PersistRecord, Known, Matches
    <3>2. task.copy.start \in Known
      BY <2>c DEF Records
    <3>3. struck' = struck
      BY <3>1, <3>2 DEF Known
    <3>4. record' \in Records(Known)
      BY <2>c, <3>1, StateChanges
    <3> QED
      BY <2>a, <3>1, <3>3, <3>4, <2>g
  <2>11. CASE StopWaitEnds \/ PersistStopped
    <3>1. /\ Known' = Known /\ UNCHANGED <<handlers, starts, os, struck>>
          /\ record' = record \/ record' = InState(task.copy, "stopped")
          /\ \E where \in {"killed", "stopped"} : task' = [task EXCEPT !.at = where]
      BY <2>11 DEF StopWaitEnds, PersistStopped, PersistRecord, Known, jobHistory
    <3>2. record' \in Records(Known)
      BY <2>c, <3>1, StateChanges DEF Terminal
    <3> QED
      BY <2>a, <3>1, <3>2, <2>g
  <2>12. CASE StopEnds \/ RegistryDies
    <3>1. /\ Known' = Known /\ UNCHANGED <<starts, os, struck>> /\ handlers' \subseteq handlers
          /\ record' \in {record, NoRecord} /\ task' = NoTask
      BY <2>12 DEF StopEnds, RegistryDies, Known, jobHistory
    <3> QED
      BY <2>a, <3>1, NothingIsKnown
  <2>13. CASE Status \/ Adopt \/ AdoptRefuses
    <3>1. /\ Known' = Known /\ UNCHANGED <<record, handlers, starts, os, struck>>
          /\ task' = NoTask \/ \E where \in {"inspecting", "adopting", "refusing"} : task' = Task(where, record, "idle")
      BY <2>13 DEF Status, Adopt, AdoptRefuses, Known, jobHistory
    <3>2. "idle" \in Purposes
      BY DEF Purposes
    <3> QED
      BY <2>a, <3>1, <3>2, NothingIsKnown, TaskBegins
  <2>14. CASE StatusEnds \/ RefuseAdoption
    <3>1. /\ Known' = Known /\ UNCHANGED <<handlers, starts, os, struck>> /\ task' = NoTask
          /\ record' = record \/ record' = InState(task.copy, "adoption_required")
      BY <2>14 DEF StatusEnds, RefuseAdoption, PersistRecord, Known, jobHistory
    <3>2. record' \in Records(Known)
      BY <2>c, <3>1, StateChanges
    <3> QED
      BY <2>a, <3>1, <3>2, NothingIsKnown
  <2>15. CASE AdoptAccepts
    <3> DEFINE live == Live(task.copy.pid)
    <3>1. /\ UNCHANGED <<handlers, starts, os, struck, ours>> /\ task' = NoTask
          /\ record' = JobRecord("running", task.copy.pid, live) /\ adopted' = adopted \union ({live} \ ours)
      BY <2>15 DEF AdoptAccepts, PersistRecord
    <3>2. Known \subseteq Known' /\ live \in Known' /\ Nobody \in Known'
      BY <3>1 DEF Known
    <3>3. record' \in Records(Known')
      BY <2>c, <3>1, <3>2 DEF Records, JobRecord
    <3>4. handlers' \subseteq Handlers(Known')
      BY <3>1, <3>2, MoreAreKnown
    <3> QED
      BY <3>1, <3>2, <3>3, <3>4, NothingIsKnown
  <2>16. ASSUME NEW pid \in Pids, StrangerStarts(pid) PROVE JobInv'
    <3>1. /\ Known' = Known /\ UNCHANGED <<record, task, handlers, struck>>
          /\ starts' = starts + 1 /\ os' = [os EXCEPT ![pid] = starts + 1]
      BY <2>16 DEF StrangerStarts, Known, jobHistory
    <3> QED
      BY <2>a, <3>1
  <2>17. CASE UNCHANGED jobVars
    BY <2>17 DEF jobVars, jobHistory, Known
  <2>18. Purposes = {"idle", "restart", "remove", "shutdown"}
    BY DEF Purposes
  <2> QED
    BY <2>1, <2>2, <2>3, <2>4, <2>5, <2>6, <2>7, <2>8, <2>9, <2>10, <2>11, <2>12, <2>13, <2>14, <2>15, <2>16, <2>17, <2>18
       DEF JobsNext, StartJob, Restarts
<1> QED
  BY <1>1, <1>2, PTL DEF JobsSpec

\* stop: however often pids are reused, records are overwritten by older copies and the
\* registry dies, SIGTERM goes to a process of the job, or to one adopted by its name.
THEOREM StrangersSpared == JobsSpec => []StrangersAreSpared
<1>1. JobInv => StrangersAreSpared
  BY DEF JobInv, StrangersAreSpared
<1> QED
  BY <1>1, RecordsNameKnown, PTL

-----------------------------------------------------------------------------
(* Jobs: every process is held by the record                               *)

\* The process a record names lives at the pid it names, or nowhere.
Locates(copy, where) == \A pid \in Pids : copy.start # Nobody /\ where[pid] = copy.start => pid = copy.pid
Placed(copy, where, count) == copy.start \in 0 .. count /\ Locates(copy, where)
HandlerPlaced(h, where, count) ==
    /\ Placed(h.copy, where, count) /\ h.start \in 0 .. count
    /\ \A pid \in Pids : h.start # Nobody => where[pid] # h.start

\* A process lives at one pid, where every copy of the record has it; it does not live
\* any more when its exit is handled.
PlaceInv ==
    /\ watched \subseteq ours /\ ours \subseteq 1 .. starts
    /\ \A pid \in Pids : os[pid] \in 0 .. starts
    /\ \A p, q \in Pids : os[p] = os[q] /\ os[p] # Nobody => p = q
    /\ Placed(record, os, starts) /\ Placed(task.copy, os, starts) /\ Placed(task, os, starts)
    /\ \A h \in handlers : HandlerPlaced(h, os, starts)

\* Processes that end leave the others where they are; a new one has a new number.
LEMMA StaysPlaced ==
    ASSUME NEW count \in Nat, NEW more \in Nat, count <= more, NEW where, NEW moved,
           \A pid \in Pids : moved[pid] \in {where[pid], Nobody} \/ moved[pid] = count + 1
    PROVE  /\ \A copy : Placed(copy, where, count) => Placed(copy, moved, more)
           /\ \A h : HandlerPlaced(h, where, count) => HandlerPlaced(h, moved, more)
<1>1. ASSUME NEW start \in 0 .. count, start # Nobody, NEW pid \in Pids, moved[pid] = start PROVE where[pid] = start
  BY <1>1
<1>2. 0 .. count \subseteq 0 .. more
  OBVIOUS
<1>3. \A copy : Placed(copy, where, count) => Placed(copy, moved, more)
  BY <1>1, <1>2 DEF Placed, Locates
<1>4. \A h : HandlerPlaced(h, where, count) => HandlerPlaced(h, moved, more)
  BY <1>1, <1>2, <1>3 DEF HandlerPlaced
<1> QED
  BY <1>3, <1>4

\* Copies keep the process they name when their state or their call changes.
LEMMA PlacedAnyway ==
    ASSUME NEW starters, NEW where, NEW count \in Nat
    PROVE  /\ Placed(NoRecord, where, count) /\ Placed(NoTask, where, count) /\ Placed(NoTask.copy, where, count)
           /\ \A copy \in Records(starters), state \in States : Placed(copy, where, count) => Placed(InState(copy, state), where, count)
           /\ \A copy \in Records(starters), place \in Places, after \in Purposes : Placed(Task(place, copy, after), where, count)
           /\ \A call \in Tasks(starters), place \in Places : Placed(call, where, count) => Placed([call EXCEPT !.at = place], where, count)
<1>1. Placed(NoRecord, where, count) /\ Placed(NoTask, where, count) /\ Placed(NoTask.copy, where, count)
  BY DEF Placed, Locates, NoRecord, JobRecord, NoTask, Task, Nobody
<1>2. ASSUME NEW copy \in Records(starters), NEW state \in States, Placed(copy, where, count)
      PROVE  Placed(InState(copy, state), where, count)
  <2>1. InState(copy, state).start = copy.start /\ InState(copy, state).pid = copy.pid
    BY DEF Records, InState
  <2> QED
    BY <1>2, <2>1 DEF Placed, Locates
<1>3. ASSUME NEW copy \in Records(starters), NEW place \in Places, NEW after \in Purposes
      PROVE  Placed(Task(place, copy, after), where, count)
  BY DEF Placed, Locates, Task, Nobody
<1>4. ASSUME NEW call \in Tasks(starters), NEW place \in Places, Placed(call, where, count)
      PROVE  Placed([call EXCEPT !.at = place], where, count)
  <2>1. [call EXCEPT !.at = place].start = call.start /\ [call EXCEPT !.at = place].pid = call.pid
    BY DEF Tasks
  <2> QED
    BY <1>4, <2>1 DEF Placed, Locates
<1> QED
  BY <1>1, <1>2, <1>3, <1>4

\* Spawning, exits, signals, and all that is written of them: see PlaceInv.
LEMMA JobsPlaced == JobsSpec => []PlaceInv
<1>1. JobsInit => PlaceInv
  <2> SUFFICES ASSUME JobsInit PROVE PlaceInv
    OBVIOUS
  <2>1. Placed(NoRecord, os, starts) /\ Placed(NoTask, os, starts) /\ Placed(NoTask.copy, os, starts)
    BY PlacedAnyway DEF JobsInit
  <2> QED
    BY <2>1 DEF JobsInit, PlaceInv, Nobody
<1>2. JobInv /\ PlaceInv /\ [JobsNext]_jobVars => PlaceInv'
  <2> SUFFICES ASSUME JobInv, PlaceInv, [JobsNext]_jobVars PROVE PlaceInv'
    OBVIOUS
  <2>i. /\ record \in Records(Known) /\ task \in Tasks(Known) /\ handlers \subseteq Handlers(Known)
        /\ starts \in Nat /\ os \in [Pids -> Nat]
    BY DEF JobInv
  <2>c. task.copy \in Records(Known) /\ \A h \in handlers : h.copy \in Records(Known) /\ h.state \in States
    BY <2>i DEF Tasks, Handlers, States
  <2>p. /\ watched \subseteq ours /\ ours \subseteq 1 .. starts
        /\ \A pid \in Pids : os[pid] \in 0 .. starts
        /\ \A p, q \in Pids : os[p] = os[q] /\ os[p] # Nobody => p = q
        /\ Placed(record, os, starts) /\ Placed(task.copy, os, starts) /\ Placed(task, os, starts)
        /\ \A h \in handlers : HandlerPlaced(h, os, starts)
    BY DEF PlaceInv
  <2>s. /\ {"starting", "running", "adoption_required", "none", "stopped", "exited", "failed"} \subseteq States
        /\ Places = {"idle", "registered", "spawned", "started", "restarted", "stopping", "waiting", "killed",
           "stopped", "inspecting", "adopting", "refusing"}
        /\ Purposes = {"idle", "restart", "remove", "shutdown"}
    BY DEF States, Places, Purposes
  \* Placed copies that the steps make.
  <2>w. /\ Placed(NoRecord, os, starts) /\ Placed(NoTask, os, starts) /\ Placed(NoTask.copy, os, starts)
        /\ \A copy \in Records(Known), state \in States : Placed(copy, os, starts) => Placed(InState(copy, state), os, starts)
        /\ \A copy \in Records(Known), place \in Places, after \in Purposes : Placed(Task(place, copy, after), os, starts)
        /\ \A place \in Places : Placed([task EXCEPT !.at = place], os, starts) /\ [task EXCEPT !.at = place].copy = task.copy
    <3>1. \A place \in Places : [task EXCEPT !.at = place].copy = task.copy
      BY <2>i DEF Tasks
    <3> QED
      BY <2>i, <2>p, <3>1, PlacedAnyway
  <2>a. ASSUME UNCHANGED <<os, starts, ours>>, watched' \subseteq watched, Placed(record', os, starts),
               Placed(task'.copy, os, starts), Placed(task', os, starts), \A h \in handlers' : HandlerPlaced(h, os, starts)
        PROVE  PlaceInv'
    BY <2>a, <2>p DEF PlaceInv
  \* The call goes on and handlers may be gone.
  <2>g. ASSUME UNCHANGED <<os, starts, ours, watched>>, handlers' \subseteq handlers, Placed(record', os, starts),
               task' = NoTask \/ (\E place \in Places : task' = [task EXCEPT !.at = place])
                 \/ \E place \in Places, after \in Purposes : task' = Task(place, record, after)
        PROVE  PlaceInv'
    <3>1. Placed(task', os, starts) /\ Placed(task'.copy, os, starts)
      <4>1. CASE task' = NoTask
        BY <2>w, <4>1
      <4>2. ASSUME NEW place \in Places, task' = [task EXCEPT !.at = place]
            PROVE  Placed(task', os, starts) /\ Placed(task'.copy, os, starts)
        <5>1. task'.copy = task.copy
          BY <2>w, <4>2
        <5> QED
          BY <2>p, <2>w, <4>2, <5>1
      <4>3. ASSUME NEW place \in Places, NEW after \in Purposes, task' = Task(place, record, after)
            PROVE  Placed(task', os, starts) /\ Placed(task'.copy, os, starts)
        <5>1. task'.copy = record
          BY <4>3 DEF Task
        <5> QED
          BY <2>i, <2>p, <2>w, <4>3, <5>1
      <4> QED
        BY <2>g, <4>1, <4>2, <4>3
    <3> QED
      BY <2>a, <2>g, <2>p, <3>1
  <2>m. ASSUME \A pid \in Pids : os'[pid] \in {os[pid], Nobody} \/ os'[pid] = starts + 1, starts' \in {starts, starts + 1}
        PROVE  /\ \A copy : Placed(copy, os, starts) => Placed(copy, os', starts')
               /\ \A h : HandlerPlaced(h, os, starts) => HandlerPlaced(h, os', starts')
    BY <2>i, <2>m, StaysPlaced
  <2>1. ASSUME NEW after \in Purposes, Register(after) PROVE PlaceInv'
    <3>1. /\ UNCHANGED <<os, starts, ours, watched, handlers>>
          /\ record' = InState(NoRecord, "starting") /\ task' = Task("registered", record', after)
      BY <2>1 DEF Register
    <3>2. record' \in Records(Known) /\ Placed(record', os, starts)
      <4>1. NoRecord \in Records(Known)
        BY NothingIsKnown DEF Known
      <4> QED
        BY <2>s, <2>w, <3>1, <4>1, StateChanges
    <3>3. Placed(task', os, starts) /\ task'.copy = record'
      BY <2>s, <2>w, <3>1, <3>2 DEF Task
    <3> QED
      BY <2>a, <2>p, <3>1, <3>2, <3>3
  <2>2. CASE Spawn
    <3>1. PICK pid \in Pids :
            /\ os[pid] = Nobody /\ starts' = starts + 1 /\ os' = [os EXCEPT ![pid] = starts + 1]
            /\ ours' = ours \union {starts + 1} /\ watched' = watched \union {starts + 1} /\ UNCHANGED <<record, handlers>>
            /\ task' = [task EXCEPT !.at = "spawned", !.pid = pid, !.start = starts + 1]
      BY <2>2 DEF Spawn
    <3>2. os'[pid] = starts + 1 /\ \A q \in Pids \ {pid} : os'[q] = os[q]
      BY <2>i, <3>1
    <3>3. /\ \A copy : Placed(copy, os, starts) => Placed(copy, os', starts')
          /\ \A h : HandlerPlaced(h, os, starts) => HandlerPlaced(h, os', starts')
      BY <2>m, <3>1, <3>2
    <3>4. \A p \in Pids : os'[p] \in 0 .. starts'
      BY <2>i, <2>p, <3>1, <3>2
    <3>5. \A p, q \in Pids : os'[p] = os'[q] /\ os'[p] # Nobody => p = q
      BY <2>i, <2>p, <3>2
    <3>6. task'.copy = task.copy /\ task'.pid = pid /\ task'.start = starts + 1
      BY <2>i, <3>1 DEF Tasks
    <3>7. Placed(task', os', starts')
      BY <2>i, <2>p, <3>1, <3>2, <3>6 DEF Placed, Locates
    <3>8. watched' \subseteq ours' /\ ours' \subseteq 1 .. starts'
      BY <2>i, <2>p, <3>1
    <3> QED
      BY <2>p, <3>1, <3>3, <3>4, <3>5, <3>6, <3>7, <3>8 DEF PlaceInv
  <2>3. CASE SpawnFails
    <3>1. /\ UNCHANGED <<os, ours, watched, record>> /\ starts' = starts + 1
          /\ task' = [task EXCEPT !.at = "spawned"] /\ handlers' = handlers \union {Handler(Nobody, "failed")}
      BY <2>3 DEF SpawnFails
    <3>2. /\ \A copy : Placed(copy, os, starts) => Placed(copy, os', starts')
          /\ \A h : HandlerPlaced(h, os, starts) => HandlerPlaced(h, os', starts')
      BY <2>m, <3>1
    <3>3. HandlerPlaced(Handler(Nobody, "failed"), os, starts)
      BY <2>i, <2>w DEF HandlerPlaced, Handler, Nobody
    <3>4. (\A pid \in Pids : os[pid] \in 0 .. starts') /\ ours \subseteq 1 .. starts'
      BY <2>i, <2>p, <3>1
    <3>5. task'.copy = task.copy /\ Placed(task', os, starts)
      BY <2>s, <2>w, <3>1
    <3>6. \A h \in handlers' : HandlerPlaced(h, os', starts')
      BY <2>p, <3>1, <3>2, <3>3
    <3>7. Placed(record', os', starts') /\ Placed(task', os', starts') /\ Placed(task'.copy, os', starts')
      BY <2>p, <3>1, <3>2, <3>5
    <3> QED
      BY <2>p, <3>1, <3>4, <3>6, <3>7 DEF PlaceInv
  <2>4. CASE PersistRunning
    <3>1. /\ UNCHANGED <<os, ours, watched, handlers, starts>>
          /\ record' = JobRecord("running", task.pid, task.start)
          /\ task' = [task EXCEPT !.at = "started", !.copy = record']
      BY <2>4 DEF PersistRunning, PersistRecord
    <3>2. record'.start = task.start /\ record'.pid = task.pid
      BY <3>1 DEF JobRecord
    <3>3. task'.start = task.start /\ task'.pid = task.pid /\ task'.copy = record'
      BY <2>i, <3>1 DEF Tasks
    <3>4. Placed(record', os, starts) /\ Placed(task', os, starts)
      BY <2>p, <3>2, <3>3 DEF Placed, Locates
    <3> QED
      BY <2>a, <2>p, <3>1, <3>3, <3>4
  <2>5. CASE Track \/ PersistLineage
    <3>1. /\ UNCHANGED <<os, ours, watched, handlers, starts>>
          /\ record' \in {record, task.copy} /\ task' \in {NoTask, [task EXCEPT !.at = "restarted"]}
      BY <2>5 DEF Track, PersistLineage, PersistRecord, jobHistory
    <3> QED
      BY <2>g, <2>p, <2>s, <3>1
  <2>6. ASSUME NEW pid \in Pids, ProcessExits(pid) \/ SigKill(pid) PROVE PlaceInv'
    <3>1. /\ UNCHANGED <<record, task, starts, ours, watched>>
          /\ \/ UNCHANGED <<os, handlers>>
             \/ /\ os' = [os EXCEPT ![pid] = Nobody]
                /\ handlers' \subseteq handlers \cup {Handler(os[pid], "exited"), Handler(os[pid], "failed")}
      BY <2>6 DEF ProcessExits, SigKill, jobHistory
    <3>2. CASE UNCHANGED <<os, handlers>>
      BY <2>a, <2>p, <3>1, <3>2
    <3>3. CASE /\ os' = [os EXCEPT ![pid] = Nobody]
               /\ handlers' \subseteq handlers \cup {Handler(os[pid], "exited"), Handler(os[pid], "failed")}
      <4>1. os'[pid] = Nobody /\ \A q \in Pids \ {pid} : os'[q] = os[q]
        BY <2>i, <3>3
      <4>2. /\ \A copy : Placed(copy, os, starts) => Placed(copy, os', starts')
            /\ \A h : HandlerPlaced(h, os, starts) => HandlerPlaced(h, os', starts')
        BY <2>m, <3>1, <4>1
      <4>3. ASSUME NEW state PROVE HandlerPlaced(Handler(os[pid], state), os', starts')
        <5>1. Placed(NoRecord, os', starts')
          BY <2>w, <4>2
        <5>2. os[pid] \in 0 .. starts' /\ \A q \in Pids : os[pid] # Nobody => os'[q] # os[pid]
          BY <2>p, <3>1, <4>1
        <5> QED
          BY <5>1, <5>2 DEF HandlerPlaced, Handler
      <4>4. \A q \in Pids : os'[q] \in 0 .. starts'
        BY <2>i, <2>p, <3>1, <4>1 DEF Nobody
      <4>5. \A p, q \in Pids : os'[p] = os'[q] /\ os'[p] # Nobody => p = q
        BY <2>p, <4>1
      <4>6. \A h \in handlers' : HandlerPlaced(h, os', starts')
        BY <2>p, <3>3, <4>2, <4>3
      <4> QED
        BY <2>p, <3>1, <4>2, <4>4, <4>5, <4>6 DEF PlaceInv
    <3> QED
      BY <3>1, <3>2, <3>3
  <2>7. ASSUME NEW h \in handlers, HandlerReads(h) PROVE PlaceInv'
    <3>1. /\ UNCHANGED <<record, task, starts, os, ours, watched>>
          /\ handlers' \subseteq handlers \cup {[h EXCEPT !.read = TRUE, !.copy = record]}
      BY <2>7 DEF HandlerReads, jobHistory
    <3>2. [h EXCEPT !.read = TRUE, !.copy = record].copy = record /\ [h EXCEPT !.read = TRUE, !.copy = record].start = h.start
      BY <2>i DEF Handlers
    <3>3. HandlerPlaced([h EXCEPT !.read = TRUE, !.copy = record], os, starts)
      BY <2>p, <3>2 DEF HandlerPlaced
    <3> QED
      BY <2>a, <2>p, <3>1, <3>3
  <2>8. ASSUME NEW h \in handlers, HandlerPersists(h) PROVE PlaceInv'
    <3>1. /\ UNCHANGED <<task, starts, os, ours, watched>>
          /\ handlers' \subseteq handlers /\ record' = InState(h.copy, h.state)
      BY <2>8 DEF HandlerPersists
    <3>2. Placed(record', os, starts)
      BY <2>c, <2>p, <2>w, <3>1 DEF HandlerPlaced
    <3> QED
      BY <2>a, <2>p, <3>1, <3>2
  <2>9. ASSUME NEW after \in Purposes, StopJob(after) PROVE PlaceInv'
    <3>1. /\ UNCHANGED <<record, handlers, starts, os, ours, watched>>
          /\ \E where \in Places : task' = Task(where, record, after)
      BY <2>9, <2>s DEF StopJob, jobHistory
    <3> QED
      BY <2>g, <2>p, <3>1
  <2>10. CASE StopSignals
    <3>1. /\ UNCHANGED <<handlers, starts, os, ours, watched>>
          /\ record' = record \/ record' = InState(task.copy, "adoption_required")
          /\ \E where \in Places : task' = [task EXCEPT !.at = where]
      BY <2>10, <2>s DEF StopSignals, PersistRecord
    <3>2. Placed(record', os, starts)
      BY <2>c, <2>p, <2>s, <2>w, <3>1
    <3> QED
      BY <2>g, <3>1, <3>2
  <2>11. CASE StopWaitEnds \/ PersistStopped
    <3>1. /\ UNCHANGED <<handlers, starts, os, ours, watched>>
          /\ record' = record \/ record' = InState(task.copy, "stopped")
          /\ \E where \in Places : task' = [task EXCEPT !.at = where]
      BY <2>11, <2>s DEF StopWaitEnds, PersistStopped, PersistRecord, jobHistory
    <3>2. Placed(record', os, starts)
      BY <2>c, <2>p, <2>s, <2>w, <3>1
    <3> QED
      BY <2>g, <3>1, <3>2
  <2>12. CASE StopEnds
    <3>1. /\ UNCHANGED <<starts, os, ours, watched, handlers>>
          /\ record' \in {record, NoRecord} /\ task' = NoTask
      BY <2>12 DEF StopEnds, jobHistory
    <3> QED
      BY <2>g, <2>p, <2>w, <3>1
  <2>13. CASE Status \/ Adopt \/ AdoptRefuses
    <3>1. /\ UNCHANGED <<record, handlers, starts, os, ours, watched>>
          /\ task' = NoTask \/ \E where \in Places : task' = Task(where, record, "idle")
      BY <2>13, <2>s DEF Status, Adopt, AdoptRefuses, jobHistory
    <3> QED
      BY <2>g, <2>p, <2>s, <3>1
  <2>14. CASE StatusEnds \/ RefuseAdoption
    <3>1. /\ UNCHANGED <<handlers, starts, os, ours, watched>> /\ task' = NoTask
          /\ record' = record \/ record' = InState(task.copy, "adoption_required")
      BY <2>14 DEF StatusEnds, RefuseAdoption, PersistRecord, jobHistory
    <3>2. Placed(record', os, starts)
      BY <2>c, <2>p, <2>s, <2>w, <3>1
    <3> QED
      BY <2>g, <3>1, <3>2
  <2>15. CASE AdoptAccepts
    <3> DEFINE live == Live(task.copy.pid)
    <3>1. /\ UNCHANGED <<handlers, starts, os, ours, watched>> /\ task' = NoTask
          /\ record' = JobRecord("running", task.copy.pid, live)
      BY <2>15 DEF AdoptAccepts, PersistRecord
    <3>2. record'.start = live /\ record'.pid = task.copy.pid
      BY <3>1 DEF JobRecord
    <3>3. live = Nobody \/ (task.copy.pid \in Pids /\ live = os[task.copy.pid])
      BY <2>c DEF Live, At, Records
    <3>4. Placed(record', os, starts)
      BY <2>i, <2>p, <3>2, <3>3 DEF Placed, Locates, Nobody
    <3> QED
      BY <2>g, <3>1, <3>4
  <2>16. ASSUME NEW pid \in Pids, StrangerStarts(pid) PROVE PlaceInv'
    <3>1. /\ UNCHANGED <<record, task, handlers, ours, watched>> /\ os[pid] = Nobody
          /\ starts' = starts + 1 /\ os' = [os EXCEPT ![pid] = starts + 1]
      BY <2>16 DEF StrangerStarts, jobHistory
    <3>2. os'[pid] = starts + 1 /\ \A q \in Pids \ {pid} : os'[q] = os[q]
      BY <2>i, <3>1
    <3>3. /\ \A copy : Placed(copy, os, starts) => Placed(copy, os', starts')
          /\ \A h : HandlerPlaced(h, os, starts) => HandlerPlaced(h, os', starts')
      BY <2>m, <3>1, <3>2
    <3>4. (\A p \in Pids : os'[p] \in 0 .. starts') /\ ours \subseteq 1 .. starts'
      BY <2>i, <2>p, <3>1, <3>2
    <3>5. \A p, q \in Pids : os'[p] = os'[q] /\ os'[p] # Nobody => p = q
      BY <2>i, <2>p, <3>2
    <3> QED
      BY <2>p, <3>1, <3>3, <3>4, <3>5 DEF PlaceInv
  <2>17. CASE RegistryDies
    <3>1. /\ UNCHANGED <<starts, os, ours, record>> /\ watched' = {} /\ handlers' = {} /\ task' = NoTask
      BY <2>17 DEF RegistryDies
    <3> QED
      BY <2>a, <2>p, <2>w, <3>1
  <2>18. CASE UNCHANGED jobVars
    BY <2>18, <2>a, <2>p DEF jobVars
  <2> QED
    BY <2>1, <2>2, <2>3, <2>4, <2>5, <2>6, <2>7, <2>8, <2>9, <2>10, <2>11, <2>12, <2>13, <2>14, <2>15, <2>16, <2>17, <2>18, <2>s
       DEF JobsNext, StartJob, Restarts
<1> QED
  BY <1>1, <1>2, RecordsNameKnown, PTL DEF JobsSpec

\* No process of the job lives under that number, but for those that get SIGKILL.
Over(start) == \A pid \in Pids : os[pid] = start /\ start \in ours => pid \in timers

\* How a call goes on: start works on a new record; stop has waited for the process when
\* it writes that it stopped.
CourseInv ==
    /\ task.at = "idle" => task = NoTask
    /\ task.at # "idle" => record.state # "none" /\ task.copy.state # "none"
    /\ \A h \in handlers : h.read => h.copy.state # "none"
    /\ task.at \in {"registered", "spawned"} => task.copy = InState(NoRecord, "starting")
    /\ task.at \in {"waiting", "killed"} => Over(task.copy.start)

\* A process of the job that lives is named by a record that can be stopped, gets SIGKILL
\* or has just been spawned; the others are over when a call has stopped the job.
HoldInv ==
    lost \/ forgotten \/
    /\ \A pid \in Pids : os[pid] \in ours =>
          \/ record.start = os[pid] /\ record.state \notin Terminal
          \/ pid \in timers
          \/ task.at = "spawned" /\ task.start = os[pid]
    /\ task.at = "stopped" => \A start \in ours : Over(start)

\* The exit of a process the record calls running is on its way to the record.
Reported(start, pid) == start \in watched => At(pid) = start \/ \E h \in handlers : h.start = start
ReportInv ==
    lost \/
    /\ record.state = "running" => Reported(record.start, record.pid)
    /\ task.at = "spawned" => Reported(task.start, task.pid)
    /\ task.at = "registered" => task.start = Nobody
    /\ task.at \in {"registered", "spawned"} => record.start = Nobody

\* start, stop, restart, remove, status, adopt and the handlers, step by step.
LEMMA CallsTakeTheirCourse ==
    ASSUME RequireIsDefined
    PROVE  JobsSpec => []CourseInv
<1>1. JobsInit => CourseInv
  BY DEF JobsInit, CourseInv, NoTask, Task
<1>2. JobInv /\ PlaceInv /\ CourseInv /\ [JobsNext]_jobVars => CourseInv'
  <2> SUFFICES ASSUME JobInv, PlaceInv, CourseInv, [JobsNext]_jobVars PROVE CourseInv'
    OBVIOUS
  <2>i. /\ record \in Records(Known) /\ task \in Tasks(Known) /\ handlers \subseteq Handlers(Known)
        /\ starts \in Nat /\ os \in [Pids -> Nat]
    BY DEF JobInv
  <2>c. /\ task.at = "idle" => task = NoTask
        /\ task.at # "idle" => record.state # "none" /\ task.copy.state # "none"
        /\ \A h \in handlers : h.read => h.copy.state # "none"
        /\ task.at \in {"registered", "spawned"} => task.copy = InState(NoRecord, "starting")
        /\ task.at \in {"waiting", "killed"} => Over(task.copy.start)
    BY DEF CourseInv
  <2>n. NoTask.at = "idle"
    BY DEF NoTask, Task
  <2>s. \A copy \in Records(Known) : \A state \in States : InState(copy, state).state = state
    BY DEF InState, Records
  <2>t. task.copy \in Records(Known) /\ \A h \in handlers : h.copy \in Records(Known)
    BY <2>i DEF Tasks, Handlers
  <2>k. NoRecord \in Records(Known)
    BY NothingIsKnown DEF Known
  <2>e. \A place : [task EXCEPT !.at = place].at = place /\ [task EXCEPT !.at = place].copy = task.copy
    BY <2>i DEF Tasks
  <2>z. /\ {"starting", "running", "adoption_required", "stopped", "exited", "failed"} \subseteq States \ {"none"}
        /\ "none" \notin {"starting", "running", "adoption_required", "stopped", "exited", "failed"}
    BY DEF States
  \* The call ends.
  <2>d. ASSUME task' = NoTask, handlers' \subseteq handlers PROVE CourseInv'
    BY <2>c, <2>d, <2>n DEF CourseInv
  \* The call begins or goes on, and the handlers are the same.
  <2>a. ASSUME task'.at # "idle", record'.state # "none", task'.copy.state # "none", handlers' = handlers,
               task'.at \in {"registered", "spawned"} => task'.copy = InState(NoRecord, "starting"),
               task'.at \in {"waiting", "killed"} => Over(task.copy.start)'
        PROVE  CourseInv'
    BY <2>a, <2>c DEF CourseInv
  \* The process that is waited for stays over.
  <2>o. ASSUME UNCHANGED <<task, ours>>, \A h \in handlers' : h.read => h.copy.state # "none",
               record' = record \/ record'.state # "none",
               \A pid \in Pids : os'[pid] \in ours => os'[pid] = os[pid] /\ (pid \in timers => pid \in timers')
        PROVE  CourseInv'
    <3>1. Over(task.copy.start) => Over(task.copy.start)'
      BY <2>o DEF Over
    <3> QED
      BY <2>c, <2>o, <3>1 DEF CourseInv
  <2>1. ASSUME NEW after \in Purposes, Register(after) PROVE CourseInv'
    <3>1. /\ record' = InState(NoRecord, "starting") /\ task' = Task("registered", record', after) /\ handlers' = handlers
      BY <2>1 DEF Register
    <3>2. record'.state = "starting" /\ task'.copy = record' /\ task'.at = "registered"
      BY <2>k, <2>s, <2>z, <3>1 DEF Task
    <3> QED
      BY <2>a, <3>1, <3>2
  <2>2. CASE Spawn
    <3>1. PICK pid, new : task' = [task EXCEPT !.at = "spawned", !.pid = pid, !.start = new]
      BY <2>2 DEF Spawn
    <3>2. task.at = "registered" /\ UNCHANGED <<record, handlers>>
      BY <2>2 DEF Spawn
    <3>3. task'.at = "spawned" /\ task'.copy = task.copy
      BY <2>i, <3>1 DEF Tasks
    <3> QED
      BY <2>a, <2>c, <3>2, <3>3
  <2>3. CASE SpawnFails
    <3>1. /\ UNCHANGED record /\ task.at = "registered"
          /\ task' = [task EXCEPT !.at = "spawned"] /\ handlers' = handlers \union {Handler(Nobody, "failed")}
      BY <2>3 DEF SpawnFails
    <3>2. ~Handler(Nobody, "failed").read
      BY DEF Handler
    <3> QED
      BY <2>c, <2>e, <3>1, <3>2 DEF CourseInv
  <2>4. CASE PersistRunning
    <3>1. /\ UNCHANGED handlers /\ record' = JobRecord("running", task.pid, task.start)
          /\ task' = [task EXCEPT !.at = "started", !.copy = record']
      BY <2>4 DEF PersistRunning, PersistRecord
    <3>2. record'.state = "running" /\ task'.at = "started" /\ task'.copy = record'
      BY <2>i, <3>1 DEF Tasks, JobRecord
    <3> QED
      BY <2>a, <3>1, <3>2
  <2>5. CASE Track \/ PersistLineage
    <3>1. \/ task' = NoTask
          \/ task' = [task EXCEPT !.at = "restarted"] /\ task.at = "started" /\ UNCHANGED record
      BY <2>5 DEF Track, PersistLineage, jobHistory
    <3>2. UNCHANGED handlers
      BY <2>5 DEF Track, PersistLineage
    <3> QED
      BY <2>a, <2>c, <2>d, <2>e, <3>1, <3>2
  <2>6. ASSUME NEW pid \in Pids, ProcessExits(pid) \/ SigKill(pid) PROVE CourseInv'
    <3>1. /\ UNCHANGED <<record, task, ours>>
          /\ handlers' \subseteq handlers \cup {Handler(os[pid], "exited"), Handler(os[pid], "failed")}
          /\ \/ UNCHANGED os /\ timers' = timers
             \/ UNCHANGED os /\ timers' = timers \ {pid} /\ os[pid] \notin ours
             \/ os' = [os EXCEPT ![pid] = Nobody] /\ timers' \in {timers, timers \ {pid}}
      BY <2>6 DEF ProcessExits, SigKill
    <3>2. \A state : ~Handler(os[pid], state).read
      BY DEF Handler
    <3>3. Nobody \notin ours
      BY <2>i DEF PlaceInv, Nobody
    <3>4. \A q \in Pids : os'[q] \in ours => os'[q] = os[q] /\ (q \in timers => q \in timers')
      BY <2>i, <3>1, <3>3
    <3>5. \A h \in handlers' : h.read => h.copy.state # "none"
      BY <2>c, <3>1, <3>2
    <3> QED
      BY <2>o, <3>1, <3>4, <3>5
  <2>7. ASSUME NEW h \in handlers, HandlerReads(h) PROVE CourseInv'
    <3>1. /\ UNCHANGED <<record, task, os, ours, timers>>
          /\ handlers' = (handlers \ {h}) \union
                (IF record.state = "none" THEN {} ELSE {[h EXCEPT !.read = TRUE, !.copy = record]})
      BY <2>7 DEF HandlerReads
    <3>2. [h EXCEPT !.read = TRUE, !.copy = record].copy = record
      BY <2>i DEF Handlers
    <3>3. \A g \in handlers' : g.read => g.copy.state # "none"
      BY <2>c, <3>1, <3>2
    <3> QED
      BY <2>o, <3>1, <3>3
  <2>8. ASSUME NEW h \in handlers, HandlerPersists(h) PROVE CourseInv'
    <3>1. /\ UNCHANGED <<task, os, ours, timers>> /\ handlers' \subseteq handlers /\ record' = InState(h.copy, h.state)
      BY <2>8 DEF HandlerPersists
    <3>2. h.state \in States \ {"none"}
      BY <2>i, <2>z DEF Handlers
    <3>3. record'.state # "none"
      BY <2>s, <2>t, <3>1, <3>2
    <3> QED
      BY <2>c, <2>o, <3>1, <3>3
  <2>9. ASSUME NEW after \in Purposes, StopJob(after) PROVE CourseInv'
    <3>1. /\ UNCHANGED <<record, handlers>> /\ record.state # "none"
          /\ \E where \in {"stopped", "stopping"} : task' = Task(where, record, after)
      BY <2>9 DEF StopJob
    <3>2. task'.at \in {"stopped", "stopping"} /\ task'.copy = record
      BY <3>1 DEF Task
    <3> QED
      BY <2>a, <3>1, <3>2
  <2>10. CASE StopSignals
    <3>0. task.at = "stopping" /\ UNCHANGED <<os, ours, handlers>>
      BY <2>10 DEF StopSignals
    <3>1. CASE Live(task.copy.pid) = Nobody /\ task' = [task EXCEPT !.at = "killed"] /\ UNCHANGED <<record, timers>>
      <4>1. Over(task.copy.start)
        <5> SUFFICES ASSUME NEW pid \in Pids, os[pid] = task.copy.start, task.copy.start \in ours PROVE FALSE
          BY DEF Over
        <5>1. os[pid] # Nobody
          BY DEF PlaceInv, Nobody
        <5>2. pid = task.copy.pid
          BY <5>1 DEF PlaceInv, Placed, Locates
        <5>3. pid # NoPid
          BY JobsAssumption DEF NoPid
        <5> QED
          BY <3>1, <5>1, <5>2, <5>3 DEF Live, At
      <4>2. Over(task.copy.start)'
        BY <2>e, <3>0, <3>1, <4>1 DEF Over
      <4> QED
        BY <2>a, <2>c, <2>e, <3>0, <3>1, <4>2
    <3>2. CASE record' = InState(task.copy, "adoption_required") /\ task' = [task EXCEPT !.at = "stopped"]
      <4>1. record'.state # "none"
        BY <2>s, <2>t, <2>z, <3>2
      <4> QED
        BY <2>a, <2>c, <2>e, <3>0, <3>2, <4>1
    <3>3. CASE /\ Live(task.copy.pid) # Nobody /\ Matches(task.copy) /\ timers' = timers \union {task.copy.pid}
               /\ task' = [task EXCEPT !.at = "waiting"] /\ UNCHANGED record
      <4>1. \A pid \in Pids : os[pid] = task.copy.start => pid = task.copy.pid
        BY <3>3 DEF PlaceInv, Placed, Locates, Matches
      <4>2. Over(task.copy.start)'
        BY <2>e, <3>0, <3>3, <4>1 DEF Over
      <4> QED
        BY <2>a, <2>c, <2>e, <3>0, <3>3, <4>2
    <3> QED
      BY <2>10, <3>1, <3>2, <3>3 DEF StopSignals, PersistRecord
  <2>11. CASE StopWaitEnds
    <3>1. task.at = "waiting" /\ task' = [task EXCEPT !.at = "killed"] /\ UNCHANGED <<record, handlers, os, ours, timers>>
      BY <2>11 DEF StopWaitEnds
    <3>2. Over(task.copy.start)'
      BY <2>c, <2>e, <3>1 DEF Over
    <3> QED
      BY <2>a, <2>c, <2>e, <3>1, <3>2
  <2>12. CASE PersistStopped
    <3>1. /\ task.at = "killed" /\ task' = [task EXCEPT !.at = "stopped"] /\ UNCHANGED handlers
          /\ record' = InState(task.copy, "stopped")
      BY <2>12 DEF PersistStopped, PersistRecord
    <3>2. record'.state # "none"
      BY <2>s, <2>t, <2>z, <3>1
    <3> QED
      BY <2>a, <2>c, <2>e, <3>1, <3>2
  <2>13. CASE StopEnds \/ RegistryDies \/ StatusEnds \/ RefuseAdoption \/ AdoptAccepts
    BY <2>13, <2>d DEF StopEnds, RegistryDies, StatusEnds, RefuseAdoption, AdoptAccepts
  <2>14. CASE Status \/ Adopt \/ AdoptRefuses
    <3>1. UNCHANGED <<record, handlers>>
      BY <2>14 DEF Status, Adopt, AdoptRefuses
    <3>2. \/ task' = NoTask
          \/ record.state # "none" /\ \E where \in {"inspecting", "adopting", "refusing"} : task' = Task(where, record, "idle")
      BY <2>14 DEF Status, Adopt, AdoptRefuses
    <3>3. CASE task' = NoTask
      BY <2>d, <3>1, <3>3
    <3>4. ASSUME record.state # "none", NEW where \in {"inspecting", "adopting", "refusing"}, task' = Task(where, record, "idle")
          PROVE  CourseInv'
      <4>1. task'.at = where /\ task'.copy = record
        BY <3>4 DEF Task
      <4> QED
        BY <2>a, <3>1, <3>4, <4>1
    <3> QED
      BY <3>2, <3>3, <3>4
  <2>15. ASSUME NEW pid \in Pids, StrangerStarts(pid) PROVE CourseInv'
    <3>1. /\ UNCHANGED <<record, task, handlers, ours, timers>> /\ os' = [os EXCEPT ![pid] = starts + 1]
      BY <2>15 DEF StrangerStarts, jobHistory
    <3>2. starts + 1 \notin ours
      BY <2>i DEF PlaceInv
    <3>3. \A q \in Pids : os'[q] \in ours => os'[q] = os[q]
      BY <2>i, <3>1, <3>2
    <3> QED
      BY <2>c, <2>o, <3>1, <3>3
  <2>16. CASE UNCHANGED jobVars
    BY <2>16, <2>c, <2>o DEF jobVars
  <2>17. Purposes = {"idle", "restart", "remove", "shutdown"}
    BY DEF Purposes
  <2> QED
    BY <2>1, <2>2, <2>3, <2>4, <2>5, <2>6, <2>7, <2>8, <2>9, <2>10, <2>11, <2>12, <2>13, <2>14, <2>15, <2>16, <2>17
       DEF JobsNext, StartJob, Restarts
<1> QED
  BY <1>1, <1>2, RecordsNameKnown, JobsPlaced, PTL DEF JobsSpec

\* start, stop, restart, remove, adopt and the timer that kills: while no newer record was
\* overwritten, no process of the job drops out of sight.
LEMMA JobsHeld ==
    ASSUME RequireIsDefined
    PROVE  JobsSpec => []HoldInv
<1>1. JobsInit => HoldInv
  BY DEF JobsInit, HoldInv, NoTask, Task
<1>2. JobInv /\ PlaceInv /\ CourseInv /\ HoldInv /\ [JobsNext]_jobVars => HoldInv'
  <2> SUFFICES ASSUME JobInv, PlaceInv, CourseInv, HoldInv, [JobsNext]_jobVars, ~lost', ~forgotten'
               PROVE  HoldInv'
    BY DEF HoldInv
  <2>i. /\ record \in Records(Known) /\ task \in Tasks(Known) /\ handlers \subseteq Handlers(Known)
        /\ starts \in Nat /\ os \in [Pids -> Nat]
    BY DEF JobInv
  <2>l. ~lost /\ ~forgotten
    <3>1. ~lost
      BY DEF JobsNext, Register, StartJob, Restarts, Spawn, SpawnFails, PersistRunning, PersistRecord, Track, PersistLineage,
             HandlerReads, HandlerPersists, StopJob, StopSignals, StopWaitEnds, PersistStopped, StopEnds, Status, StatusEnds,
             Adopt, AdoptAccepts, AdoptRefuses, RefuseAdoption, ProcessExits, SigKill, StrangerStarts, RegistryDies,
             jobVars, jobHistory
    <3>2. ~forgotten
      BY DEF JobsNext, Register, StartJob, Restarts, Spawn, SpawnFails, PersistRunning, PersistRecord, Track, PersistLineage,
             HandlerReads, HandlerPersists, StopJob, StopSignals, StopWaitEnds, PersistStopped, StopEnds, Status, StatusEnds,
             Adopt, AdoptAccepts, AdoptRefuses, RefuseAdoption, ProcessExits, SigKill, StrangerStarts, RegistryDies,
             jobVars, jobHistory
    <3> QED
      BY <3>1, <3>2
  <2>h. /\ \A pid \in Pids : os[pid] \in ours =>
              \/ record.start = os[pid] /\ record.state \notin Terminal
              \/ pid \in timers
              \/ task.at = "spawned" /\ task.start = os[pid]
        /\ task.at = "stopped" => \A start \in ours : Over(start)
    BY <2>l DEF HoldInv
  <2>e. \A place : [task EXCEPT !.at = place].at = place /\ [task EXCEPT !.at = place].start = task.start
    BY <2>i DEF Tasks
  <2>n. NoTask.at = "idle"
    BY DEF NoTask, Task
  <2>t. /\ task.copy \in Records(Known) /\ \A h \in handlers : h.copy \in Records(Known)
        /\ \A copy \in Records(Known) : \A state : InState(copy, state).state = state /\ InState(copy, state).start = copy.start
    BY <2>i DEF Tasks, Handlers, Records, InState
  <2>m. Nobody \notin ours /\ Nobody = 0 /\ starts + 1 \notin ours
    BY <2>i DEF PlaceInv, Nobody
  \* The record names the same process, and the call neither spawned one nor stopped the job.
  <2>a. ASSUME UNCHANGED <<os, ours>>, timers \subseteq timers', record'.start = record.start,
               record.state \notin Terminal => record'.state \notin Terminal,
               task.at = "spawned" => task' = task,
               task'.at = "stopped" => \A start \in ours : Over(start)
        PROVE  HoldInv'
    BY <2>a, <2>h DEF HoldInv, Over
  \* The process of the record is over.
  <2>b. ASSUME UNCHANGED <<os, ours, timers>>, Over(record.start), task.at # "spawned" \/ task' = task,
               task'.at # "spawned" \/ task' = task
        PROVE  HoldInv'
    <3>1. \A pid \in Pids : os[pid] \in ours => pid \in timers \/ (task.at = "spawned" /\ task.start = os[pid])
      BY <2>b, <2>h DEF Over
    <3>2. task.at # "spawned" => \A start \in ours : Over(start)
      BY <3>1 DEF Over
    <3> QED
      BY <2>b, <2>h, <3>1, <3>2 DEF HoldInv, Over
  \* A process ends or a stranger starts.
  <2>o. ASSUME UNCHANGED <<task, record, ours>>,
               \A pid \in Pids : os'[pid] \in ours => os'[pid] = os[pid] /\ (pid \in timers => pid \in timers')
        PROVE  HoldInv'
    <3>1. \A pid \in Pids : os'[pid] \in ours =>
              \/ record.start = os'[pid] /\ record.state \notin Terminal
              \/ pid \in timers'
              \/ task.at = "spawned" /\ task.start = os'[pid]
      BY <2>h, <2>o
    <3>2. task.at = "stopped" => \A start \in ours : \A pid \in Pids : os'[pid] = start => pid \in timers'
      BY <2>h, <2>o DEF Over
    <3> QED
      BY <2>o, <3>1, <3>2 DEF HoldInv, Over
  <2>1. ASSUME NEW after \in Purposes, Register(after), task.at = "stopped" \/ starts = 0 PROVE HoldInv'
    <3>1. /\ UNCHANGED <<os, ours, timers>> /\ task' = Task("registered", record', after)
      BY <2>1 DEF Register
    <3>2. task'.at = "registered"
      BY <3>1 DEF Task
    <3>3. \A pid \in Pids : os[pid] \in ours => pid \in timers
      <4>1. CASE task.at = "stopped"
        BY <2>h, <4>1 DEF Over
      <4>2. CASE starts = 0
        BY <2>i, <2>m, <4>2 DEF PlaceInv
      <4> QED
        BY <2>1, <4>1, <4>2
    <3> QED
      BY <3>1, <3>2, <3>3 DEF HoldInv
  <2>2. CASE Spawn
    <3>1. PICK pid \in Pids :
            /\ os' = [os EXCEPT ![pid] = starts + 1] /\ ours' = ours \union {starts + 1} /\ UNCHANGED <<record, timers>>
            /\ task' = [task EXCEPT !.at = "spawned", !.pid = pid, !.start = starts + 1]
      BY <2>2 DEF Spawn, jobHistory
    <3>2. task.at = "registered"
      BY <2>2 DEF Spawn
    <3>3. task'.at = "spawned" /\ task'.start = starts + 1
      BY <2>i, <3>1 DEF Tasks
    <3>4. \A q \in Pids : os'[q] = IF q = pid THEN starts + 1 ELSE os[q]
      BY <2>i, <3>1
    <3>5. \A q \in Pids : os[q] \in 0 .. starts
      BY DEF PlaceInv
    <3>6. \A q \in Pids : os'[q] \in ours' =>
              \/ record'.start = os'[q] /\ record'.state \notin Terminal
              \/ q \in timers'
              \/ task'.at = "spawned" /\ task'.start = os'[q]
      <4> SUFFICES ASSUME NEW q \in Pids, os'[q] \in ours', q # pid
                   PROVE  (record.start = os[q] /\ record.state \notin Terminal) \/ q \in timers
        BY <3>1, <3>3, <3>4
      <4>1. os[q] \in ours
        BY <2>i, <3>1, <3>4, <3>5
      <4> QED
        BY <2>h, <3>2, <4>1
    <3> QED
      BY <3>3, <3>6 DEF HoldInv
  <2>3. CASE SpawnFails
    <3>1. /\ UNCHANGED <<os, ours, record, timers>> /\ task.at = "registered" /\ task' = [task EXCEPT !.at = "spawned"]
      BY <2>3 DEF SpawnFails, jobHistory
    <3> QED
      BY <2>a, <2>e, <3>1
  <2>4. CASE PersistRunning
    <3>1. /\ UNCHANGED <<os, ours, timers>> /\ task.at = "spawned" /\ record' = JobRecord("running", task.pid, task.start)
          /\ task' = [task EXCEPT !.at = "started", !.copy = record'] /\ task.copy = record
      BY <2>4 DEF PersistRunning, PersistRecord
    <3>2. record.start = Nobody
      BY <3>1 DEF CourseInv, InState, NoRecord, JobRecord
    <3>3. record'.start = task.start /\ record'.state = "running" /\ task'.at = "started"
      BY <2>i, <3>1 DEF JobRecord, Tasks
    <3>4. "running" \notin Terminal
      BY DEF Terminal
    <3> QED
      BY <2>h, <2>m, <3>1, <3>2, <3>3, <3>4 DEF HoldInv
  <2>5. CASE Track \/ PersistLineage
    <3>1. UNCHANGED <<os, ours, timers>> /\ task.at \in {"started", "restarted"}
          /\ task' \in {NoTask, [task EXCEPT !.at = "restarted"]} /\ record' = record
      BY <2>5 DEF Track, PersistLineage, PersistRecord, jobHistory
    <3> QED
      BY <2>a, <2>e, <2>n, <3>1
  <2>6. ASSUME NEW pid \in Pids, ProcessExits(pid) \/ SigKill(pid) PROVE HoldInv'
    <3>1. /\ UNCHANGED <<record, task, ours>>
          /\ \/ UNCHANGED os /\ timers' = timers
             \/ UNCHANGED os /\ timers' = timers \ {pid} /\ os[pid] \notin ours
             \/ os' = [os EXCEPT ![pid] = Nobody] /\ timers' \in {timers, timers \ {pid}}
      BY <2>6 DEF ProcessExits, SigKill
    <3>2. \A q \in Pids : os'[q] \in ours => os'[q] = os[q] /\ (q \in timers => q \in timers')
      BY <2>i, <2>m, <3>1
    <3> QED
      BY <2>o, <3>1, <3>2
  <2>7. ASSUME NEW h \in handlers, HandlerReads(h) PROVE HoldInv'
    BY <2>7, <2>h, <2>o DEF HandlerReads
  <2>8. ASSUME NEW h \in handlers, HandlerPersists(h) PROVE HoldInv'
    <3>1. UNCHANGED <<task, os, ours, timers>> /\ h.copy = record /\ h.copy.start = h.start
      BY <2>8 DEF HandlerPersists
    <3>2. Over(record.start)
      BY <2>m, <3>1 DEF PlaceInv, HandlerPlaced, Over
    <3> QED
      BY <2>b, <3>1, <3>2
  <2>9. ASSUME NEW after \in Purposes, StopJob(after) PROVE HoldInv'
    <3>1. /\ UNCHANGED <<record, os, ours, timers>> /\ task = NoTask
          /\ task' = Task(IF record.state \in Terminal THEN "stopped" ELSE "stopping", record, after)
      BY <2>9 DEF StopJob, jobHistory
    <3>2. task'.at = IF record.state \in Terminal THEN "stopped" ELSE "stopping"
      BY <3>1 DEF Task
    <3>3. record.state \in Terminal => \A start \in ours : Over(start)
      BY <2>h, <2>n, <3>1 DEF Over
    <3> QED
      BY <2>a, <2>n, <3>1, <3>2, <3>3
  <2>10. CASE StopSignals
    <3>0. task.at = "stopping" /\ UNCHANGED <<os, ours>>
      BY <2>10 DEF StopSignals
    <3>1. CASE /\ UNCHANGED record /\ timers \subseteq timers'
               /\ \E where \in {"killed", "waiting"} : task' = [task EXCEPT !.at = where]
      BY <2>a, <2>e, <3>0, <3>1
    <3>2. CASE /\ Live(task.copy.pid) # Nobody /\ ~Matches(task.copy) /\ task.copy = record
               /\ record' = InState(task.copy, "adoption_required") /\ task' = [task EXCEPT !.at = "stopped"]
               /\ UNCHANGED timers
      <4>1. Over(record.start)
        <5> SUFFICES ASSUME NEW q \in Pids, os[q] = record.start, os[q] \in ours PROVE FALSE
          BY DEF Over
        <5>1. q = record.pid
          BY <2>m DEF PlaceInv, Placed, Locates
        <5>2. q # NoPid
          BY JobsAssumption DEF NoPid
        <5> QED
          BY <3>2, <5>1, <5>2 DEF Matches, Live, At
      <4> QED
        BY <2>b, <2>e, <3>0, <3>2, <4>1
    <3> QED
      BY <2>10, <3>1, <3>2 DEF StopSignals, PersistRecord
  <2>11. CASE StopWaitEnds
    <3>1. task.at = "waiting" /\ task' = [task EXCEPT !.at = "killed"] /\ UNCHANGED <<record, os, ours, timers>>
      BY <2>11 DEF StopWaitEnds, jobHistory
    <3> QED
      BY <2>a, <2>e, <3>1
  <2>12. CASE PersistStopped
    <3>1. /\ task.at = "killed" /\ task' = [task EXCEPT !.at = "stopped"] /\ UNCHANGED <<os, ours, timers>>
          /\ task.copy = record
      BY <2>12 DEF PersistStopped, PersistRecord
    <3>2. Over(record.start)
      BY <3>1 DEF CourseInv
    <3> QED
      BY <2>b, <2>e, <3>1, <3>2
  <2>13. CASE StopEnds
    <3>1. /\ UNCHANGED <<os, ours, timers>> /\ task.at = "stopped" /\ task' = NoTask
      BY <2>13 DEF StopEnds, jobHistory
    <3> QED
      BY <2>h, <2>n, <3>1 DEF HoldInv, Over
  <2>14. CASE Status \/ Adopt \/ AdoptRefuses
    <3>1. UNCHANGED <<record, os, ours, timers>> /\ task.at \in {"idle", "adopting"}
      BY <2>14, <2>n DEF Status, Adopt, AdoptRefuses, jobHistory
    <3>2. task'.at \in {"idle", "inspecting", "adopting", "refusing"}
      BY <2>14, <2>n DEF Status, Adopt, AdoptRefuses, Task
    <3> QED
      BY <2>a, <3>1, <3>2
  <2>15. CASE StatusEnds \/ RefuseAdoption
    <3>1. /\ UNCHANGED <<os, ours, timers>> /\ task.at \in {"inspecting", "refusing"} /\ task' = NoTask
          /\ record' = record \/ record' = InState(record, "adoption_required")
      BY <2>15 DEF StatusEnds, RefuseAdoption, PersistRecord, jobHistory
    <3>2. "adoption_required" \notin Terminal
      BY DEF Terminal
    <3>3. record'.start = record.start /\ (record.state \notin Terminal => record'.state \notin Terminal)
      BY <2>i, <2>t, <3>1, <3>2
    <3> QED
      BY <2>a, <2>n, <3>1, <3>3
  <2>16. CASE AdoptAccepts
    <3> DEFINE live == Live(task.copy.pid)
    <3>1. /\ UNCHANGED <<os, ours, timers>> /\ task.at = "adopting" /\ task' = NoTask /\ task.copy = record
          /\ record' = JobRecord("running", task.copy.pid, live)
      BY <2>16 DEF AdoptAccepts, PersistRecord
    <3>2. record'.start = live /\ record'.state = "running" /\ "running" \notin Terminal
      BY <3>1 DEF JobRecord, Terminal
    <3>3. \A q \in Pids : os[q] \in ours /\ record.start = os[q] => live = os[q]
      <4> SUFFICES ASSUME NEW q \in Pids, os[q] = record.start, os[q] \in ours PROVE live = os[q]
        OBVIOUS
      <4>1. q = record.pid
        BY <2>m DEF PlaceInv, Placed, Locates
      <4>2. q # NoPid
        BY JobsAssumption DEF NoPid
      <4> QED
        BY <3>1, <4>1, <4>2 DEF Live, At
    <3> QED
      BY <2>h, <2>n, <3>1, <3>2, <3>3 DEF HoldInv
  <2>17. ASSUME NEW pid \in Pids, StrangerStarts(pid) PROVE HoldInv'
    <3>1. /\ UNCHANGED <<record, task, ours, timers>> /\ os' = [os EXCEPT ![pid] = starts + 1]
      BY <2>17 DEF StrangerStarts, jobHistory
    <3>2. \A q \in Pids : os'[q] \in ours => os'[q] = os[q]
      BY <2>i, <2>m, <3>1
    <3> QED
      BY <2>o, <3>1, <3>2
  <2>18. CASE RegistryDies
    <3>1. /\ UNCHANGED <<os, ours, record>> /\ task' = NoTask /\ timers' = {} /\ timers = {} /\ task.at # "spawned"
      BY <2>18 DEF RegistryDies
    <3> QED
      BY <2>a, <2>n, <3>1
  <2>19. CASE UNCHANGED jobVars
    BY <2>19, <2>a, <2>h DEF jobVars
  <2>20. Purposes = {"idle", "restart", "remove", "shutdown"}
    BY DEF Purposes
  <2> QED
    BY <2>1, <2>2, <2>3, <2>4, <2>5, <2>6, <2>7, <2>8, <2>9, <2>10, <2>11, <2>12, <2>13, <2>14, <2>15, <2>16, <2>17, <2>18,
       <2>19, <2>20 DEF JobsNext, StartJob, Restarts
<1> QED
  BY <1>1, <1>2, RecordsNameKnown, JobsPlaced, CallsTakeTheirCourse, PTL DEF JobsSpec

\* onExit and onError: an exit is in the record, or a handler has still to write it.
LEMMA ExitsReported ==
    ASSUME RequireIsDefined
    PROVE  JobsSpec => []ReportInv
<1>1. JobsInit => ReportInv
  BY DEF JobsInit, ReportInv, NoTask, Task, NoRecord, JobRecord
<1>2. JobInv /\ PlaceInv /\ CourseInv /\ ReportInv /\ [JobsNext]_jobVars => ReportInv'
  <2> SUFFICES ASSUME JobInv, PlaceInv, CourseInv, ReportInv, [JobsNext]_jobVars, ~lost'
               PROVE  ReportInv'
    BY DEF ReportInv
  <2>i. /\ record \in Records(Known) /\ task \in Tasks(Known) /\ handlers \subseteq Handlers(Known)
        /\ starts \in Nat /\ os \in [Pids -> Nat]
    BY DEF JobInv
  <2>l. ~lost
    BY DEF JobsNext, Register, StartJob, Restarts, Spawn, SpawnFails, PersistRunning, PersistRecord, Track, PersistLineage,
           HandlerReads, HandlerPersists, StopJob, StopSignals, StopWaitEnds, PersistStopped, StopEnds, Status, StatusEnds,
           Adopt, AdoptAccepts, AdoptRefuses, RefuseAdoption, ProcessExits, SigKill, StrangerStarts, RegistryDies,
           jobVars, jobHistory
  <2>r. /\ record.state = "running" => Reported(record.start, record.pid)
        /\ task.at = "spawned" => Reported(task.start, task.pid)
        /\ task.at = "registered" => task.start = Nobody
        /\ task.at \in {"registered", "spawned"} => record.start = Nobody
    BY <2>l DEF ReportInv
  <2>e. \A place : [task EXCEPT !.at = place].at = place /\ [task EXCEPT !.at = place].start = task.start /\ [task EXCEPT !.at = place].pid = task.pid
    BY <2>i DEF Tasks
  <2>n. NoTask.at = "idle"
    BY DEF NoTask, Task
  <2>t. /\ task.copy \in Records(Known) /\ \A h \in handlers : h.copy \in Records(Known)
        /\ \A copy \in Records(Known) : \A state : InState(copy, state).state = state
    BY <2>i DEF Tasks, Handlers, Records, InState
  <2>m. Nobody \notin watched /\ Nobody = 0 /\ starts + 1 \notin watched
    BY <2>i DEF PlaceInv, Nobody
  \* A write that changes neither the process nor its handlers, or calls nothing running.
  <2>a. ASSUME UNCHANGED os, watched' \subseteq watched,
               watched' = {} \/ \A h \in handlers : \E g \in handlers' : g.start = h.start,
               record' = record \/ record'.state # "running",
               task'.at = "registered" => task'.start = Nobody,
               task'.at \in {"registered", "spawned"} => record'.start = Nobody,
               task'.at = "spawned" => task.at = "spawned" /\ task'.start = task.start /\ task'.pid = task.pid
        PROVE  ReportInv'
    <3>1. \A start, pid : Reported(start, pid) => Reported(start, pid)'
      BY <2>a DEF Reported, At
    <3>2. record'.state = "running" => Reported(record.start, record.pid)' /\ record' = record
      BY <2>a, <2>r, <3>1
    <3>3. task'.at = "spawned" => Reported(task.start, task.pid)' /\ task'.start = task.start /\ task'.pid = task.pid
      BY <2>a, <2>r, <3>1
    <3> QED
      BY <2>a, <3>2, <3>3 DEF ReportInv, Reported
  <2>s. \A state \in {"starting", "stopped", "adoption_required", "exited", "failed", "none"} : state # "running"
    OBVIOUS
  <2>1. ASSUME NEW after \in Purposes, Register(after) PROVE ReportInv'
    <3>1. /\ UNCHANGED <<os, watched, handlers>> /\ record' = InState(NoRecord, "starting")
          /\ task' = Task("registered", record', after)
      BY <2>1 DEF Register
    <3>2. record'.state = "starting" /\ task'.at = "registered" /\ task'.start = Nobody /\ record'.start = Nobody
      BY <3>1 DEF Task, InState, NoRecord, JobRecord
    <3> QED
      BY <2>a, <3>1, <3>2
  <2>2. CASE Spawn
    <3>1. PICK pid \in Pids :
            /\ os[pid] = Nobody /\ os' = [os EXCEPT ![pid] = starts + 1] /\ watched' = watched \union {starts + 1}
            /\ UNCHANGED <<record, handlers>> /\ task.at = "registered"
            /\ task' = [task EXCEPT !.at = "spawned", !.pid = pid, !.start = starts + 1]
      BY <2>2 DEF Spawn
    <3>2. task'.pid = pid /\ task'.start = starts + 1 /\ task'.at = "spawned"
      BY <2>i, <3>1 DEF Tasks
    <3>3. \A q \in Pids : os'[q] = IF q = pid THEN starts + 1 ELSE os[q]
      BY <2>i, <3>1
    <3>4. pid # NoPid
      BY JobsAssumption DEF NoPid
    <3>5. Reported(task.start, task.pid)'
      BY <3>2, <3>3, <3>4 DEF Reported, At
    <3>6. record.start # starts + 1 /\ record.pid \in Pids \cup {NoPid}
      BY <2>i DEF PlaceInv, Placed, Records
    <3>7. record.state = "running" => Reported(record.start, record.pid)'
      <4> SUFFICES ASSUME record.state = "running", record.start \in watched
                   PROVE  At(record.pid)' = record.start \/ \E h \in handlers' : h.start = record.start
        BY <3>1, <3>6 DEF Reported
      <4>1. At(record.pid) = record.start \/ \E h \in handlers : h.start = record.start
        BY <2>r DEF Reported
      <4>2. At(record.pid) = record.start => At(record.pid)' = record.start
        BY <2>m, <3>1, <3>3, <3>6 DEF At
      <4> QED
        BY <3>1, <4>1, <4>2
    <3> QED
      BY <2>r, <3>1, <3>2, <3>5, <3>7 DEF ReportInv, Reported
  <2>3. CASE SpawnFails
    <3>1. UNCHANGED <<os, watched, record>> /\ handlers \subseteq handlers' /\ task.at = "registered"
          /\ task' = [task EXCEPT !.at = "spawned"]
      BY <2>3 DEF SpawnFails
    <3>2. record.state = "running" => Reported(record.start, record.pid)'
      BY <2>r, <3>1 DEF Reported, At
    <3>3. task'.at = "spawned" /\ ~Reported(task.start, task.pid)' => FALSE
      BY <2>e, <2>m, <2>r, <3>1 DEF Reported
    <3>4. task'.at = "spawned"
      BY <2>e, <3>1
    <3> QED
      BY <2>r, <3>1, <3>2, <3>3, <3>4 DEF ReportInv, Reported
  <2>4. CASE PersistRunning
    <3>1. /\ UNCHANGED <<os, watched, handlers>> /\ task.at = "spawned" /\ record' = JobRecord("running", task.pid, task.start)
          /\ task' = [task EXCEPT !.at = "started", !.copy = record']
      BY <2>4 DEF PersistRunning, PersistRecord
    <3>2. record'.start = task.start /\ record'.pid = task.pid /\ task'.at = "started"
      BY <2>i, <3>1 DEF JobRecord, Tasks
    <3>3. Reported(task.start, task.pid)
      BY <2>r, <3>1
    <3>4. Reported(record.start, record.pid)'
      BY <3>1, <3>2, <3>3 DEF Reported, At
    <3> QED
      BY <3>2, <3>4 DEF ReportInv
  <2>5. CASE Track \/ PersistLineage
    <3>1. UNCHANGED <<os, watched, handlers>> /\ task.at \in {"started", "restarted"}
          /\ task' \in {NoTask, [task EXCEPT !.at = "restarted"]} /\ record' = record
      BY <2>5 DEF Track, PersistLineage, PersistRecord, jobHistory
    <3> QED
      BY <2>a, <2>e, <2>n, <3>1
  <2>6. ASSUME NEW pid \in Pids, ProcessExits(pid) \/ SigKill(pid) PROVE ReportInv'
    <3>1. UNCHANGED <<record, task, watched>> /\ handlers \subseteq handlers'
      BY <2>6 DEF ProcessExits, SigKill, jobHistory
    <3>2. UNCHANGED os \/ (os' = [os EXCEPT ![pid] = Nobody] /\ (os[pid] \in watched => \E h \in handlers' : h.start = os[pid]))
      <4>1. \A state : Handler(os[pid], state).start = os[pid]
        BY DEF Handler
      <4>2. CASE ProcessExits(pid)
        BY <4>1, <4>2 DEF ProcessExits
      <4>3. CASE SigKill(pid)
        BY <4>1, <4>3 DEF SigKill
      <4> QED
        BY <2>6, <4>2, <4>3
    <3>3. ASSUME NEW start, NEW where \in Pids \cup {NoPid}, Reported(start, where) PROVE Reported(start, where)'
      <4> SUFFICES ASSUME start \in watched, At(where) = start, where # NoPid
                   PROVE  At(where)' = start \/ \E h \in handlers' : h.start = start
        BY <2>m, <3>1, <3>3 DEF Reported, At
      <4>1. where \in Pids /\ os[where] = start
        BY DEF At
      <4>2. os'[where] = start \/ \E h \in handlers' : h.start = start
        BY <2>i, <3>2, <4>1
      <4> QED
        BY <4>2 DEF At
    <3>4. record.pid \in Pids \cup {NoPid} /\ task.pid \in Pids \cup {NoPid}
      BY <2>i DEF Records, Tasks
    <3>5. /\ record.state = "running" => Reported(record.start, record.pid)'
          /\ task.at = "spawned" => Reported(task.start, task.pid)'
      BY <2>r, <3>1, <3>3, <3>4 DEF Reported
    <3> QED
      BY <2>r, <3>1, <3>5 DEF ReportInv, Reported
  <2>7. ASSUME NEW h \in handlers, HandlerReads(h) PROVE ReportInv'
    <3>1. /\ UNCHANGED <<os, record, task, watched>>
          /\ handlers' = (handlers \ {h}) \union
                (IF record.state = "none" THEN {} ELSE {[h EXCEPT !.read = TRUE, !.copy = record]})
      BY <2>7 DEF HandlerReads
    <3>2. CASE record.state = "none"
      <4>1. task.at = "idle"
        BY <3>2 DEF CourseInv
      <4> QED
        BY <3>1, <3>2, <4>1 DEF ReportInv
    <3>3. CASE record.state # "none"
      <4>1. [h EXCEPT !.read = TRUE, !.copy = record].start = h.start
        BY <2>i DEF Handlers
      <4>2. \A g \in handlers : \E k \in handlers' : k.start = g.start
        BY <3>1, <3>3, <4>1
      <4> QED
        BY <2>a, <2>r, <3>1, <4>2
    <3> QED
      BY <3>2, <3>3
  <2>8. ASSUME NEW h \in handlers, HandlerPersists(h) PROVE ReportInv'
    <3>1. /\ UNCHANGED <<task, os, watched>> /\ handlers' = handlers \ {h} /\ record' = InState(h.copy, h.state)
          /\ h.copy = record /\ h.copy.start = h.start
      BY <2>8 DEF HandlerPersists
    <3>2. h.state \in {"exited", "failed"}
      BY <2>i DEF Handlers
    <3>3. record'.state # "running"
      BY <2>t, <3>1, <3>2
    <3>4. task.at = "spawned" => Reported(task.start, task.pid)'
      <4> SUFFICES ASSUME task.at = "spawned" PROVE Reported(task.start, task.pid)'
        OBVIOUS
      <4>1. task.start \notin watched \/ h.start # task.start
        BY <2>m, <2>r, <3>1
      <4>2. CASE task.start \notin watched
        BY <3>1, <4>2 DEF Reported
      <4>3. CASE h.start # task.start
        BY <2>r, <3>1, <4>3 DEF Reported, At
      <4> QED
        BY <4>1, <4>2, <4>3
    <3>5. record'.start = record.start
      BY <3>1, <2>i DEF InState, Records
    <3> QED
      BY <2>r, <3>1, <3>3, <3>4, <3>5 DEF ReportInv, Reported
  <2>9. ASSUME NEW after \in Purposes, StopJob(after) PROVE ReportInv'
    <3>1. UNCHANGED <<record, os, watched, handlers>> /\ \E where \in {"stopped", "stopping"} : task' = Task(where, record, after)
      BY <2>9 DEF StopJob, jobHistory
    <3>2. task'.at \in {"stopped", "stopping"}
      BY <3>1 DEF Task
    <3> QED
      BY <2>a, <3>1, <3>2
  <2>10. CASE StopSignals \/ StopWaitEnds \/ PersistStopped
    <3>1. UNCHANGED <<os, watched, handlers>>
      BY <2>10 DEF StopSignals, StopWaitEnds, PersistStopped, jobHistory
    <3>2. \E where \in {"killed", "waiting", "stopped"} : task' = [task EXCEPT !.at = where]
      BY <2>10 DEF StopSignals, StopWaitEnds, PersistStopped
    <3>3. record' = record \/ record' = InState(task.copy, "adoption_required") \/ record' = InState(task.copy, "stopped")
      BY <2>10 DEF StopSignals, StopWaitEnds, PersistStopped, PersistRecord, jobHistory
    <3>4. task'.at \in {"killed", "waiting", "stopped"}
      BY <2>e, <3>2
    <3>5. record' = record \/ record'.state # "running"
      BY <2>t, <3>3
    <3> QED
      BY <2>a, <3>1, <3>4, <3>5
  <2>11. CASE StopEnds \/ RegistryDies
    <3>1. /\ UNCHANGED os /\ task' = NoTask /\ record' \in {record, NoRecord} /\ watched' \subseteq watched
          /\ watched' = {} \/ handlers' = handlers
      BY <2>11 DEF StopEnds, RegistryDies, jobHistory
    <3>2. NoRecord.state # "running"
      BY DEF NoRecord, JobRecord
    <3> QED
      BY <2>a, <2>n, <3>1, <3>2
  <2>12. CASE Status \/ Adopt \/ AdoptRefuses
    <3>1. UNCHANGED <<record, os, watched, handlers>>
      BY <2>12 DEF Status, Adopt, AdoptRefuses, jobHistory
    <3>2. task'.at \in {"idle", "inspecting", "adopting", "refusing"}
      BY <2>12, <2>n DEF Status, Adopt, AdoptRefuses, Task
    <3> QED
      BY <2>a, <3>1, <3>2
  <2>13. CASE StatusEnds \/ RefuseAdoption
    <3>1. /\ UNCHANGED <<os, watched, handlers>> /\ task' = NoTask
          /\ record' = record \/ record' = InState(task.copy, "adoption_required")
      BY <2>13 DEF StatusEnds, RefuseAdoption, PersistRecord, jobHistory
    <3>2. record' = record \/ record'.state # "running"
      BY <2>t, <3>1
    <3> QED
      BY <2>a, <2>n, <3>1, <3>2
  <2>14. CASE AdoptAccepts
    <3> DEFINE live == Live(task.copy.pid)
    <3>1. /\ UNCHANGED <<os, watched, handlers>> /\ task' = NoTask
          /\ record' = JobRecord("running", task.copy.pid, live)
      BY <2>14 DEF AdoptAccepts, PersistRecord
    <3>2. record'.start = live /\ record'.pid = task.copy.pid
      BY <3>1 DEF JobRecord
    <3>3. At(record.pid)' = live
      BY <3>1, <3>2 DEF Live, At
    <3> QED
      BY <2>n, <3>1, <3>2, <3>3 DEF ReportInv, Reported
  <2>15. ASSUME NEW pid \in Pids, StrangerStarts(pid) PROVE ReportInv'
    <3>1. /\ UNCHANGED <<record, task, watched, handlers>> /\ os[pid] = Nobody /\ os' = [os EXCEPT ![pid] = starts + 1]
      BY <2>15 DEF StrangerStarts, jobHistory
    <3>2. ASSUME NEW start, NEW where \in Pids \cup {NoPid}, Reported(start, where) PROVE Reported(start, where)'
      <4> SUFFICES ASSUME start \in watched, At(where) = start, where # NoPid
                   PROVE  At(where)' = start \/ \E h \in handlers' : h.start = start
        BY <2>m, <3>1, <3>2 DEF Reported, At
      <4>1. where \in Pids /\ os[where] = start /\ where # pid
        BY <2>m, <3>1 DEF At
      <4>2. os'[where] = start
        BY <2>i, <3>1, <4>1
      <4> QED
        BY <4>2 DEF At
    <3>3. record.pid \in Pids \cup {NoPid} /\ task.pid \in Pids \cup {NoPid}
      BY <2>i DEF Records, Tasks
    <3>4. /\ record.state = "running" => Reported(record.start, record.pid)'
          /\ task.at = "spawned" => Reported(task.start, task.pid)'
      BY <2>r, <3>1, <3>2, <3>3 DEF Reported
    <3> QED
      BY <2>r, <3>1, <3>4 DEF ReportInv, Reported
  <2>16. CASE UNCHANGED jobVars
    BY <2>16, <2>a, <2>r DEF jobVars
  <2>17. Purposes = {"idle", "restart", "remove", "shutdown"}
    BY DEF Purposes
  <2> QED
    BY <2>1, <2>2, <2>3, <2>4, <2>5, <2>6, <2>7, <2>8, <2>9, <2>10, <2>11, <2>12, <2>13, <2>14, <2>15, <2>16, <2>17
       DEF JobsNext, StartJob, Restarts
<1> QED
  BY <1>1, <1>2, RecordsNameKnown, JobsPlaced, CallsTakeTheirCourse, PTL DEF JobsSpec

\* With the module loader's require, as in the compiled program: whatever the order of
\* calls, exits, timers and crashes of the registry, a process of the job that lives is
\* held by its record or gets SIGKILL, and a record that says running is true, unless an
\* older record replaced a newer one or the registry died in the middle of a call.
THEOREM JobsAreAccountedFor ==
    ASSUME RequireIsDefined
    PROVE  JobsSpec => []JobIsAccountedFor
<1>1. HoldInv => NoProcessLeaks
  BY DEF HoldInv, NoProcessLeaks
<1>2. ReportInv => ExitIsRecorded
  BY DEF ReportInv, ExitIsRecorded, Reported
<1>3. NoProcessLeaks /\ ExitIsRecorded => JobIsAccountedFor
  BY DEF JobIsAccountedFor
<1> QED
  BY <1>1, <1>2, <1>3, JobsHeld, ExitsReported, PTL

-----------------------------------------------------------------------------
(* LanguageServers: types                                                  *)

ServerStates == {"none", "running", "degraded", "crash_loop", "stopped"}
ManagedServers == [state : ServerStates, restartCount : Nat, lastError : {"none", "clean", "crash"}]

\* An update of one field of a ManagedServer leaves a map of ManagedServers.
LEMMA SetsState ==
    ASSUME NEW objects \in [Numbers -> ManagedServers], NEW n \in Numbers, NEW state \in ServerStates
    PROVE  [objects EXCEPT ![n].state = state] \in [Numbers -> ManagedServers]
<1>1. [objects[n] EXCEPT !.state = state] \in ManagedServers
  BY DEF ManagedServers
<1> QED
  BY <1>1

\* The type invariant.
LspTypeOK ==
    /\ proc \in [Numbers -> {"none", "alive", "answered", "exiting", "exiting after answer",
                             "gone", "gone after answer"}]
    /\ phase \in [Numbers -> {"none", "starting", "late", "registered", "over"}]
    /\ origin \in [Numbers -> Numbers \union {NoServer}]
    /\ object \in [Numbers -> ManagedServers]
    /\ servers \in Numbers \union {NoServer} /\ stopping \in Numbers \union {NoServer}
    /\ starting \in Numbers \union {NoServer}
    /\ resolving \subseteq Numbers /\ killed \subseteq Numbers /\ displaced \subseteq Numbers
    /\ delays \in Nat

\* No process has the number that stands for no server.
LEMMA NoServerIsNoNumber == NoServer \notin Numbers
BY LanguageServersAssumption DEF NoServer, Numbers

\* Every step of startServer, restartServer, onExit and shutdownAll keeps the types.
LEMMA LspTyped == LspSpec => []LspTypeOK
<1>0. MaxRestarts \in Nat /\ 0 \notin Numbers
  BY LanguageServersAssumption DEF Numbers
<1> USE <1>0 DEF NoServer
<1>1. LspInit => LspTypeOK
  BY DEF LspInit, LspTypeOK, Managed, ManagedServers, ServerStates
<1>2. LspTypeOK /\ [LspNext]_lspVars => LspTypeOK'
  <2> SUFFICES ASSUME LspTypeOK, [LspNext]_lspVars PROVE LspTypeOK'
    OBVIOUS
  <2>a. ASSUME NEW n \in Numbers, Rejects(n), UNCHANGED <<proc, origin, resolving, delays, stopping>>,
               phase' \in [Numbers -> {"none", "starting", "late", "registered", "over"}],
               killed' \subseteq Numbers
        PROVE  LspTypeOK'
    <3>1. CASE origin[n] = NoServer
      BY <2>a, <3>1 DEF LspTypeOK, Rejects
    <3>2. CASE origin[n] # NoServer
      <4>1. origin[n] \in Numbers /\ "crash_loop" \in ServerStates
        BY <3>2 DEF LspTypeOK, ServerStates
      <4>2. object' \in [Numbers -> ManagedServers]
        <5>1. object' = [object EXCEPT ![origin[n]].state = "crash_loop"]
          BY <2>a, <3>2 DEF Rejects
        <5>2. object \in [Numbers -> ManagedServers]
          BY DEF LspTypeOK
        <5> QED
          BY <4>1, <5>1, <5>2, SetsState
      <4>3. servers' \in Numbers /\ starting' = starting /\ displaced' \subseteq Numbers
        BY <2>a, <3>2, <4>1 DEF LspTypeOK, Rejects, SetServer
      <4> QED
        BY <2>a, <4>2, <4>3 DEF LspTypeOK
    <3> QED
      BY <3>1, <3>2
  <2>1. ASSUME NEW n \in Numbers, GetServer(n) PROVE LspTypeOK'
    BY <2>1 DEF LspTypeOK, GetServer, SpawnServer
  <2>2. ASSUME NEW n \in Numbers, Answers(n) PROVE LspTypeOK'
    BY <2>2 DEF LspTypeOK, Answers
  <2>3. ASSUME NEW n \in Numbers, Initialized(n) PROVE LspTypeOK'
    <3>1. RestartCount(n) \in Nat
      BY DEF LspTypeOK, RestartCount, ManagedServers
    <3>2. Managed("running", RestartCount(n)) \in ManagedServers
      BY <3>1 DEF Managed, ManagedServers, ServerStates
    <3> QED
      BY <2>3, <3>2 DEF LspTypeOK, Initialized, SetServer
  <2>4. ASSUME NEW n \in Numbers, InitializedLate(n) PROVE LspTypeOK'
    BY <2>4 DEF LspTypeOK, InitializedLate
  <2>5. ASSUME NEW n \in Numbers, StartupTimesOut(n) PROVE LspTypeOK'
    BY <2>5, <2>a DEF LspTypeOK, StartupTimesOut
  <2>6. ASSUME NEW n \in Numbers, StartupFails(n) PROVE LspTypeOK'
    BY <2>6, <2>a DEF LspTypeOK, StartupFails
  <2>7. ASSUME NEW n \in Numbers, Ends(n) PROVE LspTypeOK'
    BY <2>7 DEF LspTypeOK, Ends
  <2>8. ASSUME NEW n \in Numbers, NEW code \in {"zero", "positive", "signal"}, ExitEvent(n, code)
        PROVE LspTypeOK'
    <3>1. ASSUME OnExit(code)
          PROVE  object' \in [Numbers -> ManagedServers] /\ delays' \in Nat
      <4>1. CASE State(servers) \in {"none", "stopped"}
        BY <3>1, <4>1 DEF LspTypeOK, OnExit
      <4>2. CASE State(servers) \notin {"none", "stopped"}
        <5> DEFINE count == object[servers].restartCount
                   again == Crashed(code) /\ count < MaxRestarts
                   state == IF ~again /\ count >= MaxRestarts THEN "crash_loop" ELSE "degraded"
                   new == [state |-> state, lastError |-> IF code = "zero" THEN "clean" ELSE "crash",
                           restartCount |-> IF again THEN count + 1 ELSE count]
        <5>1. servers \in Numbers
          BY <4>2 DEF LspTypeOK, State
        <5>2. count \in Nat
          BY <5>1 DEF LspTypeOK, ManagedServers
        <5>3. new \in ManagedServers
          BY <5>2 DEF ManagedServers, ServerStates
        <5>4. object' = [object EXCEPT ![servers] = new]
              /\ delays' = IF again THEN delays + 1 ELSE delays
          BY <3>1, <4>2 DEF OnExit
        <5>5. object \in [Numbers -> ManagedServers] /\ delays \in Nat
          BY DEF LspTypeOK
        <5> HIDE DEF new, again
        <5>6. object' \in [Numbers -> ManagedServers]
          BY <5>1, <5>3, <5>4, <5>5
        <5>7. delays' \in Nat
          BY <5>4, <5>5
        <5> QED
          BY <5>6, <5>7
      <4> QED
        BY <4>1, <4>2
    <3>2. proc' \in [Numbers -> {"none", "alive", "answered", "exiting", "exiting after answer",
                                 "gone", "gone after answer"}]
      BY <2>8 DEF LspTypeOK, ExitEvent
    <3> QED
      BY <2>8, <3>1, <3>2 DEF LspTypeOK, ExitEvent
  <2>9. ASSUME NEW n \in Numbers, RestartResolves(n) PROVE LspTypeOK'
    <3>1. CASE UNCHANGED <<proc, phase, origin>>
      BY <2>9, <3>1 DEF LspTypeOK, RestartResolves
    <3>2. ASSUME NEW m \in Numbers, SpawnServer(m, n) PROVE LspTypeOK'
      BY <2>9, <3>2 DEF LspTypeOK, RestartResolves, SpawnServer
    <3> QED
      BY <2>9, <3>1, <3>2 DEF RestartResolves
  <2>10. CASE RestartBegins
    <3>1. State(servers) \notin {"none", "stopped"} => servers \in Numbers
      BY DEF LspTypeOK, State
    <3>2. delays' \in Nat
      <4>1. delays > 0 /\ delays' = delays - 1
        BY <2>10 DEF RestartBegins
      <4>2. delays \in Nat
        BY DEF LspTypeOK
      <4> QED
        BY <4>1, <4>2
    <3> QED
      BY <2>10, <3>1, <3>2 DEF LspTypeOK, RestartBegins
  <2>11. CASE ShutdownAll
    <3>1. servers \in Numbers /\ "stopped" \in ServerStates
      BY <2>11 DEF LspTypeOK, ShutdownAll, State, ServerStates
    <3>2. object' \in [Numbers -> ManagedServers]
      BY <2>11, <3>1, SetsState DEF LspTypeOK, ShutdownAll
    <3> QED
      BY <2>11, <3>1, <3>2 DEF LspTypeOK, ShutdownAll
  <2>12. CASE ShutdownEnds
    BY <2>12 DEF LspTypeOK, ShutdownEnds
  <2>13. CASE UNCHANGED lspVars
    BY <2>13 DEF LspTypeOK, lspVars
  <2> QED
    BY <2>1, <2>2, <2>3, <2>4, <2>5, <2>6, <2>7, <2>8, <2>9, <2>10, <2>11, <2>12, <2>13 DEF LspNext
<1> QED
  BY <1>1, <1>2, PTL DEF LspSpec

-----------------------------------------------------------------------------
(* LanguageServers: every server process is held                            *)

\* A process exists when its startServer was called, and one whose startup was
\* given up has been killed: what makes ServersAreHeld inductive.
HeldInv ==
    /\ \A n \in Numbers : phase[n] = "none" => proc[n] = "none"
    /\ \A n \in Numbers : phase[n] \in {"late", "over"} => n \in killed
    /\ ServersAreHeld

\* startServer, restartServer, shutdownAll: however they overlap, a process that lives
\* is being started, is the server in the map, gets SIGKILL or lost its entry.
THEOREM ServersHeld == LspSpec => []ServersAreHeld
<1>1. LspInit => HeldInv
  BY DEF LspInit, HeldInv, ServersAreHeld, Living
<1>2. LspTypeOK /\ HeldInv /\ [LspNext]_lspVars => HeldInv'
  <2> SUFFICES ASSUME LspTypeOK, HeldInv, [LspNext]_lspVars PROVE HeldInv'
    OBVIOUS
  <2> USE DEF HeldInv, ServersAreHeld, Living, LspTypeOK
  <2>a. ASSUME SetServer(servers')
        PROVE  \A m \in Numbers : servers = m \/ m \in displaced => servers' = m \/ m \in displaced'
    BY <2>a, NoServerIsNoNumber DEF SetServer
  <2>b. ASSUME NEW n \in Numbers, Rejects(n)
        PROVE  \A m \in Numbers : servers = m \/ m \in displaced => servers' = m \/ m \in displaced'
    <3>1. CASE servers' = servers /\ displaced' = displaced
      BY <3>1
    <3>2. CASE SetServer(servers')
      BY <3>2, <2>a
    <3> QED
      BY <2>b, <3>1, <3>2 DEF Rejects, SetServer
  <2>c. ASSUME NEW n \in Numbers, Rejects(n), phase[n] = "starting", killed' = killed \union {n}, proc' = proc,
               phase' \in {[phase EXCEPT ![n] = "late"], [phase EXCEPT ![n] = "over"]}
        PROVE  HeldInv'
    BY <2>c, <2>b
  <2>1. ASSUME NEW n \in Numbers, GetServer(n) PROVE HeldInv'
    BY <2>1 DEF GetServer, SpawnServer
  <2>2. ASSUME NEW n \in Numbers, Answers(n) PROVE HeldInv'
    BY <2>2 DEF Answers
  <2>3. ASSUME NEW n \in Numbers, Initialized(n) PROVE HeldInv'
    <3>1. SetServer(servers') /\ servers' = n
      BY <2>3 DEF Initialized, SetServer
    <3> QED
      BY <2>3, <2>a, <3>1 DEF Initialized
  <2>4. ASSUME NEW n \in Numbers, InitializedLate(n) PROVE HeldInv'
    BY <2>4 DEF InitializedLate
  <2>5. ASSUME NEW n \in Numbers, StartupTimesOut(n) PROVE HeldInv'
    BY <2>5, <2>c DEF StartupTimesOut
  <2>6. ASSUME NEW n \in Numbers, StartupFails(n) PROVE HeldInv'
    BY <2>6, <2>c DEF StartupFails
  <2>7. ASSUME NEW n \in Numbers, Ends(n) PROVE HeldInv'
    BY <2>7 DEF Ends
  <2>8. ASSUME NEW n \in Numbers, NEW code \in {"zero", "positive", "signal"}, ExitEvent(n, code)
        PROVE HeldInv'
    BY <2>8 DEF ExitEvent
  <2>9. ASSUME NEW n \in Numbers, RestartResolves(n) PROVE HeldInv'
    BY <2>9 DEF RestartResolves, SpawnServer
  <2>10. CASE RestartBegins
    BY <2>10 DEF RestartBegins
  <2>11. CASE ShutdownAll
    BY <2>11 DEF ShutdownAll
  <2>12. CASE ShutdownEnds
    BY <2>12 DEF ShutdownEnds
  <2>13. CASE UNCHANGED lspVars
    BY <2>13 DEF lspVars
  <2> QED
    BY <2>1, <2>2, <2>3, <2>4, <2>5, <2>6, <2>7, <2>8, <2>9, <2>10, <2>11, <2>12, <2>13 DEF LspNext
<1>3. HeldInv => ServersAreHeld
  BY DEF HeldInv
<1> QED
  BY <1>1, <1>2, <1>3, LspTyped, PTL DEF LspSpec

-----------------------------------------------------------------------------
(* A crashed server is on its way out                                      *)

\* onExit marks a server that crashed as degraded only when it also starts the delay of
\* a restart; restartServer takes it out of the map before another delay can end.
THEOREM CrashedServersLeave == LspSpec => []CrashedServerLeaves
<1>1. LspInit => CrashedServerLeaves
  BY DEF LspInit, CrashedServerLeaves
<1>2. LspTypeOK /\ CrashedServerLeaves /\ [LspNext]_lspVars => CrashedServerLeaves'
  <2> SUFFICES ASSUME LspTypeOK, CrashedServerLeaves, [LspNext]_lspVars,
                      servers' # NoServer, object'[servers'].state = "degraded",
                      object'[servers'].lastError = "crash"
               PROVE  delays' > 0
    BY DEF CrashedServerLeaves
  <2>t. /\ object \in [Numbers -> ManagedServers] /\ origin \in [Numbers -> Numbers \union {NoServer}]
        /\ servers \in Numbers \union {NoServer} /\ delays \in Nat /\ MaxRestarts \in Nat
    BY LanguageServersAssumption DEF LspTypeOK
  <2>u. ASSUME object' = object, servers' = servers, delays' = delays PROVE delays' > 0
    BY <2>u DEF CrashedServerLeaves
  <2>r. ASSUME NEW n \in Numbers, Rejects(n), delays' = delays PROVE delays' > 0
    <3>1. CASE origin[n] = NoServer
      BY <2>r, <2>u, <3>1 DEF Rejects
    <3>2. CASE origin[n] # NoServer
      <4>1. servers' = origin[n] /\ object' = [object EXCEPT ![origin[n]].state = "crash_loop"]
        BY <2>r, <3>2 DEF Rejects, SetServer
      <4>2. object'[servers'].state = "crash_loop"
        BY <2>t, <3>2, <4>1
      <4> QED
        BY <4>2
    <3> QED
      BY <3>1, <3>2
  <2>1. ASSUME NEW n \in Numbers, GetServer(n) PROVE delays' > 0
    BY <2>1, <2>u DEF GetServer
  <2>2. ASSUME NEW n \in Numbers, Answers(n) PROVE delays' > 0
    BY <2>2, <2>u DEF Answers
  <2>3. ASSUME NEW n \in Numbers, Initialized(n) PROVE delays' > 0
    <3>1. object'[servers'].state = "running"
      BY <2>3, <2>t DEF Initialized, SetServer, Managed
    <3> QED
      BY <3>1
  <2>4. ASSUME NEW n \in Numbers, InitializedLate(n) PROVE delays' > 0
    BY <2>4, <2>u DEF InitializedLate
  <2>5. ASSUME NEW n \in Numbers, StartupTimesOut(n) PROVE delays' > 0
    BY <2>5, <2>r DEF StartupTimesOut
  <2>6. ASSUME NEW n \in Numbers, StartupFails(n) PROVE delays' > 0
    BY <2>6, <2>r DEF StartupFails
  <2>7. ASSUME NEW n \in Numbers, Ends(n) PROVE delays' > 0
    BY <2>7, <2>u DEF Ends
  <2>8. ASSUME NEW n \in Numbers, NEW code \in {"zero", "positive", "signal"}, ExitEvent(n, code)
        PROVE delays' > 0
    <3>1. CASE ~OnExit(code) \/ State(servers) \in {"none", "stopped"}
      BY <2>8, <2>u, <3>1 DEF ExitEvent, OnExit
    <3>2. CASE OnExit(code) /\ State(servers) \notin {"none", "stopped"}
      <4> DEFINE count == object[servers].restartCount
                 again == Crashed(code) /\ count < MaxRestarts
                 state == IF ~again /\ count >= MaxRestarts THEN "crash_loop" ELSE "degraded"
      <4>1. servers' = servers /\ servers \in Numbers
        BY <2>8, <2>t, <3>2 DEF ExitEvent, State
      <4>2. /\ object' = [object EXCEPT ![servers] =
                   [state |-> state, lastError |-> IF code = "zero" THEN "clean" ELSE "crash",
                    restartCount |-> IF again THEN count + 1 ELSE count]]
            /\ delays' = IF again THEN delays + 1 ELSE delays
        BY <3>2 DEF OnExit
      <4>3. state = "degraded" /\ code # "zero"
        BY <2>t, <4>1, <4>2
      <4>4. count \in Nat
        BY <2>t, <4>1 DEF ManagedServers
      <4>5. again
        BY <2>t, <4>3, <4>4 DEF Crashed
      <4> QED
        BY <2>t, <4>2, <4>5
    <3> QED
      BY <3>1, <3>2
  <2>9. ASSUME NEW n \in Numbers, RestartResolves(n) PROVE delays' > 0
    BY <2>9, <2>u DEF RestartResolves
  <2>10. CASE RestartBegins
    <3>1. State(servers) \in {"none", "stopped"} /\ servers' = servers /\ object' = object
      BY <2>10 DEF RestartBegins
    <3> QED
      BY <3>1 DEF State
  <2>11. CASE ShutdownAll
    <3>1. object'[servers'].state = "stopped"
      BY <2>11, <2>t DEF ShutdownAll, State
    <3> QED
      BY <3>1
  <2>12. CASE ShutdownEnds
    BY <2>12 DEF ShutdownEnds
  <2>13. CASE UNCHANGED lspVars
    BY <2>13, <2>u DEF lspVars
  <2> QED
    BY <2>1, <2>2, <2>3, <2>4, <2>5, <2>6, <2>7, <2>8, <2>9, <2>10, <2>11, <2>12, <2>13 DEF LspNext
<1> QED
  BY <1>1, <1>2, LspTyped, PTL DEF LspSpec

\* Both together, as the runs check them.
THEOREM NoServerStranded == LspSpec => []NoServerIsStranded
<1>1. ServersAreHeld /\ CrashedServerLeaves => NoServerIsStranded
  BY DEF NoServerIsStranded
<1> QED
  BY <1>1, ServersHeld, CrashedServersLeave, PTL

-----------------------------------------------------------------------------
(* Restarts are bounded                                                    *)

\* The servers that were initialised, and those of them no restart has replaced.
Objects == {n \in Numbers : object[n].state # "none"}
Heads == {n \in Objects : \A m \in Objects : origin[m] # n}
Roots == {n \in Objects : origin[n] = NoServer}
Restarted == {n \in Numbers : origin[n] # NoServer}

\* Every restart that was begun counts as one unit of the restartCount of a server
\* that is not replaced yet.
Begun == {t \in Heads \X (1 .. MaxRestarts) : t[2] <= object[t[1]].restartCount}

\* A server is replaced by one restart at a time, and while it is not in the map.
LineageInv ==
    /\ \A n \in Numbers : (proc[n] = "none") <=> (phase[n] = "none")
    /\ \A n \in Numbers : phase[n] = "none" => origin[n] = NoServer
    /\ \A n \in Numbers : origin[n] # NoServer => origin[n] \in Objects
    /\ \A n \in Objects : phase[n] = "registered" /\ object[n].restartCount <= MaxRestarts
    /\ servers \in Heads \cup {NoServer}
    /\ resolving \subseteq Heads \ {servers}
    /\ \A n \in Numbers : phase[n] = "starting" /\ origin[n] # NoServer =>
           /\ origin[n] \in Heads \ (resolving \cup {servers})
           /\ \A m \in Numbers : phase[m] = "starting" /\ origin[m] = origin[n] => m = n

\* A step that starts, replaces and counts nothing.
LEMMA SameLineage ==
    ASSUME Objects' = Objects, \A n \in Objects : origin'[n] = origin[n],
           \A n \in Objects : object'[n].restartCount = object[n].restartCount
    PROVE  Heads' = Heads /\ Roots' = Roots /\ Begun' = Begun
<1>1. Heads' = Heads /\ Roots' = Roots
  BY DEF Heads, Roots
<1>2. \A n \in Heads : n \in Objects
  BY DEF Heads
<1>3. \A t \in Heads \X (1 .. MaxRestarts) : object'[t[1]].restartCount = object[t[1]].restartCount
  BY <1>2
<1> QED
  BY <1>1, <1>3 DEF Begun

\* A server that replaces another one, or none, takes the place of that one.
LEMMA HeadReplaced ==
    ASSUME NEW n \in Numbers, LineageInv, LspTypeOK, Initialized(n)
    PROVE  /\ n \notin Objects /\ Objects' = Objects \cup {n}
           /\ Heads' = (Heads \ {origin[n]}) \cup {n}
           /\ Roots' = IF origin[n] = NoServer THEN Roots \cup {n} ELSE Roots
           /\ \A m \in Objects : object'[m] = object[m]
           /\ object'[n].restartCount = RestartCount(n)
<1>1. n \notin Objects /\ phase[n] = "starting" /\ n # NoServer
  BY NoServerIsNoNumber DEF LineageInv, Initialized
<1>2. object' = [object EXCEPT ![n] = Managed("running", RestartCount(n))] /\ origin' = origin
  BY DEF Initialized
<1>3. object'[n] = Managed("running", RestartCount(n)) /\ \A m \in Numbers \ {n} : object'[m] = object[m]
  BY <1>2 DEF LspTypeOK
<1>4. Objects' = Objects \cup {n}
  BY <1>3 DEF Objects, Managed
<1>5. \A m \in Objects : object'[m] = object[m]
  BY <1>1, <1>3 DEF Objects
<1>6. origin[n] # n /\ \A m \in Objects : origin[m] # n
  BY <1>1 DEF LineageInv, Objects
<1>7. Heads' = (Heads \ {origin[n]}) \cup {n}
  BY <1>2, <1>4, <1>6 DEF Heads
<1>8. Roots' = IF origin[n] = NoServer THEN Roots \cup {n} ELSE Roots
  BY <1>2, <1>4 DEF Roots
<1> QED
  BY <1>1, <1>3, <1>4, <1>5, <1>7, <1>8 DEF Managed

\* startServer, restartServer, onExit and shutdownAll: a server that waits to be replaced
\* is not in the map, has not been replaced, and waits for one process only.
LEMMA Lineage == LspSpec => []LineageInv
<1>1. LspInit => LineageInv
  BY NoServerIsNoNumber DEF LspInit, LineageInv, Objects, Heads, Managed, NoServer
<1>2. LspTypeOK /\ LineageInv /\ [LspNext]_lspVars => LineageInv'
  <2> SUFFICES ASSUME LspTypeOK, LineageInv, [LspNext]_lspVars PROVE LineageInv'
    OBVIOUS
  <2>h. Heads \subseteq Objects /\ Objects \subseteq Numbers /\ NoServer \notin Numbers
    BY NoServerIsNoNumber DEF Heads, Objects
  <2>t. /\ object \in [Numbers -> ManagedServers] /\ origin \in [Numbers -> Numbers \union {NoServer}]
        /\ proc \in [Numbers -> {"none", "alive", "answered", "exiting", "exiting after answer", "gone", "gone after answer"}]
        /\ phase \in [Numbers -> {"none", "starting", "late", "registered", "over"}]
        /\ MaxRestarts \in Nat
    BY LanguageServersAssumption DEF LspTypeOK
  <2>s. ASSUME NEW n \in Numbers, NEW old \in Numbers \cup {NoServer}, SpawnServer(n, old),
               UNCHANGED <<object, servers>>, resolving' = resolving \ {old},
               old = NoServer \/ old \in resolving
        PROVE  LineageInv'
    <3>1. proc[n] = "none" /\ phase[n] = "none" /\ origin[n] = NoServer /\ n \notin Objects
      BY <2>s DEF SpawnServer, Unused, LineageInv
    <3>2. Objects' = Objects /\ Heads' = Heads
      <4>1. Objects' = Objects
        BY <2>s DEF Objects
      <4>2. \A m \in Objects : origin'[m] = origin[m]
        BY <2>s, <2>t, <2>h, <3>1 DEF SpawnServer
      <4> QED
        BY <4>1, <4>2 DEF Heads
    <3>3. /\ proc' = [proc EXCEPT ![n] = "alive"] /\ phase' = [phase EXCEPT ![n] = "starting"]
          /\ origin' = [origin EXCEPT ![n] = old]
      BY <2>s DEF SpawnServer
    <3>4. \A m \in Numbers : proc'[m] = "none" <=> phase'[m] = "none"
      BY <2>t, <3>3 DEF LineageInv
    <3>5. \A m \in Numbers : phase'[m] = "none" => origin'[m] = NoServer
      BY <2>t, <3>3 DEF LineageInv
    <3>a. origin'[n] = old /\ phase'[n] = "starting"
          /\ \A m \in Numbers \ {n} : origin'[m] = origin[m] /\ phase'[m] = phase[m]
      BY <2>t, <3>3
    <3>b. old # NoServer => old \in Heads \ {servers}
      BY <2>s DEF LineageInv
    <3>6. \A m \in Numbers : origin'[m] # NoServer => origin'[m] \in Objects'
      BY <2>h, <3>2, <3>a, <3>b DEF LineageInv
    <3>7. \A m \in Objects' : phase'[m] = "registered" /\ object'[m].restartCount <= MaxRestarts
      BY <2>s, <2>h, <3>1, <3>2, <3>a DEF LineageInv
    <3>8. servers' \in Heads' \cup {NoServer} /\ resolving' \subseteq Heads' \ {servers'}
      BY <2>s, <3>2 DEF LineageInv
    <3>9. \A m \in Numbers : phase'[m] = "starting" /\ origin'[m] # NoServer =>
             /\ origin'[m] \in Heads' \ (resolving' \cup {servers'})
             /\ \A k \in Numbers : phase'[k] = "starting" /\ origin'[k] = origin'[m] => k = m
      <4>1. \A m \in Numbers \ {n} : phase[m] = "starting" /\ origin[m] # NoServer =>
               /\ origin[m] \in Heads \ (resolving \cup {servers}) /\ origin[m] # old
               /\ \A k \in Numbers : phase[k] = "starting" /\ origin[k] = origin[m] => k = m
        BY <2>s DEF LineageInv
      <4>2. old # NoServer => old \in Heads' \ (resolving' \cup {servers'})
        BY <2>s, <3>2, <3>b
      <4> QED
        BY <2>s, <3>2, <3>a, <4>1, <4>2
    <3> QED
      BY <3>4, <3>5, <3>6, <3>7, <3>8, <3>9 DEF LineageInv
  \* Servers keep their place; their state, their count or the entry of the map may change.
  <2>o. ASSUME Objects' = Objects, UNCHANGED origin, UNCHANGED resolving,
               \A n \in Numbers : phase'[n] = phase[n] \/ (phase[n] # "none" /\ phase'[n] \notin {"none", "starting"}
                                                           /\ n \notin Objects),
               \A n \in Numbers : proc'[n] = "none" <=> proc[n] = "none",
               \A n \in Objects : object'[n].restartCount <= MaxRestarts,
               servers' \in Heads \cup {NoServer}, servers' \notin resolving,
               \A n \in Numbers : phase'[n] = "starting" /\ origin[n] # NoServer => origin[n] # servers'
        PROVE  LineageInv'
    <3>1. Heads' = Heads
      BY <2>o DEF Heads
    <3>2. \A m \in Numbers : (proc'[m] = "none" <=> phase'[m] = "none") /\ (phase'[m] = "none" => origin'[m] = NoServer)
      BY <2>o DEF LineageInv
    <3>3. \A m \in Objects' : phase'[m] = "registered" /\ object'[m].restartCount <= MaxRestarts
      BY <2>o, <2>h DEF LineageInv
    <3>4. \A m \in Numbers : phase'[m] = "starting" /\ origin'[m] # NoServer =>
             /\ origin'[m] \in Heads' \ (resolving' \cup {servers'})
             /\ \A k \in Numbers : phase'[k] = "starting" /\ origin'[k] = origin'[m] => k = m
      BY <2>o, <3>1 DEF LineageInv
    <3> QED
      BY <2>o, <3>1, <3>2, <3>3, <3>4 DEF LineageInv
  <2>c. \A n \in Objects : object[n].restartCount <= MaxRestarts
    BY DEF LineageInv
  <2>u. \A n \in Numbers : phase[n] = "starting" /\ origin[n] # NoServer => origin[n] # servers
    BY DEF LineageInv
  <2>x. servers \in Heads \cup {NoServer} /\ servers \notin resolving
    BY DEF LineageInv
  <2>r. ASSUME NEW n \in Numbers, phase[n] = "starting", Rejects(n), UNCHANGED <<proc, origin, resolving>>,
               phase' \in {[phase EXCEPT ![n] = "late"], [phase EXCEPT ![n] = "over"]}
        PROVE  LineageInv'
    <3>1. n \notin Objects
      BY <2>r DEF LineageInv
    <3>2. \A m \in Numbers : phase'[m] = phase[m] \/ (phase[m] # "none" /\ phase'[m] \notin {"none", "starting"}
                                                      /\ m \notin Objects)
      BY <2>r, <2>t, <3>1
    <3>3. CASE origin[n] = NoServer
      <4>1. UNCHANGED <<object, servers>>
        BY <2>r, <3>3 DEF Rejects
      <4>2. Objects' = Objects
        BY <4>1 DEF Objects
      <4>3. \A m \in Numbers : phase'[m] = "starting" => phase[m] = "starting"
        BY <2>r, <2>t
      <4> QED
        BY <2>r, <2>o, <2>c, <2>u, <2>x, <3>2, <4>1, <4>2, <4>3
    <3>4. CASE origin[n] # NoServer
      <4>1. object' = [object EXCEPT ![origin[n]].state = "crash_loop"] /\ servers' = origin[n]
        BY <2>r, <3>4 DEF Rejects, SetServer
      <4>2. origin[n] \in Heads /\ origin[n] \notin resolving
            /\ \A m \in Numbers : phase[m] = "starting" /\ origin[m] = origin[n] => m = n
        BY <2>r, <3>4 DEF LineageInv
      <4>3. \A m \in Numbers : object'[m].restartCount = object[m].restartCount
                               /\ (m # origin[n] => object'[m].state = object[m].state)
        BY <2>t, <4>1 DEF ManagedServers
      <4>4. object'[origin[n]].state = "crash_loop"
        BY <2>t, <2>h, <4>1, <4>2 DEF ManagedServers
      <4>5. Objects' = Objects
        BY <2>h, <4>2, <4>3, <4>4 DEF Objects
      <4>6. \A m \in Numbers : phase'[m] = "starting" => phase[m] = "starting" /\ m # n
        BY <2>r, <2>t
      <4>7. \A m \in Numbers : phase'[m] = "starting" /\ origin[m] # NoServer => origin[m] # servers'
        BY <4>1, <4>2, <4>6
      <4>8. \A m \in Objects : object'[m].restartCount <= MaxRestarts
        BY <2>c, <2>h, <4>3
      <4> QED
        BY <2>r, <2>o, <3>2, <4>1, <4>2, <4>5, <4>7, <4>8
    <3> QED
      BY <3>3, <3>4
  <2>1. ASSUME NEW n \in Numbers, GetServer(n) PROVE LineageInv'
    <3>1. SpawnServer(n, NoServer) /\ UNCHANGED <<object, servers, resolving>>
      BY <2>1 DEF GetServer
    <3>2. resolving' = resolving \ {NoServer}
      BY <2>h, <3>1 DEF LineageInv
    <3> QED
      BY <2>s, <3>1, <3>2
  <2>2. ASSUME NEW n \in Numbers, Answers(n) PROVE LineageInv'
    <3>1. Objects' = Objects
      BY <2>2 DEF Answers, Objects
    <3> QED
      BY <2>2, <2>o, <2>c, <2>t, <2>u, <2>x, <3>1 DEF Answers
  <2>3. ASSUME NEW n \in Numbers, Initialized(n) PROVE LineageInv'
    <3>1. /\ n \notin Objects /\ Objects' = Objects \cup {n}
          /\ Heads' = (Heads \ {origin[n]}) \cup {n}
          /\ \A m \in Objects : object'[m] = object[m]
          /\ object'[n].restartCount = RestartCount(n)
      BY <2>3, HeadReplaced
    <3>2. /\ phase[n] = "starting" /\ phase' = [phase EXCEPT ![n] = "registered"] /\ servers' = n
          /\ UNCHANGED <<proc, origin, resolving>>
      BY <2>3 DEF Initialized, SetServer
    <3>3. origin[n] # NoServer => origin[n] \in Heads /\ origin[n] \notin resolving
                                  /\ \A m \in Numbers : phase[m] = "starting" /\ origin[m] = origin[n] => m = n
      BY <3>2 DEF LineageInv
    <3>4. RestartCount(n) <= MaxRestarts
      <4>1. CASE origin[n] = NoServer
        BY <4>1, LanguageServersAssumption DEF RestartCount
      <4>2. CASE origin[n] # NoServer
        BY <2>c, <2>h, <3>3, <4>2 DEF RestartCount
      <4> QED
        BY <4>1, <4>2
    <3>5. \A m \in Numbers : (proc'[m] = "none" <=> phase'[m] = "none") /\ (phase'[m] = "none" => origin'[m] = NoServer)
      BY <2>t, <3>2 DEF LineageInv
    <3>6. \A m \in Numbers : origin'[m] # NoServer => origin'[m] \in Objects'
      BY <3>1, <3>2 DEF LineageInv
    <3>7. \A m \in Objects' : phase'[m] = "registered" /\ object'[m].restartCount <= MaxRestarts
      <4>1. phase'[n] = "registered" /\ \A m \in Objects : phase'[m] = phase[m]
        BY <2>h, <2>t, <3>1, <3>2
      <4>2. \A m \in Objects : phase[m] = "registered" /\ object'[m].restartCount <= MaxRestarts
        BY <2>c, <3>1 DEF LineageInv
      <4> QED
        BY <3>1, <3>4, <4>1, <4>2
    <3>8. servers' \in Heads' \cup {NoServer} /\ resolving' \subseteq Heads' \ {servers'}
      <4>1. resolving \subseteq Heads /\ origin[n] \notin resolving
        BY <2>h, <3>3 DEF LineageInv
      <4> QED
        BY <2>h, <3>1, <3>2, <4>1
    <3>9. \A m \in Numbers : phase'[m] = "starting" /\ origin'[m] # NoServer =>
             /\ origin'[m] \in Heads' \ (resolving' \cup {servers'})
             /\ \A k \in Numbers : phase'[k] = "starting" /\ origin'[k] = origin'[m] => k = m
      <4> SUFFICES ASSUME NEW m \in Numbers, phase'[m] = "starting", origin[m] # NoServer
                   PROVE  /\ origin[m] \in Heads' \ (resolving \cup {n})
                          /\ \A k \in Numbers : phase'[k] = "starting" /\ origin[k] = origin[m] => k = m
        BY <3>2
      <4>1. m # n /\ phase[m] = "starting"
        BY <2>t, <3>2
      <4>2. origin[m] \in Heads /\ origin[m] \notin resolving
            /\ \A k \in Numbers : phase[k] = "starting" /\ origin[k] = origin[m] => k = m
        BY <4>1 DEF LineageInv
      <4>3. origin[m] # origin[n] /\ origin[m] # n
        BY <2>h, <3>1, <3>2, <4>1, <4>2
      <4>4. \A k \in Numbers : phase'[k] = "starting" => phase[k] = "starting"
        BY <2>t, <3>2
      <4> QED
        BY <3>1, <4>2, <4>3, <4>4
    <3> QED
      BY <3>5, <3>6, <3>7, <3>8, <3>9 DEF LineageInv
  <2>4. ASSUME NEW n \in Numbers, InitializedLate(n) PROVE LineageInv'
    <3>1. Objects' = Objects /\ n \notin Objects
      BY <2>4 DEF InitializedLate, Objects, LineageInv
    <3>2. \A m \in Numbers : phase'[m] = "starting" => phase[m] = "starting"
      BY <2>4, <2>t DEF InitializedLate
    <3> QED
      BY <2>4, <2>o, <2>c, <2>t, <2>u, <2>x, <3>1, <3>2 DEF InitializedLate
  <2>5. ASSUME NEW n \in Numbers, StartupTimesOut(n) PROVE LineageInv'
    BY <2>5, <2>r DEF StartupTimesOut
  <2>6. ASSUME NEW n \in Numbers, StartupFails(n) PROVE LineageInv'
    BY <2>6, <2>r DEF StartupFails
  <2>7. ASSUME NEW n \in Numbers, Ends(n) PROVE LineageInv'
    <3>1. Objects' = Objects
      BY <2>7 DEF Ends, Objects
    <3>2. \A m \in Numbers : proc'[m] = "none" <=> proc[m] = "none"
      BY <2>7, <2>t DEF Ends, Living
    <3> QED
      BY <2>7, <2>o, <2>c, <2>u, <2>x, <3>1, <3>2 DEF Ends
  <2>8. ASSUME NEW n \in Numbers, NEW code \in {"zero", "positive", "signal"}, ExitEvent(n, code)
        PROVE LineageInv'
    <3>1. UNCHANGED <<phase, origin, servers, resolving>>
      BY <2>8 DEF ExitEvent
    <3>2. \A m \in Numbers : proc'[m] = "none" <=> proc[m] = "none"
      BY <2>8, <2>t DEF ExitEvent
    <3>3. Objects' = Objects /\ \A m \in Objects : object'[m].restartCount <= MaxRestarts
      <4>1. CASE object' = object
        BY <2>c, <4>1 DEF Objects
      <4>2. CASE object' # object
        <5>1. servers \in Objects /\ OnExit(code) /\ State(servers) \notin {"none", "stopped"}
          BY <2>8, <2>x, <2>h, <4>2 DEF ExitEvent, OnExit, State
        <5>2. PICK new \in ManagedServers :
                 /\ object' = [object EXCEPT ![servers] = new] /\ new.state # "none" /\ new.restartCount <= MaxRestarts
          <6> DEFINE count == object[servers].restartCount
                     again == Crashed(code) /\ count < MaxRestarts
                     state == IF ~again /\ count >= MaxRestarts THEN "crash_loop" ELSE "degraded"
                     new == [state |-> state, lastError |-> IF code = "zero" THEN "clean" ELSE "crash",
                             restartCount |-> IF again THEN count + 1 ELSE count]
          <6>1. count \in Nat /\ count <= MaxRestarts
            BY <2>c, <2>h, <2>t, <5>1 DEF ManagedServers
          <6>2. object' = [object EXCEPT ![servers] = new]
            BY <5>1 DEF OnExit
          <6>3. new \in ManagedServers /\ new.state # "none" /\ new.restartCount <= MaxRestarts
            <7>1. state \in ServerStates /\ state # "none"
              BY DEF ServerStates
            <7>2. new.restartCount \in Nat /\ new.restartCount <= MaxRestarts
              <8> HIDE DEF count
              <8> QED
                BY <6>1, LanguageServersAssumption
            <7> QED
              BY <7>1, <7>2 DEF ManagedServers
          <6> QED
            BY <6>2, <6>3
        <5>3. object'[servers] = new /\ \A m \in Numbers \ {servers} : object'[m] = object[m]
          BY <2>h, <2>t, <5>1, <5>2
        <5>4. Objects' = Objects
          BY <2>h, <5>1, <5>2, <5>3 DEF Objects
        <5> QED
          BY <2>c, <2>h, <5>2, <5>3, <5>4
      <4> QED
        BY <4>1, <4>2
    <3> QED
      BY <2>o, <2>u, <2>x, <3>1, <3>2, <3>3
  <2>9. ASSUME NEW n \in Numbers, RestartResolves(n) PROVE LineageInv'
    <3>0. n \in resolving /\ resolving' = resolving \ {n} /\ UNCHANGED <<object, servers>>
      BY <2>9 DEF RestartResolves
    <3>1. CASE UNCHANGED <<proc, phase, origin>>
      <4>1. Objects' = Objects /\ Heads' = Heads
        BY <3>0, <3>1 DEF Objects, Heads
      <4> QED
        BY <3>0, <3>1, <4>1 DEF LineageInv
    <3>2. ASSUME NEW m \in Numbers, SpawnServer(m, n) PROVE LineageInv'
      BY <2>s, <3>0, <3>2
    <3> QED
      BY <2>9, <3>1, <3>2 DEF RestartResolves
  <2>10. CASE RestartBegins
    <3>0. UNCHANGED <<proc, phase, origin, object>>
      BY <2>10 DEF RestartBegins
    <3>1. Objects' = Objects /\ Heads' = Heads
      BY <3>0 DEF Objects, Heads
    <3>2. CASE UNCHANGED <<servers, resolving>>
      BY <3>0, <3>1, <3>2 DEF LineageInv
    <3>3. CASE State(servers) \notin {"none", "stopped"} /\ resolving' = resolving \union {servers} /\ servers' = NoServer
      <4>1. servers \in Heads
        BY <2>x, <3>3 DEF State
      <4>2. resolving' \subseteq Heads' \ {servers'}
        BY <2>h, <3>1, <3>3, <4>1 DEF LineageInv
      <4> QED
        BY <2>h, <3>0, <3>1, <3>3, <4>2 DEF LineageInv
    <3> QED
      BY <2>10, <3>2, <3>3 DEF RestartBegins
  <2>11. CASE ShutdownAll
    <3>1. servers \in Numbers /\ object[servers].state # "none" /\ servers' = servers
          /\ UNCHANGED <<proc, phase, origin, resolving>> /\ object' = [object EXCEPT ![servers].state = "stopped"]
      BY <2>11, <2>h, <2>x DEF ShutdownAll, State
    <3>2. /\ object'[servers].state = "stopped" /\ \A m \in Numbers \ {servers} : object'[m] = object[m]
          /\ object'[servers].restartCount = object[servers].restartCount
      BY <2>t, <3>1 DEF ManagedServers
    <3>3. Objects' = Objects
      BY <3>1, <3>2 DEF Objects
    <3>4. \A m \in Objects : object'[m].restartCount <= MaxRestarts
      BY <2>c, <2>h, <3>2
    <3> QED
      BY <2>o, <2>u, <2>x, <3>1, <3>3, <3>4
  <2>12. CASE ShutdownEnds
    <3>1. UNCHANGED <<proc, phase, origin, object, resolving>> /\ servers' = NoServer
      BY <2>12 DEF ShutdownEnds
    <3>2. Objects' = Objects
      BY <3>1 DEF Objects
    <3>3. NoServer \notin resolving
      BY <2>h DEF LineageInv
    <3> QED
      BY <2>o, <2>c, <3>1, <3>2, <3>3
  <2>13. CASE UNCHANGED lspVars
    <3>1. UNCHANGED <<proc, phase, origin, object, servers, resolving>>
      BY <2>13 DEF lspVars
    <3>2. Objects' = Objects
      BY <3>1 DEF Objects
    <3> QED
      BY <2>o, <2>c, <2>u, <2>x, <3>1, <3>2
  <2> QED
    BY <2>1, <2>2, <2>3, <2>4, <2>5, <2>6, <2>7, <2>8, <2>9, <2>10, <2>11, <2>12, <2>13 DEF LspNext
<1> QED
  BY <1>1, <1>2, LspTyped, PTL DEF LspSpec

\* restartCount: a restart that is under way or was begun is counted by the server it is
\* for, and there are no more chains of servers than getServer began.
RestartsCounted ==
    /\ Cardinality(Restarted) + delays + Cardinality(resolving) <= Cardinality(Begun)
    /\ Cardinality(Heads) <= Cardinality(Roots)

\* Every set of servers, and of restarts counted for them, is finite.
LEMMA ServersFinite ==
    ASSUME NEW some \in SUBSET Numbers
    PROVE  IsFiniteSet(some) /\ Cardinality(some) \in Nat
<1>1. IsFiniteSet(Numbers)
  BY LanguageServersAssumption, FS_Interval DEF Numbers
<1> QED
  BY <1>1, FS_Subset, FS_CardinalityType

LEMMA BegunFinite ==
    ASSUME NEW heads \in SUBSET Numbers, NEW begun \in SUBSET (heads \X (1 .. MaxRestarts))
    PROVE  /\ IsFiniteSet(begun) /\ Cardinality(begun) \in Nat
           /\ Cardinality(begun) <= Cardinality(heads) * MaxRestarts
<1>1. IsFiniteSet(heads) /\ IsFiniteSet(1 .. MaxRestarts) /\ Cardinality(1 .. MaxRestarts) = MaxRestarts
  <2>1. 1 \in Int /\ MaxRestarts \in Int /\ MaxRestarts \in Nat
    BY LanguageServersAssumption
  <2>2. IsFiniteSet(1 .. MaxRestarts) /\ Cardinality(1 .. MaxRestarts) = IF 1 > MaxRestarts THEN 0 ELSE MaxRestarts - 1 + 1
    BY <2>1, FS_Interval
  <2> QED
    BY <2>1, <2>2, ServersFinite
<1>2. /\ IsFiniteSet(heads \X (1 .. MaxRestarts))
      /\ Cardinality(heads \X (1 .. MaxRestarts)) = Cardinality(heads) * MaxRestarts
  BY <1>1, FS_Product
<1> QED
  BY <1>2, FS_Subset, FS_CardinalityType

\* One server more, or the same ones.
LEMMA AtMostOneMore ==
    ASSUME NEW some, IsFiniteSet(some), NEW other
    PROVE  Cardinality(some \cup {other}) <= Cardinality(some) + 1
<1>1. Cardinality(some) \in Nat
  BY FS_CardinalityType
<1>2. CASE other \in some
  <2>1. Cardinality(some \cup {other}) = Cardinality(some)
    <3>1. some \cup {other} = some
      BY <1>2
    <3> QED
      BY <3>1
  <2> QED
    BY <1>1, <2>1
<1>3. CASE other \notin some
  <2>1. Cardinality(some \cup {other}) = Cardinality(some) + 1
    BY <1>3, FS_AddElement
  <2> QED
    BY <1>1, <2>1
<1> QED
  BY <1>2, <1>3

\* The count of a server passes to the one that replaces it.
LEMMA CountPassesOn ==
    ASSUME LspTypeOK, LspTypeOK', LineageInv, NEW n \in Numbers, Initialized(n)
    PROVE  Cardinality(Begun) <= Cardinality(Begun')
<1>0. NoServer \notin Numbers /\ Heads \subseteq Objects /\ Objects \subseteq Numbers
  BY NoServerIsNoNumber DEF Heads, Objects
<1>1. /\ n \notin Objects /\ Heads' = (Heads \ {origin[n]}) \cup {n}
      /\ \A m \in Objects : object'[m] = object[m]
      /\ object'[n].restartCount = RestartCount(n)
  BY HeadReplaced
<1>f. IsFiniteSet(Begun) /\ IsFiniteSet(Begun') /\ Cardinality(Begun) \in Nat /\ Cardinality(Begun') \in Nat
  <2>1. Heads \subseteq Numbers /\ Heads' \subseteq Numbers
    BY <1>0, <1>1
  <2>2. Begun \subseteq Heads \X (1 .. MaxRestarts) /\ Begun' \subseteq Heads' \X (1 .. MaxRestarts)
    BY DEF Begun
  <2> QED
    BY <2>1, <2>2, BegunFinite
<1>2. CASE origin[n] = NoServer
  <2>1. Heads' = Heads \cup {n} /\ object'[n].restartCount = 0
    BY <1>0, <1>1, <1>2 DEF RestartCount
  <2>2. \A m \in Heads : object'[m] = object[m]
    BY <1>0, <1>1
  <2>3. Begun \subseteq Begun'
    BY <2>1, <2>2 DEF Begun
  <2> QED
    BY <1>f, <2>3, FS_Subset
<1>3. CASE origin[n] # NoServer
  <2> DEFINE old == origin[n]
             Successor == [t \in Begun |-> <<IF t[1] = old THEN n ELSE t[1], t[2]>>]
  <2>1. old \in Heads /\ old # n /\ object'[n].restartCount = object[old].restartCount /\ n \notin Heads
    BY <1>0, <1>1, <1>3 DEF LineageInv, Initialized, RestartCount
  <2>2. \A t \in Begun : t = <<t[1], t[2]>> /\ t[1] \in Heads /\ t[2] \in 1 .. MaxRestarts
                         /\ t[2] <= object[t[1]].restartCount
      BY DEF Begun
  <2>3. \A t \in Begun : Successor[t] \in Begun'
    <3> SUFFICES ASSUME NEW t \in Begun PROVE Successor[t] \in Begun'
      OBVIOUS
    <3>1. Successor[t] = <<IF t[1] = old THEN n ELSE t[1], t[2]>>
      OBVIOUS
    <3>2. CASE t[1] = old
      BY <1>1, <2>1, <2>2, <3>1, <3>2 DEF Begun
    <3>3. CASE t[1] # old
      BY <1>0, <1>1, <2>1, <2>2, <3>1, <3>3 DEF Begun
    <3> QED
      BY <3>2, <3>3
  <2>4. \A t, u \in Begun : Successor[t] = Successor[u] => t = u
    <3> SUFFICES ASSUME NEW t \in Begun, NEW u \in Begun, Successor[t] = Successor[u] PROVE t = u
      OBVIOUS
    <3>1. t[2] = u[2] /\ (IF t[1] = old THEN n ELSE t[1]) = (IF u[1] = old THEN n ELSE u[1])
      OBVIOUS
    <3>2. t[1] # n /\ u[1] # n
      BY <2>1, <2>2
    <3> QED
      BY <2>2, <3>1, <3>2
  <2> HIDE DEF Successor
  <2>5. Successor \in [Begun -> Begun']
    BY <2>3 DEF Successor
  <2>6. ~(Cardinality(Begun') < Cardinality(Begun))
    BY <1>f, <2>4, <2>5, FS_PigeonHole
  <2> QED
    BY <1>f, <2>6
<1> QED
  BY <1>2, <1>3

\* onExit counts a restart before its delay begins, restartServer hands the count on.
LEMMA RestartsAreCounted == LspSpec => []RestartsCounted
<1>1. LspInit => RestartsCounted
  <2> SUFFICES ASSUME LspInit PROVE RestartsCounted
    OBVIOUS
  <2>1. Restarted = {} /\ Heads = {} /\ Roots = {} /\ resolving = {} /\ delays = 0
    BY DEF LspInit, Restarted, Heads, Roots, Objects, Managed
  <2>2. Begun = {}
    BY <2>1 DEF Begun
  <2> QED
    BY <2>1, <2>2, FS_EmptySet DEF RestartsCounted
<1>2. LspTypeOK /\ LspTypeOK' /\ LineageInv /\ RestartsCounted /\ [LspNext]_lspVars => RestartsCounted'
  <2> SUFFICES ASSUME LspTypeOK, LspTypeOK', LineageInv, RestartsCounted, [LspNext]_lspVars
               PROVE RestartsCounted'
    OBVIOUS
  <2>h. Heads \subseteq Objects /\ Objects \subseteq Numbers /\ Roots \subseteq Numbers /\ NoServer \notin Numbers
        /\ Restarted \subseteq Numbers
    BY NoServerIsNoNumber DEF Heads, Objects, Roots, Restarted
  <2>p. Heads' \subseteq Numbers /\ Roots' \subseteq Numbers /\ Restarted' \subseteq Numbers
    BY DEF Heads, Objects, Roots, Restarted
  <2>t. /\ object \in [Numbers -> ManagedServers] /\ origin \in [Numbers -> Numbers \union {NoServer}]
        /\ resolving \in SUBSET Numbers /\ resolving' \in SUBSET Numbers /\ delays \in Nat /\ delays' \in Nat
        /\ MaxRestarts \in Nat
    BY LanguageServersAssumption DEF LspTypeOK
  <2>f. /\ IsFiniteSet(Restarted) /\ IsFiniteSet(resolving) /\ IsFiniteSet(Heads) /\ IsFiniteSet(Roots) /\ IsFiniteSet(Begun)
        /\ Cardinality(Restarted) \in Nat /\ Cardinality(resolving) \in Nat /\ Cardinality(Heads) \in Nat
        /\ Cardinality(Roots) \in Nat /\ Cardinality(Begun) \in Nat
    <3>1. Begun \in SUBSET (Heads \X (1 .. MaxRestarts))
      BY DEF Begun
    <3> QED
      BY <2>h, <2>t, <3>1, ServersFinite, BegunFinite
  <2>g. /\ IsFiniteSet(Restarted') /\ IsFiniteSet(resolving') /\ IsFiniteSet(Heads') /\ IsFiniteSet(Roots') /\ IsFiniteSet(Begun')
        /\ Cardinality(Restarted') \in Nat /\ Cardinality(resolving') \in Nat /\ Cardinality(Heads') \in Nat
        /\ Cardinality(Roots') \in Nat /\ Cardinality(Begun') \in Nat
    <3>1. Begun' \in SUBSET (Heads' \X (1 .. MaxRestarts))
      BY DEF Begun
    <3> QED
      BY <2>p, <2>t, <3>1, ServersFinite, BegunFinite
  <2>c. Cardinality(Restarted) + delays + Cardinality(resolving) <= Cardinality(Begun)
        /\ Cardinality(Heads) <= Cardinality(Roots)
    BY DEF RestartsCounted
  \* A step that counts nothing and replaces no server.
  <2>n. ASSUME Objects' = Objects, \A n \in Objects : origin'[n] = origin[n],
               \A n \in Objects : object'[n].restartCount = object[n].restartCount,
               Cardinality(Restarted') + delays' + Cardinality(resolving') <= Cardinality(Restarted) + delays + Cardinality(resolving)
        PROVE  RestartsCounted'
    <3>1. Heads' = Heads /\ Roots' = Roots /\ Begun' = Begun
      BY <2>n, SameLineage
    <3>2. Cardinality(Restarted') + delays' + Cardinality(resolving') <= Cardinality(Begun)
      BY <2>c, <2>f, <2>g, <2>n, <2>t
    <3> QED
      BY <2>c, <3>1, <3>2 DEF RestartsCounted
  <2>o. ASSUME UNCHANGED <<origin, object>>, delays' + Cardinality(resolving') <= delays + Cardinality(resolving)
        PROVE  RestartsCounted'
    <3>1. Objects' = Objects /\ Restarted' = Restarted
      BY <2>o DEF Objects, Restarted
    <3>2. Cardinality(Restarted') + delays' + Cardinality(resolving') <= Cardinality(Restarted) + delays + Cardinality(resolving)
      BY <2>f, <2>g, <2>o, <2>t, <3>1
    <3> QED
      BY <2>n, <2>o, <3>1, <3>2
  <2>u. ASSUME UNCHANGED <<origin, object, delays, resolving>> PROVE RestartsCounted'
    BY <2>f, <2>o, <2>t, <2>u
  <2>e. ASSUME NEW n \in Objects, NEW state \in ServerStates \ {"none"}, object' = [object EXCEPT ![n].state = state],
               UNCHANGED <<origin, delays, resolving>>
        PROVE  RestartsCounted'
    <3>1. /\ object'[n].state = state /\ object'[n].restartCount = object[n].restartCount
          /\ \A m \in Numbers \ {n} : object'[m] = object[m]
      BY <2>e, <2>h, <2>t DEF ManagedServers
    <3>2. Objects' = Objects /\ Restarted' = Restarted
      BY <2>e, <3>1 DEF Objects, Restarted
    <3> QED
      BY <2>e, <2>f, <2>h, <2>n, <2>t, <3>1, <3>2
  <2>r. ASSUME NEW n \in Numbers, phase[n] = "starting", Rejects(n), UNCHANGED <<origin, delays, resolving>>
        PROVE  RestartsCounted'
    <3>1. CASE origin[n] = NoServer
      BY <2>r, <2>u, <3>1 DEF Rejects
    <3>2. CASE origin[n] # NoServer
      <4>1. origin[n] \in Objects /\ "crash_loop" \in ServerStates \ {"none"}
        BY <3>2 DEF LineageInv, ServerStates
      <4>2. object' = [object EXCEPT ![origin[n]].state = "crash_loop"]
        BY <2>r, <3>2 DEF Rejects
      <4> QED
        BY <2>e, <2>r, <4>1, <4>2
    <3> QED
      BY <3>1, <3>2
  <2>s. ASSUME NEW n \in Numbers, NEW old \in Numbers \cup {NoServer}, SpawnServer(n, old)
        PROVE  /\ \A m \in Objects : origin'[m] = origin[m]
               /\ Restarted' = IF old = NoServer THEN Restarted ELSE Restarted \cup {n}
    <3>1. origin' = [origin EXCEPT ![n] = old] /\ phase[n] = "none" /\ origin[n] = NoServer
      BY <2>s DEF SpawnServer, Unused, LineageInv
    <3>2. n \notin Objects
      BY <3>1 DEF LineageInv
    <3> QED
      BY <2>h, <2>t, <3>1, <3>2 DEF Restarted
  <2>1. ASSUME NEW n \in Numbers, GetServer(n) PROVE RestartsCounted'
    <3>1. SpawnServer(n, NoServer) /\ UNCHANGED <<object, delays, resolving>>
      BY <2>1 DEF GetServer
    <3>2. Objects' = Objects
      BY <3>1 DEF Objects
    <3>3. Restarted' = Restarted /\ \A m \in Objects : origin'[m] = origin[m]
      BY <2>s, <3>1
    <3> QED
      BY <2>f, <2>n, <2>t, <3>1, <3>2, <3>3
  <2>2. ASSUME NEW n \in Numbers, Answers(n) PROVE RestartsCounted'
    BY <2>2, <2>u DEF Answers
  <2>3. ASSUME NEW n \in Numbers, Initialized(n) PROVE RestartsCounted'
    <3>1. Cardinality(Begun) <= Cardinality(Begun')
      BY <2>3, CountPassesOn
    <3>2. /\ n \notin Objects /\ Heads' = (Heads \ {origin[n]}) \cup {n}
          /\ Roots' = IF origin[n] = NoServer THEN Roots \cup {n} ELSE Roots
      BY <2>3, HeadReplaced
    <3>3. UNCHANGED <<origin, delays, resolving>> /\ phase[n] = "starting"
      BY <2>3 DEF Initialized
    <3>4. Restarted' = Restarted
      BY <3>3 DEF Restarted
    <3>5. n \notin Heads /\ n \notin Roots
      BY <3>2 DEF Heads, Roots
    <3>6. Cardinality(Heads') <= Cardinality(Roots')
      <4>1. CASE origin[n] = NoServer
        <5>1. Heads' = Heads \cup {n} /\ Roots' = Roots \cup {n}
          BY <2>h, <3>2, <4>1
        <5>2. Cardinality(Heads') = Cardinality(Heads) + 1 /\ Cardinality(Roots') = Cardinality(Roots) + 1
          BY <2>f, <3>5, <5>1, FS_AddElement
        <5> QED
          BY <2>c, <2>f, <5>2
      <4>2. CASE origin[n] # NoServer
        <5> DEFINE rest == Heads \ {origin[n]}
        <5>1. origin[n] \in Heads
          BY <3>3, <4>2 DEF LineageInv
        <5>2. IsFiniteSet(rest) /\ Cardinality(rest) = Cardinality(Heads) - 1
          BY <2>f, <5>1, FS_RemoveElement
        <5>3. Cardinality(rest \cup {n}) = Cardinality(rest) + 1
          BY <3>5, <5>2, FS_AddElement
        <5> QED
          BY <2>c, <2>f, <3>2, <4>2, <5>2, <5>3
      <4> QED
        BY <4>1, <4>2
    <3> QED
      BY <2>c, <2>f, <2>g, <2>t, <3>1, <3>3, <3>4, <3>6 DEF RestartsCounted
  <2>4. ASSUME NEW n \in Numbers, InitializedLate(n) PROVE RestartsCounted'
    BY <2>4, <2>u DEF InitializedLate
  <2>5. ASSUME NEW n \in Numbers, StartupTimesOut(n) PROVE RestartsCounted'
    BY <2>5, <2>r DEF StartupTimesOut
  <2>6. ASSUME NEW n \in Numbers, StartupFails(n) PROVE RestartsCounted'
    BY <2>6, <2>r DEF StartupFails
  <2>7. ASSUME NEW n \in Numbers, Ends(n) PROVE RestartsCounted'
    BY <2>7, <2>u DEF Ends
  <2>8. ASSUME NEW n \in Numbers, NEW code \in {"zero", "positive", "signal"}, ExitEvent(n, code)
        PROVE RestartsCounted'
    <3>1. UNCHANGED <<origin, servers, resolving>>
      BY <2>8 DEF ExitEvent
    <3>2. CASE UNCHANGED <<object, delays>>
      BY <2>u, <3>1, <3>2
    <3>3. CASE ~UNCHANGED <<object, delays>>
      <4> DEFINE count == object[servers].restartCount
                 again == Crashed(code) /\ count < MaxRestarts
                 state == IF ~again /\ count >= MaxRestarts THEN "crash_loop" ELSE "degraded"
                 new == [state |-> state, lastError |-> IF code = "zero" THEN "clean" ELSE "crash",
                         restartCount |-> IF again THEN count + 1 ELSE count]
      <4>1. /\ State(servers) \notin {"none", "stopped"} /\ object' = [object EXCEPT ![servers] = new]
            /\ delays' = IF again THEN delays + 1 ELSE delays
        BY <2>8, <3>3 DEF ExitEvent, OnExit
      <4>2. servers \in Heads /\ count \in Nat /\ servers \in Numbers
        <5>1. servers # NoServer
          BY <4>1 DEF State
        <5>2. servers \in Heads
          BY <5>1 DEF LineageInv
        <5> QED
          BY <2>h, <2>t, <5>2 DEF ManagedServers
      <4>3. object'[servers] = new /\ \A m \in Numbers \ {servers} : object'[m] = object[m]
        BY <2>t, <4>1, <4>2
      <4>4. state # "none" /\ new.state = state /\ new.restartCount = IF again THEN count + 1 ELSE count
        OBVIOUS
      <4> HIDE DEF new, state
      <4>5. Objects' = Objects /\ Restarted' = Restarted
        BY <2>h, <3>1, <4>2, <4>3, <4>4 DEF Objects, Restarted
      <4>6. CASE ~again
        BY <2>f, <2>h, <2>n, <2>t, <3>1, <4>1, <4>2, <4>3, <4>4, <4>5, <4>6
      <4>7. CASE again
        <5>1. Heads' = Heads /\ Roots' = Roots
          BY <3>1, <4>5 DEF Heads, Roots
        <5>2. count + 1 \in 1 .. MaxRestarts /\ object'[servers].restartCount = count + 1
          BY <2>t, <4>2, <4>3, <4>4, <4>7
        <5>3. Begun \cup {<<servers, count + 1>>} \subseteq Begun'
          <6>1. <<servers, count + 1>> \in Begun'
            BY <4>2, <5>1, <5>2 DEF Begun
          <6>2. ASSUME NEW t \in Begun PROVE t \in Begun'
            <7>1. t \in Heads \X (1 .. MaxRestarts) /\ t[2] <= object[t[1]].restartCount
              BY DEF Begun
            <7>2. CASE t[1] = servers
              <8>1. t[2] \in Int /\ t[2] <= count
                BY <7>1, <7>2
              <8>2. t[2] <= count + 1
                BY <4>2, <8>1
              <8> QED
                BY <5>1, <5>2, <7>1, <7>2, <8>2 DEF Begun
            <7>3. CASE t[1] # servers
              <8>1. object'[t[1]] = object[t[1]]
                BY <2>h, <4>3, <7>1, <7>3
              <8> QED
                BY <5>1, <7>1, <8>1 DEF Begun
            <7> QED
              BY <7>2, <7>3
          <6> QED
            BY <6>1, <6>2
        <5>4. <<servers, count + 1>> \notin Begun
          <6>1. ~(count + 1 <= count)
            BY <4>2
          <6> QED
            BY <6>1 DEF Begun
        <5>5. Cardinality(Begun \cup {<<servers, count + 1>>}) = Cardinality(Begun) + 1
          BY <2>f, <5>4, FS_AddElement
        <5>6. Cardinality(Begun) + 1 <= Cardinality(Begun')
          BY <2>g, <5>3, <5>5, FS_Subset
        <5>7. delays' = delays + 1
          BY <4>1, <4>7
        <5> QED
          BY <2>c, <2>f, <2>g, <2>t, <3>1, <4>5, <5>1, <5>6, <5>7 DEF RestartsCounted
      <4> QED
        BY <4>6, <4>7
    <3> QED
      BY <3>2, <3>3
  <2>9. ASSUME NEW n \in Numbers, RestartResolves(n) PROVE RestartsCounted'
    <3>0. n \in resolving /\ resolving' = resolving \ {n} /\ UNCHANGED <<object, delays>>
      BY <2>9 DEF RestartResolves
    <3>1. Cardinality(resolving') = Cardinality(resolving) - 1
      BY <2>f, <3>0, FS_RemoveElement
    <3>2. CASE UNCHANGED origin
      BY <2>f, <2>g, <2>o, <2>t, <3>0, <3>1, <3>2
    <3>3. ASSUME NEW m \in Numbers, SpawnServer(m, n) PROVE RestartsCounted'
      <4>1. (\A k \in Objects : origin'[k] = origin[k]) /\ Restarted' = Restarted \cup {m}
        BY <2>h, <2>s, <3>3
      <4>2. Objects' = Objects
        BY <3>0 DEF Objects
      <4>3. Cardinality(Restarted') <= Cardinality(Restarted) + 1
        BY <2>f, <4>1, AtMostOneMore
      <4> QED
        BY <2>f, <2>g, <2>n, <2>t, <3>0, <3>1, <4>1, <4>2, <4>3
    <3> QED
      BY <2>9, <3>2, <3>3 DEF RestartResolves
  <2>10. CASE RestartBegins
    <3>1. UNCHANGED <<origin, object>> /\ delays' = delays - 1 /\ delays > 0
          /\ resolving' \in {resolving, resolving \cup {servers}}
      BY <2>10 DEF RestartBegins
    <3>2. Cardinality(resolving') <= Cardinality(resolving) + 1
      <4>1. CASE resolving' = resolving
        BY <2>f, <4>1
      <4>2. CASE resolving' = resolving \cup {servers}
        BY <2>f, <4>2, AtMostOneMore
      <4> QED
        BY <3>1, <4>1, <4>2
    <3> QED
      BY <2>f, <2>g, <2>o, <2>t, <3>1, <3>2
  <2>11. CASE ShutdownAll
    <3>1. servers \in Objects /\ "stopped" \in ServerStates \ {"none"}
      BY <2>11, <2>h DEF ShutdownAll, State, LineageInv, ServerStates
    <3> QED
      BY <2>11, <2>e, <3>1 DEF ShutdownAll
  <2>12. CASE ShutdownEnds
    BY <2>12, <2>u DEF ShutdownEnds
  <2>13. CASE UNCHANGED lspVars
    BY <2>13, <2>u DEF lspVars
  <2> QED
    BY <2>1, <2>2, <2>3, <2>4, <2>5, <2>6, <2>7, <2>8, <2>9, <2>10, <2>11, <2>12, <2>13 DEF LspNext
<1> QED
  BY <1>1, <1>2, LspTyped, Lineage, PTL DEF LspSpec

\* restartCount and maxRestarts: however starts, restarts, exits and shutdowns overlap, no
\* more servers are started on their own than maxRestarts for each that was asked for.
THEOREM RestartsAreBounded == LspSpec => []RestartsBounded
<1>1. LspTypeOK /\ LineageInv /\ RestartsCounted => RestartsBounded
  <2> SUFFICES ASSUME LspTypeOK, LineageInv, RestartsCounted PROVE RestartsBounded
    OBVIOUS
  <2> DEFINE asked == {n \in Numbers : proc[n] # "none" /\ origin[n] = NoServer}
  <2>1. Roots \subseteq asked /\ asked \subseteq Numbers /\ Heads \subseteq Numbers /\ Restarted \subseteq Numbers
        /\ Roots \subseteq Numbers /\ Begun \subseteq Heads \X (1 .. MaxRestarts) /\ resolving \subseteq Numbers
    BY DEF Roots, Objects, Heads, Restarted, Begun, LineageInv, LspTypeOK
  <2> HIDE DEF asked
  <2>2. /\ IsFiniteSet(asked) /\ Cardinality(asked) \in Nat /\ Cardinality(Roots) \in Nat
        /\ Cardinality(Heads) \in Nat /\ Cardinality(Restarted) \in Nat /\ Cardinality(resolving) \in Nat
    BY <2>1, ServersFinite
  <2>0. Cardinality(Roots) <= Cardinality(asked) /\ Cardinality(Begun) \in Nat
    BY <2>1, <2>2, FS_Subset, BegunFinite
  <2>3. Cardinality(Begun) <= Cardinality(Heads) * MaxRestarts
    BY <2>1, BegunFinite
  <2>4. Cardinality(Heads) <= Cardinality(asked)
    BY <2>0, <2>2 DEF RestartsCounted
  <2>5. Cardinality(Restarted) <= Cardinality(Begun)
    <3>1. delays \in Nat /\ Cardinality(Restarted) + delays + Cardinality(resolving) <= Cardinality(Begun)
      BY DEF RestartsCounted, LspTypeOK
    <3> QED
      BY <2>0, <2>2, <3>1
  <2>6. \A a, b, m \in Nat : a <= b => a * m <= m * b
    OBVIOUS
  <2>7. Cardinality(Restarted) <= MaxRestarts * Cardinality(asked)
    <3>1. MaxRestarts \in Nat
      BY LanguageServersAssumption
    <3>2. Cardinality(Heads) * MaxRestarts <= MaxRestarts * Cardinality(asked)
      BY <2>2, <2>4, <2>6, <3>1
    <3> QED
      BY <2>0, <2>2, <2>3, <2>5, <3>1, <3>2
  <2> QED
    BY <2>7 DEF RestartsBounded, asked, Restarted
<1> QED
  BY <1>1, LspTyped, Lineage, RestartsAreCounted, PTL

-----------------------------------------------------------------------------
(* AuthStorage: the credentials                                             *)


AllCredentials == [token : Nat, key : Keys \cup {NoKey}]
CallPlaces == {"down", "creating", "loading", "idle", "waiting", "refreshing", "refreshed", "writing", "failed",
               "releasing", "givingUp"}

\* The type invariant.
AuthTypeOK ==
    /\ file \in AllCredentials \cup {Torn, Absent}
    /\ lock \in Processes \cup {Free, Orphaned}
    /\ at \in [Processes -> CallPlaces]
    /\ data \in [Processes -> AllCredentials]
    /\ snapshot \in [Processes -> AllCredentials]
    /\ persisting \in [Processes -> AllCredentials \cup {Nothing}]
    /\ issued \in Nat
    /\ written \in Keys \cup {NoKey}

\* A record of credentials is neither the torn file nor the absent one (auth-storage.ts
\* parses the file or fails).
LEMMA Distinct == Torn # Absent /\ \A c \in AllCredentials : c # Torn /\ c # Absent /\ c # Nothing
<1>1. DOMAIN Torn = {"torn"} /\ DOMAIN Absent = {"absent"} /\ DOMAIN Nothing = {"nothing"}
  BY DEF Torn, Absent, Nothing
<1>2. \A c \in AllCredentials : DOMAIN c = {"token", "key"}
  BY DEF AllCredentials
<1>3. "torn" # "absent" /\ "token" \notin {"torn", "absent", "nothing"}
  OBVIOUS
<1>4. Torn # Absent
  BY <1>1, <1>3
<1>5. ASSUME NEW c \in AllCredentials PROVE c # Torn /\ c # Absent /\ c # Nothing
  BY <1>1, <1>2, <1>3
<1> QED
  BY <1>4, <1>5

\* A change of one provider's token leaves the other credential alone.
LEMMA ChangesToken ==
    ASSUME NEW c \in AllCredentials, NEW t \in Nat
    PROVE  [c EXCEPT !.token = t] \in AllCredentials /\ [c EXCEPT !.token = t].key = c.key
           /\ [c EXCEPT !.token = t].token = t
BY DEF AllCredentials

\* set() of the other provider leaves the token alone.
LEMMA ChangesKey ==
    ASSUME NEW c \in AllCredentials, NEW k \in Keys \cup {NoKey}
    PROVE  [c EXCEPT !.key = k] \in AllCredentials /\ [c EXCEPT !.key = k].token = c.token
           /\ [c EXCEPT !.key = k].key = k
BY DEF AllCredentials

\* The values of the file, of the lock and of what each process holds.
LEMMA AuthTyped == AuthSpec => []AuthTypeOK
<1>0. /\ NoCredentials \in AllCredentials /\ Credentials(1, NoKey) \in AllCredentials
      /\ Truncated \in AllCredentials
  BY DEF NoCredentials, Credentials, AllCredentials, NoToken, Truncated
<1>1. AuthInit => AuthTypeOK
  BY <1>0 DEF AuthInit, AuthTypeOK, CallPlaces
<1>2. AuthTypeOK /\ [AuthNext]_authVars => AuthTypeOK'
  <2> SUFFICES ASSUME AuthTypeOK, [AuthNext]_authVars PROVE AuthTypeOK'
    OBVIOUS
  <2>r. Readable => file \in AllCredentials
    BY DEF Readable, AuthTypeOK
  <2>d. ASSUME NEW p \in Processes, NEW c \in AllCredentials
        PROVE  [data EXCEPT ![p] = c] \in [Processes -> AllCredentials]
    BY DEF AuthTypeOK
  <2>s. ASSUME NEW p \in Processes, NEW c \in AllCredentials
        PROVE  [snapshot EXCEPT ![p] = c] \in [Processes -> AllCredentials]
    BY DEF AuthTypeOK
  <2>a. ASSUME NEW p \in Processes, NEW place \in CallPlaces
        PROVE  [at EXCEPT ![p] = place] \in [Processes -> CallPlaces]
    BY DEF AuthTypeOK
  <2>w. ASSUME NEW p \in Processes, NEW c \in AllCredentials \cup {Nothing}
        PROVE  [persisting EXCEPT ![p] = c] \in [Processes -> AllCredentials \cup {Nothing}]
    BY DEF AuthTypeOK
  <2>l. ASSUME NEW p \in Processes, Reload(p) PROVE data' \in [Processes -> AllCredentials]
    BY <2>l, <2>r, <2>d DEF Reload, AuthTypeOK
  <2>f. ASSUME NEW p \in Processes PROVE Released(p) \in Processes \cup {Free, Orphaned}
    BY DEF Released, AuthTypeOK
  <2>p. ASSUME NEW p \in Processes, NEW new, Readable => new \in AllCredentials, Persist(p, new)
        PROVE  /\ file' \in AllCredentials \cup {Torn, Absent} /\ lock' \in Processes \cup {Free, Orphaned}
               /\ persisting' \in [Processes -> AllCredentials \cup {Nothing}]
    <3>1. CASE CanPersist(p)
      BY <2>p, <2>w, <3>1, <1>0 DEF Persist, CanPersist
    <3>2. CASE ~CanPersist(p)
      BY <2>p, <3>2 DEF Persist, AuthTypeOK
    <3> QED
      BY <3>1, <3>2
  <2>1. ASSUME NEW p \in Processes, Start(p) PROVE AuthTypeOK'
    BY <2>1, <2>a DEF AuthTypeOK, Start, provider, history, CallPlaces
  <2>2. ASSUME NEW p \in Processes, CreateFile(p) PROVE AuthTypeOK'
    BY <2>2, <2>a, <1>0 DEF AuthTypeOK, CreateFile, provider, CallPlaces
  <2>3. ASSUME NEW p \in Processes, Load(p) PROVE AuthTypeOK'
    BY <2>3, <2>a, <2>l DEF AuthTypeOK, Load, provider, history, CallPlaces
  <2>4. ASSUME NEW p \in Processes, RefreshWithLock(p) PROVE AuthTypeOK'
    <3>1. file \in AllCredentials
      BY <2>4, <2>r DEF RefreshWithLock
    <3>2. data' \in [Processes -> AllCredentials] /\ snapshot' \in [Processes -> AllCredentials]
      BY <2>4, <2>d, <2>s, <3>1 DEF RefreshWithLock, AuthTypeOK
    <3>3. at' \in [Processes -> CallPlaces] /\ lock' \in Processes \cup {Free, Orphaned}
      BY <2>4, <2>a DEF RefreshWithLock, CallPlaces, AuthTypeOK
    <3> QED
      BY <2>4, <3>2, <3>3 DEF AuthTypeOK, RefreshWithLock, provider, history
  <2>5. ASSUME NEW p \in Processes, ParseFails(p) PROVE AuthTypeOK'
    BY <2>5, <2>a DEF AuthTypeOK, ParseFails, provider, history, CallPlaces
  <2>6. ASSUME NEW p \in Processes, LockFails(p) PROVE AuthTypeOK'
    BY <2>6, <2>a DEF AuthTypeOK, LockFails, provider, history, CallPlaces
  <2>7. ASSUME NEW p \in Processes, TokenRefreshed(p) PROVE AuthTypeOK'
    <3>1. issued' \in Nat
      BY <2>7 DEF AuthTypeOK, TokenRefreshed
    <3>2. [data[p] EXCEPT !.token = issued'] \in AllCredentials
      BY <3>1, ChangesToken DEF AuthTypeOK
    <3>3. data' \in [Processes -> AllCredentials]
      BY <2>7, <2>d, <3>2 DEF TokenRefreshed
    <3>4. at' \in [Processes -> CallPlaces]
      BY <2>7, <2>a DEF TokenRefreshed, CallPlaces
    <3> QED
      BY <2>7, <3>1, <3>3, <3>4 DEF AuthTypeOK, TokenRefreshed, history
  <2>8. ASSUME NEW p \in Processes, RefreshFails(p) PROVE AuthTypeOK'
    BY <2>8, <2>a DEF AuthTypeOK, RefreshFails, CallPlaces
  <2>9. ASSUME NEW p \in Processes, LockCompromised(p) PROVE AuthTypeOK'
    BY <2>9, <2>a DEF AuthTypeOK, LockCompromised, provider, history, CallPlaces
  <2>10. ASSUME NEW p \in Processes, BeginWrite(p) PROVE AuthTypeOK'
    <3>1. data[p].key \in Keys \cup {NoKey}
      BY DEF AuthTypeOK, AllCredentials
    <3> QED
      BY <2>10, <2>a, <1>0, <3>1 DEF AuthTypeOK, BeginWrite, provider, CallPlaces
  <2>11. ASSUME NEW p \in Processes, EndWrite(p) PROVE AuthTypeOK'
    BY <2>11, <2>a DEF AuthTypeOK, EndWrite, provider, history, CallPlaces
  <2>12. ASSUME NEW p \in Processes, Release(p) PROVE AuthTypeOK'
    BY <2>12, <2>a, <2>s, <2>f, <1>0 DEF AuthTypeOK, Release, provider, history, CallPlaces
  <2>13. ASSUME NEW p \in Processes, Recheck(p) PROVE AuthTypeOK'
    BY <2>13, <2>a, <2>l DEF AuthTypeOK, Recheck, Return, provider, history, CallPlaces
  <2>14. ASSUME NEW p \in Processes, GetApiKey(p) PROVE AuthTypeOK'
    BY <2>14, <2>a DEF AuthTypeOK, GetApiKey, Return, provider, history, CallPlaces
  <2>15. ASSUME NEW p \in Processes, Login(p) PROVE AuthTypeOK'
    <3>1. issued' \in Nat
      BY <2>15 DEF AuthTypeOK, Login
    <3>2. [data[p] EXCEPT !.token = issued'] \in AllCredentials
      BY <3>1, ChangesToken DEF AuthTypeOK
    <3>3. data' \in [Processes -> AllCredentials]
      BY <2>15, <2>d, <3>2 DEF Login
    <3>4. Readable => [file EXCEPT !.token = issued'] \in AllCredentials
      BY <2>r, <3>1, ChangesToken
    <3>5. Persist(p, [file EXCEPT !.token = issued'])
      BY <2>15 DEF Login
    <3>6. /\ file' \in AllCredentials \cup {Torn, Absent} /\ lock' \in Processes \cup {Free, Orphaned}
          /\ persisting' \in [Processes -> AllCredentials \cup {Nothing}]
      BY <2>p, <3>4, <3>5
    <3> QED
      BY <2>15, <3>1, <3>3, <3>6 DEF AuthTypeOK, Login, history
  <2>16. ASSUME NEW p \in Processes, Logout(p) PROVE AuthTypeOK'
    <3>0. NoToken \in Nat
      BY DEF NoToken
    <3>2. [data[p] EXCEPT !.token = NoToken] \in AllCredentials
      BY <3>0, ChangesToken DEF AuthTypeOK
    <3>3. data' \in [Processes -> AllCredentials]
      BY <2>16, <2>d, <3>2 DEF Logout
    <3>4. Readable => [file EXCEPT !.token = NoToken] \in AllCredentials
      BY <2>r, <3>0, ChangesToken
    <3>5. Persist(p, [file EXCEPT !.token = NoToken])
      BY <2>16 DEF Logout
    <3>6. /\ file' \in AllCredentials \cup {Torn, Absent} /\ lock' \in Processes \cup {Free, Orphaned}
          /\ persisting' \in [Processes -> AllCredentials \cup {Nothing}]
      BY <2>p, <3>4, <3>5
    <3> QED
      BY <2>16, <3>3, <3>6 DEF AuthTypeOK, Logout, provider, history
  <2>17. ASSUME NEW p \in Processes, NEW key \in Keys, SetKey(p, key) PROVE AuthTypeOK'
    <3>2. [data[p] EXCEPT !.key = key] \in AllCredentials
      BY ChangesKey DEF AuthTypeOK
    <3>3. data' \in [Processes -> AllCredentials]
      BY <2>17, <2>d, <3>2 DEF SetKey
    <3>4. Readable => [file EXCEPT !.key = key] \in AllCredentials
      BY <2>r, ChangesKey
    <3>5. Persist(p, [file EXCEPT !.key = key])
      BY <2>17 DEF SetKey
    <3>6. /\ file' \in AllCredentials \cup {Torn, Absent} /\ lock' \in Processes \cup {Free, Orphaned}
          /\ persisting' \in [Processes -> AllCredentials \cup {Nothing}]
      BY <2>p, <3>4, <3>5
    <3> QED
      BY <2>17, <3>3, <3>6 DEF AuthTypeOK, SetKey, provider
  <2>18. ASSUME NEW p \in Processes, EndPersist(p) PROVE AuthTypeOK'
    <3>1. file' \in AllCredentials
      BY <2>18 DEF EndPersist, Persisting, AuthTypeOK
    <3> QED
      BY <2>18, <2>w, <2>f, <3>1 DEF AuthTypeOK, EndPersist, process, provider, history
  <2>19. ASSUME NEW p \in Processes, WriteFails(p) PROVE AuthTypeOK'
    BY <2>19, <2>a, <2>w, <2>f DEF AuthTypeOK, WriteFails, provider, CallPlaces
  <2>20. ASSUME NEW p \in Processes, Dies(p)
         PROVE  /\ at' \in [Processes -> CallPlaces] /\ data' \in [Processes -> AllCredentials]
                /\ snapshot' \in [Processes -> AllCredentials]
                /\ persisting' \in [Processes -> AllCredentials \cup {Nothing}]
    BY <2>20, <2>a, <2>d, <2>s, <2>w, <1>0 DEF Dies, CallPlaces
  <2>21. ASSUME NEW p \in Processes, Crash(p) PROVE AuthTypeOK'
    BY <2>21, <2>20 DEF AuthTypeOK, Crash, provider
  <2>22. ASSUME NEW p \in Processes, DiesBeforeUnlock(p) PROVE AuthTypeOK'
    <3>1. file' \in AllCredentials
      BY <2>22 DEF DiesBeforeUnlock, Persisting, AuthTypeOK
    <3> QED
      BY <2>22, <2>20, <3>1 DEF AuthTypeOK, DiesBeforeUnlock, provider
  <2>23. CASE Expire
    BY <2>23 DEF AuthTypeOK, Expire, process, history
  <2>24. CASE LockGetsStale
    BY <2>24 DEF AuthTypeOK, LockGetsStale, process, provider, history
  <2>25. CASE LockTaken
    BY <2>25 DEF AuthTypeOK, LockTaken, process, provider
  <2>26. CASE UNCHANGED authVars
    BY <2>26 DEF AuthTypeOK, authVars, process, provider, history
  <2> QED
    BY <2>1, <2>2, <2>3, <2>4, <2>5, <2>6, <2>7, <2>8, <2>9, <2>10, <2>11, <2>12, <2>13, <2>14, <2>15,
       <2>16, <2>17, <2>18, <2>19, <2>21, <2>22, <2>23, <2>24, <2>25, <2>26 DEF AuthNext, Progress
<1> QED
  BY <1>1, <1>2, PTL DEF AuthSpec

-----------------------------------------------------------------------------
(* The lock                                                                *)

\* Where withLockAsync holds the lock: until release() has returned.
Holding == {"refreshing", "refreshed", "writing", "releasing", "givingUp"}

\* Unless a lock was lost, the process that refreshes or writes is the one that holds it;
\* withLock gets no lock that its own process holds.
HolderInv ==
    "lockLost" \notin faults =>
        \A p \in Processes : /\ (at[p] \in Holding \/ Persisting(p)) <=> lock = p
                             /\ Persisting(p) => at[p] \notin Holding

\* withLock does not await anything: while it writes, the process is where it called it.
CallerInv == \A p \in Processes : Persisting(p) => at[p] \in Awaiting

\* Unless a lock was lost, the file has no valid token while somebody holds the lock:
\* it was taken because there was none, and nobody else writes.  The holder has found or
\* stored one only when it is about to release the lock.
LockedInv ==
    /\ expired \in Nat
    /\ \A p \in Processes :
          ("lockLost" \notin faults /\ lock = p /\ at[p] # "releasing") => ~(Readable /\ Valid(file.token))

LockInv == HolderInv /\ CallerInv /\ LockedInv

\* The values of a lock that nobody holds.
LEMMA NotProcesses == Free \notin Processes /\ Orphaned \notin Processes /\ Free # Orphaned
BY AuthAssumption DEF Free, Orphaned

\* A lock that is given up is free, unless it belongs to somebody else by now.
LEMMA Releasing ==
    ASSUME NEW p \in Processes
    PROVE  (lock = p => Released(p) = Free) /\ (lock # p => Released(p) = lock)
BY DEF Released

\* What a process that dies leaves: it is nowhere and writes nothing.
LEMMA Dying ==
    ASSUME AuthTypeOK, NEW p \in Processes, Dies(p)
    PROVE  /\ at'[p] = "down" /\ ~Persisting(p)'
           /\ snapshot'[p] = NoCredentials /\ data'[p] = NoCredentials
           /\ \A q \in Processes \ {p} : /\ at'[q] = at[q] /\ data'[q] = data[q] /\ snapshot'[q] = snapshot[q]
                                         /\ persisting'[q] = persisting[q]
BY DEF AuthTypeOK, Dies, Persisting

\* What withLock does before the new content is in the file, if it writes at all.
LEMMA PersistBegins ==
    ASSUME AuthTypeOK, NEW p \in Processes, NEW new, Readable => new \in AllCredentials, Persist(p, new)
    PROVE  \/ /\ lock = Free /\ Readable /\ lock' = p /\ file' = Truncated
              /\ persisting'[p] = new /\ Persisting(p)'
              /\ \A q \in Processes \ {p} : persisting'[q] = persisting[q]
           \/ UNCHANGED <<lock, file, persisting>>
<1>1. CASE CanPersist(p)
  <2>1. lock = Free /\ Readable /\ new # Nothing
    BY <1>1, Distinct DEF CanPersist
  <2>2. persisting'[p] = new /\ \A q \in Processes \ {p} : persisting'[q] = persisting[q]
    BY <1>1 DEF Persist, AuthTypeOK
  <2> QED
    BY <1>1, <2>1, <2>2 DEF Persist, Persisting
<1>2. CASE ~CanPersist(p)
  BY <1>2 DEF Persist
<1> QED
  BY <1>1, <1>2

\* A file that was truncated holds no token.
LEMMA NothingValid == Truncated.token = 0 /\ Truncated.key = NoKey /\ NoToken = 0 /\ ~Valid(Truncated.token)
                      /\ ~Valid(NoCredentials.token) /\ NoCredentials.token = 0 /\ NoCredentials.key = NoKey
BY DEF Truncated, NoCredentials, Credentials, Valid, NoToken

\* refreshOAuthTokenWithLock keeps the lock from reading the file until release().
LEMMA LockHeld == AuthSpec => []LockInv
<1>1. AuthInit => LockInv
  BY NotProcesses DEF AuthInit, LockInv, HolderInv, CallerInv, LockedInv, Holding, Persisting
<1>2. AuthTypeOK /\ LockInv /\ [AuthNext]_authVars => LockInv'
  <2> SUFFICES ASSUME AuthTypeOK, LockInv, [AuthNext]_authVars PROVE LockInv'
    OBVIOUS
  <2>t. /\ at \in [Processes -> CallPlaces] /\ lock \in Processes \cup {Free, Orphaned} /\ issued \in Nat
        /\ persisting \in [Processes -> AllCredentials \cup {Nothing}]
    BY DEF AuthTypeOK
  <2>r. Readable => file \in AllCredentials
    BY DEF AuthTypeOK, Readable
  \* A step that leaves the file, the lock and who holds it alone.
  <2>q. ASSUME UNCHANGED <<file, lock, persisting, expired>>, faults \subseteq faults',
               \A p \in Processes : at'[p] = at[p] \/ (at[p] \in Awaiting \ Holding /\ at'[p] \in Awaiting \ Holding)
                                    \/ (~Persisting(p) /\ at[p] \notin Holding /\ at'[p] \notin Holding)
        PROVE  LockInv'
    <3>1. HolderInv'
      BY <2>q DEF LockInv, HolderInv, Persisting
    <3>2. CallerInv'
      BY <2>q DEF LockInv, CallerInv, Persisting
    <3>3. LockedInv'
      <4>1. \A p \in Processes : "lockLost" \notin faults /\ lock = p /\ at'[p] # "releasing" => at[p] # "releasing"
        BY <2>q DEF LockInv, HolderInv, Holding
      <4> QED
        BY <2>q, <4>1 DEF LockInv, LockedInv, Readable, Valid
    <3> QED
      BY <3>1, <3>2, <3>3 DEF LockInv
  \* A call that changes credentials, and writes the file or not.
  <2>p. ASSUME NEW p \in Processes, NEW new, Readable => new \in AllCredentials, Persist(p, new),
               at[p] \in Awaiting, ~Persisting(p), at' = at, faults' = faults, expired' = expired
        PROVE  LockInv'
    <3>1. CASE UNCHANGED <<lock, file, persisting>>
      BY <2>p, <3>1, <2>q
    <3>2. CASE lock = Free /\ lock' = p /\ file' = Truncated /\ Persisting(p)'
               /\ \A q \in Processes \ {p} : persisting'[q] = persisting[q]
      <4>1. HolderInv'
        BY <2>p, <3>2, NotProcesses DEF LockInv, HolderInv, Persisting
      <4>2. CallerInv'
        BY <2>p, <3>2 DEF LockInv, CallerInv, Persisting
      <4>3. LockedInv'
        BY <2>p, <3>2, NothingValid DEF LockInv, LockedInv, Readable, Valid
      <4> QED
        BY <4>1, <4>2, <4>3 DEF LockInv
    <3> QED
      BY <2>p, <3>1, <3>2, PersistBegins
  \* The process p gives up the lock, or leaves it behind.
  <2>u. ASSUME NEW p \in Processes, lock' \in {Free, Orphaned} \/ (lock' = lock /\ lock # p),
               at'[p] \in Holding => "lockLost" \in faults,
               ~Persisting(p)', expired' = expired, faults \subseteq faults',
               \A q \in Processes \ {p} : at'[q] = at[q] /\ persisting'[q] = persisting[q],
               lock \in Processes /\ lock # p => lock' = lock /\ ("lockLost" \notin faults => file' = file)
        PROVE  LockInv'
    <3>1. HolderInv'
      BY <2>u, NotProcesses, <2>t DEF LockInv, HolderInv, Persisting
    <3>2. CallerInv'
      BY <2>u DEF LockInv, CallerInv, Persisting
    <3>3. LockedInv'
      BY <2>u, <2>t, NotProcesses DEF LockInv, LockedInv, Readable, Valid
    <3> QED
      BY <3>1, <3>2, <3>3 DEF LockInv
  <2>1. ASSUME NEW p \in Processes, ~Persisting(p), Start(p) PROVE LockInv'
    BY <2>1, <2>q, <2>t DEF Start, provider, history, Holding
  <2>2. ASSUME NEW p \in Processes, ~Persisting(p), CreateFile(p) PROVE LockInv'
    <3>1. HolderInv'
      BY <2>2, <2>t DEF CreateFile, LockInv, HolderInv, Persisting, Holding
    <3>2. CallerInv'
      BY <2>2, <2>t DEF CreateFile, LockInv, CallerInv, Persisting
    <3>3. LockedInv'
      <4>1. ~Valid(NoCredentials.token)'
        BY DEF Valid, NoCredentials, Credentials, NoToken
      <4> QED
        BY <2>2, <4>1 DEF CreateFile, LockInv, LockedInv, provider
    <3> QED
      BY <3>1, <3>2, <3>3 DEF LockInv
  <2>3. ASSUME NEW p \in Processes, ~Persisting(p), Load(p) PROVE LockInv'
    BY <2>3, <2>q, <2>t DEF Load, provider, history, Holding
  <2>4. ASSUME NEW p \in Processes, ~Persisting(p), RefreshWithLock(p) PROVE LockInv'
    <3>1. /\ lock = Free /\ lock' = p /\ UNCHANGED <<file, persisting, faults, expired>> /\ at[p] = "waiting"
          /\ at'[p] \in {"releasing", "refreshing"} /\ \A q \in Processes \ {p} : at'[q] = at[q]
          /\ at'[p] # "releasing" => ~(Readable /\ Valid(file.token))
      <4>1. CASE file.token = NoToken \/ Valid(file.token)
        BY <2>4, <2>t, <4>1 DEF RefreshWithLock, provider, history
      <4>2. CASE ~(file.token = NoToken \/ Valid(file.token))
        BY <2>4, <2>t, <4>2 DEF RefreshWithLock, provider, history
      <4> QED
        BY <4>1, <4>2
    <3>2. HolderInv'
      BY <3>1, NotProcesses DEF LockInv, HolderInv, Persisting, Holding
    <3>3. CallerInv'
      BY <2>4, <3>1 DEF LockInv, CallerInv, Persisting
    <3>4. LockedInv'
      BY <3>1 DEF LockInv, LockedInv, Readable, Valid
    <3> QED
      BY <3>2, <3>3, <3>4 DEF LockInv
  <2>5. ASSUME NEW p \in Processes, ~Persisting(p), ParseFails(p) PROVE LockInv'
    <3>1. /\ lock = Free /\ lock' = p /\ UNCHANGED <<file, persisting, faults, expired>> /\ at[p] = "waiting"
          /\ at'[p] = "givingUp" /\ \A q \in Processes \ {p} : at'[q] = at[q]
          /\ ~Readable
      BY <2>5, <2>t DEF ParseFails, provider, history
    <3>2. HolderInv'
      BY <3>1, NotProcesses DEF LockInv, HolderInv, Persisting, Holding
    <3>3. CallerInv'
      BY <2>5, <3>1 DEF LockInv, CallerInv, Persisting
    <3>4. LockedInv'
      BY <3>1 DEF LockInv, LockedInv, Readable
    <3> QED
      BY <3>2, <3>3, <3>4 DEF LockInv
  <2>6. ASSUME NEW p \in Processes, ~Persisting(p), LockFails(p) PROVE LockInv'
    BY <2>6, <2>q, <2>t DEF LockFails, provider, history, Holding
  \* A step of a process that goes on with its refresh and writes nothing.
  <2>h. ASSUME NEW p \in Processes, at[p] \in Holding \ {"releasing"}, at'[p] \in Holding, ~Persisting(p),
               UNCHANGED <<lock, persisting, expired>>, faults \subseteq faults',
               \A q \in Processes \ {p} : at'[q] = at[q],
               file' = file \/ file' = Truncated \/ (at[p] = "writing" /\ at'[p] = "releasing")
                            \/ (at[p] = "writing" /\ file' = Torn)
        PROVE  LockInv'
    <3>1. HolderInv'
      BY <2>h DEF LockInv, HolderInv, Persisting
    <3>2. CallerInv'
      BY <2>h DEF LockInv, CallerInv, Persisting
    <3>3. LockedInv'
      <4>1. "lockLost" \notin faults => lock = p
        BY <2>h DEF LockInv, HolderInv
      <4> QED
        BY <2>h, <4>1, NothingValid DEF LockInv, LockedInv, Readable, Valid
    <3> QED
      BY <3>1, <3>2, <3>3 DEF LockInv
  <2>7. ASSUME NEW p \in Processes, ~Persisting(p), TokenRefreshed(p) PROVE LockInv'
    BY <2>7, <2>h, <2>t DEF TokenRefreshed, history, Holding
  <2>8. ASSUME NEW p \in Processes, ~Persisting(p), RefreshFails(p) PROVE LockInv'
    <3>1. faults \subseteq faults'
      BY <2>8 DEF RefreshFails
    <3> QED
      BY <2>8, <2>h, <2>t, <3>1 DEF RefreshFails, Holding
  <2>9. ASSUME NEW p \in Processes, ~Persisting(p), LockCompromised(p) PROVE LockInv'
    BY <2>9, <2>h, <2>t DEF LockCompromised, provider, history, Holding
  <2>10. ASSUME NEW p \in Processes, ~Persisting(p), BeginWrite(p) PROVE LockInv'
    BY <2>10, <2>h, <2>t DEF BeginWrite, provider, Holding
  <2>11. ASSUME NEW p \in Processes, ~Persisting(p), EndWrite(p) PROVE LockInv'
    BY <2>11, <2>h, <2>t DEF EndWrite, provider, history, Holding
  <2>12. ASSUME NEW p \in Processes, ~Persisting(p), Release(p) PROVE LockInv'
    <3>1. lock' \in {Free, Orphaned} \/ (lock' = lock /\ lock # p)
      BY <2>12, Releasing DEF Release
    <3>2. at'[p] \notin Holding /\ ~Persisting(p)' /\ \A q \in Processes \ {p} : at'[q] = at[q]
      BY <2>12, <2>t DEF Release, Holding, Persisting
    <3>3. lock \in Processes /\ lock # p => lock' = lock
      BY <2>12, Releasing DEF Release
    <3> QED
      BY <2>12, <2>u, <3>1, <3>2, <3>3 DEF Release, provider, history
  <2>13. ASSUME NEW p \in Processes, ~Persisting(p), Recheck(p) PROVE LockInv'
    BY <2>13, <2>q, <2>t DEF Recheck, Return, provider, history, Holding
  <2>14. ASSUME NEW p \in Processes, GetApiKey(p) PROVE LockInv'
    BY <2>14, <2>q, <2>t DEF GetApiKey, Return, provider, history, Holding
  <2>15. ASSUME NEW p \in Processes, Login(p) PROVE LockInv'
    <3>1. Readable => [file EXCEPT !.token = issued'] \in AllCredentials
      BY <2>15, <2>r, <2>t, ChangesToken DEF Login
    <3> QED
      BY <2>15, <2>p, <3>1 DEF Login, MayCall, history
  <2>16. ASSUME NEW p \in Processes, Logout(p) PROVE LockInv'
    <3>1. Readable => [file EXCEPT !.token = NoToken] \in AllCredentials
      BY <2>r, ChangesToken DEF NoToken
    <3> QED
      BY <2>16, <2>p, <3>1 DEF Logout, MayCall, provider, history
  <2>17. ASSUME NEW p \in Processes, NEW key \in Keys, SetKey(p, key) PROVE LockInv'
    <3>1. Readable => [file EXCEPT !.key = key] \in AllCredentials
      BY <2>r, ChangesKey
    <3> QED
      BY <2>17, <2>p, <3>1 DEF SetKey, MayCall, provider
  <2>18. ASSUME NEW p \in Processes, EndPersist(p) PROVE LockInv'
    <3>1. ~Persisting(p)' /\ \A q \in Processes \ {p} : at'[q] = at[q] /\ persisting'[q] = persisting[q]
      BY <2>18, <2>t DEF EndPersist, Persisting, process
    <3>2. at'[p] \in Holding => "lockLost" \in faults
      BY <2>18 DEF EndPersist, LockInv, HolderInv, process
    <3>3. lock' \in {Free, Orphaned} \/ (lock' = lock /\ lock # p)
      BY <2>18, Releasing DEF EndPersist
    <3>4. lock # p => lock' = lock /\ "lockLost" \in faults
      BY <2>18, Releasing DEF EndPersist, LockInv, HolderInv
    <3> QED
      BY <2>18, <2>u, <3>1, <3>2, <3>3, <3>4 DEF EndPersist, provider, history
  <2>19. ASSUME NEW p \in Processes, WriteFails(p) PROVE LockInv'
    <3>1. CASE Persisting(p)
      <4>1. ~Persisting(p)' /\ \A q \in Processes \ {p} : at'[q] = at[q] /\ persisting'[q] = persisting[q]
        BY <2>19, <2>t, <3>1 DEF WriteFails, Persisting
      <4>2. at'[p] \in Holding => "lockLost" \in faults
        BY <2>19, <3>1 DEF WriteFails, LockInv, HolderInv
      <4>3. lock' \in {Free, Orphaned} \/ (lock' = lock /\ lock # p)
        BY <2>19, <3>1, Releasing DEF WriteFails
      <4>4. lock # p => lock' = lock /\ "lockLost" \in faults
        BY <2>19, <3>1, Releasing DEF WriteFails, LockInv, HolderInv
      <4> QED
        BY <2>19, <2>u, <4>1, <4>2, <4>3, <4>4 DEF WriteFails, provider
    <3>2. CASE ~Persisting(p)
      BY <2>19, <2>h, <2>t, <3>2 DEF WriteFails, Writing, provider, Holding
    <3> QED
      BY <3>1, <3>2
  <2>20. ASSUME NEW p \in Processes, Dies(p), faults \subseteq faults', expired' = expired,
                \/ lock' = IF lock = p THEN Orphaned ELSE lock
                \/ lock = Free /\ lock' = Orphaned,
                file' = file \/ Writing(p)
         PROVE  LockInv'
    <3>1. /\ at'[p] \notin Holding /\ ~Persisting(p)'
          /\ \A q \in Processes \ {p} : at'[q] = at[q] /\ persisting'[q] = persisting[q]
      BY <2>20, Dying DEF Holding
    <3>2. lock' \in {Free, Orphaned} \/ (lock' = lock /\ lock # p)
      BY <2>20
    <3>3. lock \in Processes /\ lock # p => lock' = lock /\ ("lockLost" \notin faults => file' = file)
      BY <2>20, NotProcesses DEF LockInv, HolderInv, Writing, Holding
    <3> QED
      BY <2>20, <2>u, <3>1, <3>2, <3>3
  <2>21. ASSUME NEW p \in Processes, Crash(p) PROVE LockInv'
    BY <2>21, <2>20 DEF Crash, provider
  <2>22. ASSUME NEW p \in Processes, DiesBeforeUnlock(p) PROVE LockInv'
    BY <2>22, <2>20 DEF DiesBeforeUnlock, Writing, provider
  <2>23. CASE Expire
    <3>1. UNCHANGED <<file, lock, at, persisting, faults>> /\ expired < issued /\ expired' = issued
      BY <2>23 DEF Expire, process, history
    <3>2. Readable => file.token \in Nat
      BY <2>r DEF AllCredentials
    <3>3. Readable /\ Valid(file.token)' => Valid(file.token)
      BY <3>1, <3>2, <2>t DEF Valid, LockInv, LockedInv
    <3> QED
      BY <3>1, <3>3, <2>t DEF LockInv, HolderInv, CallerInv, LockedInv, Readable, Persisting
  <2>24. CASE LockGetsStale
    <3>1. lock = Orphaned /\ lock' = Free /\ UNCHANGED <<file, at, persisting, faults, expired>>
      BY <2>24 DEF LockGetsStale, process, provider, history
    <3> QED
      BY <3>1, NotProcesses DEF LockInv, HolderInv, CallerInv, LockedInv, Persisting
  <2>25. CASE LockTaken
    BY <2>25 DEF LockTaken, process, provider, LockInv, HolderInv, CallerInv, LockedInv, Persisting
  <2>26. CASE UNCHANGED authVars
    BY <2>26, <2>q DEF authVars, process, provider, history
  <2> QED
    BY <2>1, <2>2, <2>3, <2>4, <2>5, <2>6, <2>7, <2>8, <2>9, <2>10, <2>11, <2>12, <2>13, <2>14, <2>15,
       <2>16, <2>17, <2>18, <2>19, <2>21, <2>22, <2>23, <2>24, <2>25, <2>26 DEF AuthNext, Progress
<1> QED
  BY <1>1, <1>2, AuthTyped, PTL DEF AuthSpec

-----------------------------------------------------------------------------
(* Refresh tokens                                                          *)

\* Every token there is was issued, and what was presented to the provider is one.
BoundInv ==
    /\ \A t \in used : t \in Nat /\ 0 < t /\ t <= issued
    /\ Readable => file.token <= issued
    /\ \A p \in Processes : data[p].token <= issued /\ snapshot[p].token <= issued
    /\ \A p \in Processes : Persisting(p) => persisting[p].token <= issued
    /\ \A p \in Processes : at[p] = "refreshing" => snapshot[p].token # NoToken

\* No token is used before it is issued.
LEMMA TokensBounded == AuthSpec => []BoundInv
<1>1. AuthInit => BoundInv
  <2>1. Credentials(1, NoKey).token = 1
    BY DEF Credentials
  <2> QED
    BY <2>1, NothingValid DEF AuthInit, BoundInv, Readable, Persisting
<1>2. AuthTypeOK /\ BoundInv /\ [AuthNext]_authVars => BoundInv'
  <2> SUFFICES ASSUME AuthTypeOK, BoundInv, [AuthNext]_authVars PROVE BoundInv'
    OBVIOUS
  <2>c. /\ at \in [Processes -> CallPlaces] /\ issued \in Nat
        /\ data \in [Processes -> AllCredentials] /\ snapshot \in [Processes -> AllCredentials]
        /\ persisting \in [Processes -> AllCredentials \cup {Nothing}]
        /\ \A p \in Processes : data[p] \in AllCredentials /\ snapshot[p] \in AllCredentials
        /\ \A p \in Processes : data[p].token \in Nat /\ snapshot[p].token \in Nat
        /\ \A p \in Processes : Persisting(p) => persisting[p] \in AllCredentials /\ persisting[p].token \in Nat
    BY DEF AuthTypeOK, AllCredentials, Persisting
  <2>r. Readable => file \in AllCredentials /\ file.token \in Nat
    BY DEF AuthTypeOK, Readable, AllCredentials
  \* A step that issues nothing, presents nothing and takes its tokens from what was there.
  <2>q. ASSUME issued' = issued, used' = used,
               Readable' => (Readable /\ file' = file) \/ file'.token = 0
                            \/ (\E p \in Processes : file' = data[p] \/ (Persisting(p) /\ file' = persisting[p])),
               \A p \in Processes :
                  /\ data'[p] = data[p] \/ data'[p].token \in {0, data[p].token} \/ (Readable /\ data'[p] = file)
                  /\ \/ snapshot'[p] = snapshot[p] /\ (at'[p] = "refreshing" => at[p] = "refreshing")
                     \/ snapshot'[p].token = 0 /\ at'[p] # "refreshing"
                     \/ Readable /\ snapshot'[p] = file /\ file.token # NoToken
                  /\ Persisting(p)' => \/ Persisting(p) /\ persisting'[p] = persisting[p]
                                       \/ persisting'[p].token = 0
                                       \/ Readable /\ persisting'[p].token = file.token
        PROVE  BoundInv'
    <3>1. 0 <= issued
      BY <2>c
    <3>2. Readable' => file'.token <= issued'
      BY <2>q, <3>1 DEF BoundInv
    <3>3. ASSUME NEW p \in Processes
          PROVE  data'[p].token <= issued' /\ snapshot'[p].token <= issued'
                 /\ (Persisting(p)' => persisting'[p].token <= issued')
                 /\ (at'[p] = "refreshing" => snapshot'[p].token # NoToken)
      BY <2>q, <3>1 DEF BoundInv
    <3> QED
      BY <2>q, <3>2, <3>3 DEF BoundInv
  <2>p. ASSUME NEW p \in Processes, NEW new, Readable => new \in AllCredentials, Persist(p, new),
               Readable => new.token \in {0, file.token}, issued' = issued, used' = used, at' = at, snapshot' = snapshot,
               \A q \in Processes : data'[q].token \in {0, data[q].token}
        PROVE  BoundInv'
    <3>1. CASE UNCHANGED <<lock, file, persisting>>
      BY <2>p, <3>1, <2>q DEF Readable, Persisting
    <3>2. CASE Readable /\ file' = Truncated /\ persisting'[p] = new
               /\ \A q \in Processes \ {p} : persisting'[q] = persisting[q]
      <4>1. \A q \in Processes : Persisting(q)' => \/ Persisting(q) /\ persisting'[q] = persisting[q]
                                                   \/ persisting'[q].token \in {0, file.token}
        BY <2>p, <3>2 DEF Persisting
      <4> QED
        BY <2>p, <3>2, <4>1, <2>q, NothingValid
    <3> QED
      BY <2>p, <3>1, <3>2, PersistBegins
  <2>1. ASSUME NEW p \in Processes, Start(p) PROVE BoundInv'
    BY <2>1, <2>q, <2>c DEF Start, provider, history, Readable, Persisting
  <2>2. ASSUME NEW p \in Processes, CreateFile(p) PROVE BoundInv'
    BY <2>2, <2>q, <2>c, NothingValid DEF CreateFile, provider, Persisting
  <2>l. ASSUME NEW p \in Processes, Reload(p)
        PROVE  \A q \in Processes : data'[q] = data[q] \/ (Readable /\ data'[q] = file)
    BY <2>l, <2>c DEF Reload
  <2>3. ASSUME NEW p \in Processes, Load(p) PROVE BoundInv'
    BY <2>3, <2>q, <2>c, <2>l DEF Load, provider, history, Readable, Persisting
  <2>4. ASSUME NEW p \in Processes, RefreshWithLock(p) PROVE BoundInv'
    <3>1. /\ Readable /\ \A q \in Processes : data'[q] = data[q] \/ data'[q] = file
          /\ UNCHANGED <<file, issued, used, persisting>>
      BY <2>4, <2>c DEF RefreshWithLock, provider
    <3>2. \A q \in Processes : \/ snapshot'[q] = snapshot[q] /\ (at'[q] = "refreshing" => at[q] = "refreshing")
                               \/ snapshot'[q] = file /\ file.token # NoToken
      <4>1. CASE file.token = NoToken \/ Valid(file.token)
        BY <2>4, <4>1, <2>c DEF RefreshWithLock
      <4>2. CASE ~(file.token = NoToken \/ Valid(file.token))
        BY <2>4, <4>2, <2>c DEF RefreshWithLock
      <4> QED
        BY <4>1, <4>2
    <3> QED
      BY <3>1, <3>2, <2>q DEF Readable, Persisting
  <2>5. ASSUME NEW p \in Processes, ParseFails(p) PROVE BoundInv'
    BY <2>5, <2>q, <2>c DEF ParseFails, provider, history, Readable, Persisting
  <2>6. ASSUME NEW p \in Processes, LockFails(p) PROVE BoundInv'
    BY <2>6, <2>q, <2>c DEF LockFails, provider, history, Readable, Persisting
  <2>i. ASSUME issued' = issued + 1, UNCHANGED <<snapshot, used>>,
               Readable' => (Readable /\ file' = file) \/ file'.token = 0,
               \A p \in Processes : /\ data'[p] = data[p] \/ data'[p].token = issued + 1
                                    /\ at'[p] = "refreshing" => at[p] = "refreshing"
                                    /\ Persisting(p)' => \/ Persisting(p) /\ persisting'[p] = persisting[p]
                                                         \/ persisting'[p].token = issued + 1
        PROVE  BoundInv'
    <3>1. Readable' => file'.token <= issued'
      BY <2>i, <2>r, <2>c DEF BoundInv
    <3>2. ASSUME NEW p \in Processes
          PROVE  data'[p].token <= issued' /\ snapshot'[p].token <= issued'
                 /\ (Persisting(p)' => persisting'[p].token <= issued')
                 /\ (at'[p] = "refreshing" => snapshot'[p].token # NoToken)
      BY <2>i, <2>c DEF BoundInv
    <3>3. \A t \in used' : t \in Nat /\ 0 < t /\ t <= issued'
      BY <2>i, <2>c DEF BoundInv
    <3> QED
      BY <3>1, <3>2, <3>3 DEF BoundInv
  <2>u. ASSUME NEW p \in Processes, at[p] = "refreshing"
        PROVE  snapshot[p].token \in Nat /\ 0 < snapshot[p].token /\ snapshot[p].token <= issued
    BY <2>u, <2>c, NothingValid DEF BoundInv
  <2>7. ASSUME NEW p \in Processes, TokenRefreshed(p) PROVE BoundInv'
    <3>1. issued' = issued + 1 /\ [data[p] EXCEPT !.token = issued'].token = issued'
      BY <2>7, <2>c DEF TokenRefreshed, AllCredentials
    <3>2. \A q \in Processes : data'[q].token <= issued'
      BY <2>7, <3>1, <2>c DEF TokenRefreshed, BoundInv
    <3>3. \A t \in used' : t \in Nat /\ 0 < t /\ t <= issued'
      <4>1. snapshot[p].token \in Nat /\ 0 < snapshot[p].token /\ snapshot[p].token <= issued
        BY <2>7, <2>u DEF TokenRefreshed
      <4>2. used' = used \cup {snapshot[p].token}
        BY <2>7 DEF TokenRefreshed
      <4> QED
        BY <3>1, <4>1, <4>2, <2>c DEF BoundInv
    <3>4. /\ file' = file /\ snapshot' = snapshot /\ persisting' = persisting
          /\ \A q \in Processes : at'[q] = "refreshing" => at[q] = "refreshing"
      BY <2>7, <2>c DEF TokenRefreshed
    <3>5. Readable' => file'.token <= issued'
      BY <2>r, <2>c, <3>1, <3>4 DEF Readable, BoundInv
    <3>6. \A q \in Processes : snapshot'[q].token <= issued' /\ (Persisting(q)' => persisting'[q].token <= issued')
      BY <3>1, <3>4, <2>c DEF BoundInv, Persisting
    <3> QED
      BY <3>2, <3>3, <3>4, <3>5, <3>6 DEF BoundInv
  <2>8. ASSUME NEW p \in Processes, RefreshFails(p) PROVE BoundInv'
    <3>1. snapshot[p].token \in Nat /\ 0 < snapshot[p].token /\ snapshot[p].token <= issued
      BY <2>8, <2>u DEF RefreshFails
    <3>2. used' = used \/ used' = used \cup {snapshot[p].token}
      BY <2>8 DEF RefreshFails
    <3>3. \A t \in used' : t \in Nat /\ 0 < t /\ t <= issued
      BY <3>1, <3>2 DEF BoundInv
    <3>4. UNCHANGED <<file, data, snapshot, persisting, issued>>
          /\ \A q \in Processes : at'[q] = "refreshing" => at[q] = "refreshing"
      BY <2>8, <2>c DEF RefreshFails
    <3> QED
      BY <3>3, <3>4 DEF BoundInv, Readable, Persisting
  <2>9. ASSUME NEW p \in Processes, LockCompromised(p) PROVE BoundInv'
    BY <2>9, <2>q, <2>c DEF LockCompromised, provider, history, Readable, Persisting
  <2>10. ASSUME NEW p \in Processes, BeginWrite(p) PROVE BoundInv'
    BY <2>10, <2>q, <2>c, NothingValid DEF BeginWrite, provider, Persisting
  <2>11. ASSUME NEW p \in Processes, EndWrite(p) PROVE BoundInv'
    BY <2>11, <2>q, <2>c DEF EndWrite, provider, history, Persisting
  <2>12. ASSUME NEW p \in Processes, Release(p) PROVE BoundInv'
    BY <2>12, <2>q, <2>c, NothingValid DEF Release, provider, history, Readable, Persisting
  <2>13. ASSUME NEW p \in Processes, Recheck(p) PROVE BoundInv'
    BY <2>13, <2>q, <2>c, <2>l DEF Recheck, Return, provider, history, Readable, Persisting
  <2>14. ASSUME NEW p \in Processes, GetApiKey(p) PROVE BoundInv'
    BY <2>14, <2>q, <2>c DEF GetApiKey, Return, provider, history, Readable, Persisting
  <2>15. ASSUME NEW p \in Processes, Login(p) PROVE BoundInv'
    <3>1. issued' = issued + 1 /\ [data[p] EXCEPT !.token = issued'].token = issued'
      BY <2>15, <2>c DEF Login, AllCredentials
    <3>2. \A q \in Processes : data'[q] = data[q] \/ data'[q].token = issued + 1
      BY <2>15, <3>1, <2>c DEF Login
    <3>3. Readable => /\ [file EXCEPT !.token = issued'] \in AllCredentials
                      /\ [file EXCEPT !.token = issued'].token = issued'
      <4>1. issued' \in Nat
        BY <3>1, <2>c
      <4> QED
        BY <4>1, <2>r, ChangesToken
    <3>4. Persist(p, [file EXCEPT !.token = issued'])
      BY <2>15 DEF Login
    <3>5. UNCHANGED <<snapshot, used, at>>
      BY <2>15 DEF Login
    <3>6. CASE UNCHANGED <<lock, file, persisting>>
      BY <3>1, <3>2, <3>5, <3>6, <2>i DEF Readable, Persisting
    <3>7. CASE Readable /\ file' = Truncated /\ persisting'[p] = [file EXCEPT !.token = issued']
               /\ \A q \in Processes \ {p} : persisting'[q] = persisting[q]
      BY <3>1, <3>2, <3>3, <3>5, <3>7, <2>i, NothingValid DEF Persisting
    <3> QED
      BY <3>3, <3>4, <3>6, <3>7, PersistBegins
  <2>16. ASSUME NEW p \in Processes, Logout(p) PROVE BoundInv'
    <3>1. \A q \in Processes : data'[q].token \in {0, data[q].token}
      BY <2>16, <2>c, ChangesToken DEF Logout, NoToken
    <3>2. Readable => /\ [file EXCEPT !.token = NoToken] \in AllCredentials
                      /\ [file EXCEPT !.token = NoToken].token = 0
      BY <2>r, ChangesToken DEF NoToken
    <3> QED
      BY <2>16, <2>p, <3>1, <3>2 DEF Logout, provider
  <2>17. ASSUME NEW p \in Processes, NEW key \in Keys, SetKey(p, key) PROVE BoundInv'
    <3>1. \A q \in Processes : data'[q].token \in {0, data[q].token}
      BY <2>17, <2>c, ChangesKey DEF SetKey
    <3>2. Readable => /\ [file EXCEPT !.key = key] \in AllCredentials
                      /\ [file EXCEPT !.key = key].token = file.token
      BY <2>r, ChangesKey
    <3> QED
      BY <2>17, <2>p, <3>1, <3>2 DEF SetKey, provider
  <2>18. ASSUME NEW p \in Processes, EndPersist(p) PROVE BoundInv'
    BY <2>18, <2>q, <2>c DEF EndPersist, process, provider, history, Persisting
  <2>19. ASSUME NEW p \in Processes, WriteFails(p) PROVE BoundInv'
    <3>1. Readable' => Readable /\ file' = file
      BY <2>19 DEF WriteFails, Readable
    <3>2. \A q \in Processes : /\ at'[q] = "refreshing" => at[q] = "refreshing"
                               /\ Persisting(q)' => Persisting(q) /\ persisting'[q] = persisting[q]
      BY <2>19, <2>c DEF WriteFails, Persisting
    <3> QED
      BY <2>19, <2>q, <3>1, <3>2 DEF WriteFails, provider
  <2>20. ASSUME NEW p \in Processes, Dies(p), issued' = issued, used' = used,
                Readable' => (Readable /\ file' = file) \/ (Persisting(p) /\ file' = persisting[p])
         PROVE  BoundInv'
    BY <2>20, <2>q, Dying, NothingValid DEF Persisting
  <2>21. ASSUME NEW p \in Processes, Crash(p) PROVE BoundInv'
    BY <2>21, <2>20 DEF Crash, provider, Readable
  <2>22. ASSUME NEW p \in Processes, DiesBeforeUnlock(p) PROVE BoundInv'
    BY <2>22, <2>20 DEF DiesBeforeUnlock, provider
  <2>23. CASE Expire
    BY <2>23 DEF Expire, process, history, BoundInv, Readable, Persisting
  <2>24. CASE LockGetsStale
    BY <2>24 DEF LockGetsStale, process, provider, history, BoundInv, Readable, Persisting
  <2>25. CASE LockTaken
    BY <2>25 DEF LockTaken, process, provider, BoundInv, Readable, Persisting
  <2>26. CASE UNCHANGED authVars
    BY <2>26 DEF authVars, process, provider, history, BoundInv, Readable, Persisting
  <2> QED
    BY <2>1, <2>2, <2>3, <2>4, <2>5, <2>6, <2>7, <2>8, <2>9, <2>10, <2>11, <2>12, <2>13, <2>14, <2>15,
       <2>16, <2>17, <2>18, <2>19, <2>21, <2>22, <2>23, <2>24, <2>25, <2>26 DEF AuthNext, Progress
<1> QED
  BY <1>1, <1>2, AuthTyped, PTL DEF AuthSpec

\* What makes StoredTokenIsUnused inductive: a token that is about to be written was
\* never presented.
UsedInv ==
    /\ StoredTokenIsUnused
    /\ {"tokenLost", "lockLost"} \cap faults = {} =>
          \A p \in Processes : /\ at[p] \in {"refreshed", "writing"} => data[p].token \notin used
                               /\ Persisting(p) => persisting[p].token \notin used

\* refreshOAuthTokenWithLock: for any number of processes, the token in the file was not
\* presented to the provider, unless the process that holds the lock has just done so
\* and will replace it.
THEOREM StoredTokenUnused == AuthSpec => []StoredTokenIsUnused
<1>1. AuthInit => UsedInv
  BY DEF AuthInit, UsedInv, StoredTokenIsUnused, Readable, Persisting
<1>2. AuthTypeOK /\ LockInv /\ BoundInv /\ UsedInv /\ [AuthNext]_authVars => UsedInv'
  <2> SUFFICES ASSUME AuthTypeOK, LockInv, BoundInv, UsedInv, [AuthNext]_authVars PROVE UsedInv'
    OBVIOUS
  <2>h. "lockLost" \notin faults =>
           \A p \in Processes : /\ (at[p] \in Holding \/ Persisting(p)) <=> lock = p
                                /\ Persisting(p) => at[p] \notin Holding
    BY DEF LockInv, HolderInv
  <2>k. /\ at \in [Processes -> CallPlaces] /\ lock \in Processes \cup {Free, Orphaned} /\ issued \in Nat
        /\ data \in [Processes -> AllCredentials] /\ snapshot \in [Processes -> AllCredentials]
        /\ persisting \in [Processes -> AllCredentials \cup {Nothing}]
        /\ \A p \in Processes : data[p] \in AllCredentials /\ snapshot[p] \in AllCredentials
    BY DEF AuthTypeOK
  <2>r. Readable => file \in AllCredentials
    BY DEF AuthTypeOK, Readable
  <2>n. 0 \notin used /\ issued + 1 \notin used
    BY <2>k DEF BoundInv
  <2>g. ASSUME {"tokenLost", "lockLost"} \cap faults' # {} PROVE UsedInv'
    BY <2>g DEF UsedInv, StoredTokenIsUnused
  \* Unless the process that refreshed holds the lock, the file has no used token.
  <2>f. ASSUME {"tokenLost", "lockLost"} \cap faults = {}, Readable,
               \A p \in Processes : ~(lock = p /\ at[p] = "refreshed")
        PROVE  file.token \notin used
    BY <2>f DEF UsedInv, StoredTokenIsUnused
  \* A step that presents no token and leaves in the file, or about to be written, only
  \* tokens that were there, none, or one that is issued now.
  <2>q. ASSUME used' = used, faults \subseteq faults',
               {"tokenLost", "lockLost"} \cap faults' = {} /\ Readable' =>
                  \/ /\ file' = file /\ Readable
                     /\ \A p \in Processes : lock = p /\ at[p] = "refreshed" =>
                                                 lock' = p /\ at'[p] = "refreshed" /\ snapshot'[p] = snapshot[p]
                  \/ file'.token = 0
                  \/ \E p \in Processes : /\ (at[p] \in {"refreshed", "writing"} /\ file' = data[p])
                                             \/ (Persisting(p) /\ file' = persisting[p]),
               {"tokenLost", "lockLost"} \cap faults' = {} =>
                  \A p \in Processes :
                     /\ at'[p] \in {"refreshed", "writing"} => at[p] \in {"refreshed", "writing"} /\ data'[p] = data[p]
                     /\ Persisting(p)' => \/ Persisting(p) /\ persisting'[p] = persisting[p]
                                          \/ persisting'[p].token \in {0, issued + 1}
                                          \/ Readable /\ lock = Free /\ persisting'[p].token = file.token
        PROVE  UsedInv'
    <3>1. CASE {"tokenLost", "lockLost"} \cap faults' = {}
      <4>0. {"tokenLost", "lockLost"} \cap faults = {}
        BY <2>q, <3>1
      <4>1. StoredTokenIsUnused'
        <5>1. CASE ~Readable'
          BY <5>1 DEF StoredTokenIsUnused
        <5>2. CASE /\ file' = file /\ Readable
                   /\ \A p \in Processes : lock = p /\ at[p] = "refreshed" =>
                                                 lock' = p /\ at'[p] = "refreshed" /\ snapshot'[p] = snapshot[p]
          BY <5>2, <4>0, <2>q DEF UsedInv, StoredTokenIsUnused
        <5>3. CASE file'.token = 0
          BY <5>3, <2>n, <2>q DEF StoredTokenIsUnused
        <5>4. CASE \E p \in Processes : \/ at[p] \in {"refreshed", "writing"} /\ file' = data[p]
                                        \/ Persisting(p) /\ file' = persisting[p]
          <6>1. file'.token \notin used
            BY <5>4, <4>0 DEF UsedInv
          <6> QED
            BY <6>1, <2>q DEF StoredTokenIsUnused
        <5> QED
          BY <2>q, <3>1, <5>1, <5>2, <5>3, <5>4
      <4>2. ASSUME NEW p \in Processes
            PROVE  /\ at'[p] \in {"refreshed", "writing"} => data'[p].token \notin used'
                   /\ Persisting(p)' => persisting'[p].token \notin used'
        <5>1. lock = Free /\ Readable => file.token \notin used
          BY <4>0, <2>f, NotProcesses
        <5> QED
          BY <2>q, <3>1, <4>0, <5>1, <2>n DEF UsedInv
      <4> QED
        BY <4>1, <4>2 DEF UsedInv
    <3>2. CASE {"tokenLost", "lockLost"} \cap faults' # {}
      BY <3>2, <2>g
    <3> QED
      BY <3>1, <3>2
  <2>p. ASSUME NEW p \in Processes, NEW new, Readable => new \in AllCredentials, Persist(p, new),
               Readable => new.token \in {0, issued + 1, file.token}, used' = used, faults' = faults,
               at' = at, snapshot' = snapshot, at[p] \in Awaiting, \A q \in Processes \ {p} : data'[q] = data[q]
        PROVE  UsedInv'
    <3>0. \A q \in Processes : at'[q] \in {"refreshed", "writing"} => at[q] \in {"refreshed", "writing"} /\ data'[q] = data[q]
      BY <2>p DEF Awaiting
    <3>1. CASE UNCHANGED <<lock, file, persisting>>
      BY <2>p, <3>0, <3>1, <2>q DEF Readable, Persisting
    <3>2. CASE lock = Free /\ Readable /\ file' = Truncated /\ persisting'[p] = new
               /\ \A q \in Processes \ {p} : persisting'[q] = persisting[q]
      <4>1. \A q \in Processes : Persisting(q)' => \/ Persisting(q) /\ persisting'[q] = persisting[q]
                                                   \/ persisting'[q].token \in {0, issued + 1, file.token}
        BY <2>p, <3>2 DEF Persisting
      <4> QED
        BY <2>p, <3>0, <3>2, <4>1, <2>q, NothingValid
    <3> QED
      BY <2>p, <3>1, <3>2, PersistBegins
  \* A step of p in which it neither refreshes nor writes.
  <2>s. ASSUME NEW p \in Processes, at[p] # "refreshed", at'[p] \notin {"refreshed", "writing"},
               UNCHANGED <<file, persisting, used, faults>>,
               \A q \in Processes \ {p} : at'[q] = at[q] /\ data'[q] = data[q] /\ snapshot'[q] = snapshot[q],
               lock' = lock \/ lock = Free \/ lock = p
        PROVE  UsedInv'
    BY <2>s, <2>q, NotProcesses DEF Readable, Persisting
  <2>1. ASSUME NEW p \in Processes, Start(p) PROVE UsedInv'
    BY <2>1, <2>s, <2>k DEF Start, provider, history
  <2>2. ASSUME NEW p \in Processes, CreateFile(p) PROVE UsedInv'
    <3>1. /\ used' = used /\ faults \subseteq faults' /\ file'.token = 0 /\ persisting' = persisting
          /\ \A q \in Processes : at'[q] \in {"refreshed", "writing"} => at[q] \in {"refreshed", "writing"}
          /\ data' = data
      BY <2>2, <2>k, NothingValid DEF CreateFile, provider
    <3> QED
      BY <3>1, <2>q DEF Persisting
  <2>l. ASSUME NEW p \in Processes, Reload(p) PROVE \A q \in Processes \ {p} : data'[q] = data[q]
    BY <2>l, <2>k DEF Reload
  <2>3. ASSUME NEW p \in Processes, Load(p) PROVE UsedInv'
    BY <2>3, <2>s, <2>k, <2>l DEF Load, provider, history
  <2>4. ASSUME NEW p \in Processes, RefreshWithLock(p) PROVE UsedInv'
    <3>1. \A q \in Processes \ {p} : at'[q] = at[q] /\ data'[q] = data[q] /\ snapshot'[q] = snapshot[q]
      BY <2>4, <2>k DEF RefreshWithLock
    <3>2. at'[p] \notin {"refreshed", "writing"}
      BY <2>4, <2>k DEF RefreshWithLock
    <3> QED
      BY <2>4, <2>s, <3>1, <3>2 DEF RefreshWithLock, provider, history
  <2>5. ASSUME NEW p \in Processes, ParseFails(p) PROVE UsedInv'
    BY <2>5, <2>s, <2>k DEF ParseFails, provider, history
  <2>6. ASSUME NEW p \in Processes, LockFails(p) PROVE UsedInv'
    BY <2>6, <2>s, <2>k DEF LockFails, provider, history
  <2>7. ASSUME NEW p \in Processes, ~Persisting(p), TokenRefreshed(p) PROVE UsedInv'
    <3> DEFINE presented == snapshot[p].token
    <3>1. /\ used' = used \cup {presented} /\ issued' = issued + 1 /\ file' = file /\ lock' = lock
          /\ faults' = faults /\ snapshot' = snapshot /\ at' = [at EXCEPT ![p] = "refreshed"]
          /\ data' = [data EXCEPT ![p].token = issued'] /\ at[p] = "refreshing" /\ persisting' = persisting
      BY <2>7 DEF TokenRefreshed, history
    <3>2. data'[p].token = issued + 1
      BY <3>1, <2>k, ChangesToken
    <3>3. issued + 1 \notin used'
      <4>1. presented <= issued /\ presented \in Nat
        BY <2>k DEF BoundInv, AllCredentials
      <4> QED
        BY <3>1, <4>1, <2>n, <2>k
    <3>5. CASE {"tokenLost", "lockLost"} \cap faults = {}
      <4>1. lock = p /\ \A q \in Processes \ {p} : at[q] \notin {"refreshed", "writing"} /\ ~Persisting(q)
        BY <2>h, <3>1, <3>5 DEF Holding
      <4>2. \A q \in Processes : at'[q] \in {"refreshed", "writing"} \/ Persisting(q)' => q = p /\ ~Persisting(q)'
        BY <2>7, <3>1, <4>1 DEF Persisting
      <4>4. Readable => file.token \notin used
        BY <3>1, <3>5, <4>1, <2>f
      <4>5. lock' = p /\ at'[p] = "refreshed" /\ snapshot'[p].token = presented
        BY <3>1, <4>1, <2>k
      <4>6. StoredTokenIsUnused'
        BY <3>1, <4>4, <4>5 DEF StoredTokenIsUnused, Readable
      <4> QED
        BY <3>2, <3>3, <4>2, <4>6 DEF UsedInv
    <3>6. CASE {"tokenLost", "lockLost"} \cap faults # {}
      BY <3>1, <3>6, <2>g
    <3> QED
      BY <3>5, <3>6
  <2>8. ASSUME NEW p \in Processes, RefreshFails(p) PROVE UsedInv'
    <3>1. CASE UNCHANGED <<used, faults>>
      BY <2>8, <3>1, <2>s, <2>k DEF RefreshFails
    <3>2. CASE faults' = faults \cup {"tokenLost"}
      BY <3>2, <2>g
    <3> QED
      BY <2>8, <3>1, <3>2 DEF RefreshFails
  <2>9. ASSUME NEW p \in Processes, LockCompromised(p) PROVE UsedInv'
    <3>1. at[p] = "refreshed" /\ lock # p /\ faults' = faults
      BY <2>9 DEF LockCompromised, history
    <3>2. "lockLost" \in faults'
      BY <3>1, <2>h DEF Holding
    <3> QED
      BY <3>2, <2>g
  <2>10. ASSUME NEW p \in Processes, BeginWrite(p) PROVE UsedInv'
    <3>1. /\ UNCHANGED <<used, faults, data, persisting>> /\ file'.token = 0
          /\ \A q \in Processes : at'[q] \in {"refreshed", "writing"} => at[q] \in {"refreshed", "writing"}
      BY <2>10, <2>k, NothingValid DEF BeginWrite, provider
    <3> QED
      BY <3>1, <2>q DEF Persisting
  <2>11. ASSUME NEW p \in Processes, EndWrite(p) PROVE UsedInv'
    <3>1. /\ UNCHANGED <<used, faults, data, persisting>> /\ at[p] = "writing" /\ file' = data[p]
          /\ \A q \in Processes : at'[q] \in {"refreshed", "writing"} => at[q] \in {"refreshed", "writing"}
      BY <2>11, <2>k DEF EndWrite, provider, history
    <3> QED
      BY <3>1, <2>q DEF Persisting
  <2>12. ASSUME NEW p \in Processes, Release(p) PROVE UsedInv'
    <3>1. lock' = lock \/ lock = p
      BY <2>12, Releasing DEF Release
    <3> QED
      BY <2>12, <2>s, <2>k, <3>1 DEF Release, provider, history
  <2>13. ASSUME NEW p \in Processes, Recheck(p) PROVE UsedInv'
    BY <2>13, <2>s, <2>k, <2>l DEF Recheck, Return, provider, history
  <2>14. ASSUME NEW p \in Processes, GetApiKey(p) PROVE UsedInv'
    BY <2>14, <2>s, <2>k DEF GetApiKey, Return, provider, history
  <2>15. ASSUME NEW p \in Processes, Login(p) PROVE UsedInv'
    <3>1. issued' = issued + 1 /\ issued' \in Nat
      BY <2>15, <2>k DEF Login
    <3>2. Readable => /\ [file EXCEPT !.token = issued'] \in AllCredentials
                      /\ [file EXCEPT !.token = issued'].token = issued + 1
      BY <2>r, <3>1, ChangesToken
    <3>3. \A q \in Processes \ {p} : data'[q] = data[q]
      BY <2>15 DEF Login
    <3> QED
      BY <2>15, <2>p, <3>2, <3>3 DEF Login, MayCall, history
  <2>16. ASSUME NEW p \in Processes, Logout(p) PROVE UsedInv'
    <3>2. Readable => /\ [file EXCEPT !.token = NoToken] \in AllCredentials
                      /\ [file EXCEPT !.token = NoToken].token = 0
      BY <2>r, ChangesToken DEF NoToken
    <3>3. \A q \in Processes \ {p} : data'[q] = data[q]
      BY <2>16 DEF Logout
    <3> QED
      BY <2>16, <2>p, <3>2, <3>3 DEF Logout, MayCall, provider, history
  <2>17. ASSUME NEW p \in Processes, NEW key \in Keys, SetKey(p, key) PROVE UsedInv'
    <3>2. Readable => /\ [file EXCEPT !.key = key] \in AllCredentials
                      /\ [file EXCEPT !.key = key].token = file.token
      BY <2>r, ChangesKey
    <3>3. \A q \in Processes \ {p} : data'[q] = data[q]
      BY <2>17 DEF SetKey
    <3> QED
      BY <2>17, <2>p, <3>2, <3>3 DEF SetKey, MayCall, provider
  <2>18. ASSUME NEW p \in Processes, EndPersist(p) PROVE UsedInv'
    <3>1. /\ UNCHANGED <<used, faults, data, at>> /\ file' = persisting[p] /\ Persisting(p)
          /\ \A q \in Processes : Persisting(q)' => Persisting(q) /\ persisting'[q] = persisting[q]
      BY <2>18, <2>k DEF EndPersist, process, provider, history, Persisting
    <3> QED
      BY <3>1, <2>q
  <2>19. ASSUME NEW p \in Processes, WriteFails(p) PROVE UsedInv'
    <3>1. CASE "lockLost" \notin faults
      <4>1. \A q \in Processes : ~(lock = q /\ at[q] = "refreshed")
        BY <2>19, <2>h, <3>1 DEF WriteFails, Writing, Holding
      <4>2. /\ UNCHANGED <<used, data, snapshot>> /\ faults \subseteq faults'
            /\ Readable' => Readable /\ file' = file
            /\ \A q \in Processes : /\ at'[q] \in {"refreshed", "writing"} => at[q] \in {"refreshed", "writing"}
                                    /\ Persisting(q)' => Persisting(q) /\ persisting'[q] = persisting[q]
        BY <2>19, <2>k DEF WriteFails, Persisting, provider, Readable
      <4> QED
        BY <4>1, <4>2, <2>q
    <3>2. CASE "lockLost" \in faults
      BY <2>19, <3>2, <2>g DEF WriteFails
    <3> QED
      BY <3>1, <3>2
  <2>20. ASSUME NEW p \in Processes, Dies(p), used' = used, faults \subseteq faults',
                Readable' => (Readable /\ file' = file) \/ (Persisting(p) /\ file' = persisting[p]),
                at[p] = "refreshed" /\ ~Persisting(p) => "tokenLost" \in faults',
                \A q \in Processes \ {p} : lock = q => lock' = q
         PROVE  UsedInv'
    <3>1. CASE {"tokenLost", "lockLost"} \cap faults' = {}
      <4>1. at[p] # "refreshed"
        BY <2>20, <2>h, <3>1 DEF Holding
      <4>2. \A q \in Processes : /\ at'[q] \in {"refreshed", "writing"} => at[q] \in {"refreshed", "writing"} /\ data'[q] = data[q]
                                 /\ Persisting(q)' => Persisting(q) /\ persisting'[q] = persisting[q]
        BY <2>20, Dying DEF Persisting
      <4>3. \A q \in Processes : lock = q /\ at[q] = "refreshed" =>
                                     lock' = q /\ at'[q] = "refreshed" /\ snapshot'[q] = snapshot[q]
        BY <2>20, <4>1, Dying
      <4> QED
        BY <2>20, <4>2, <4>3, <2>q
    <3>2. CASE {"tokenLost", "lockLost"} \cap faults' # {}
      BY <3>2, <2>g
    <3> QED
      BY <3>1, <3>2
  <2>21. ASSUME NEW p \in Processes, Crash(p) PROVE UsedInv'
    <3>1. at[p] = "refreshed" /\ ~Persisting(p) => "tokenLost" \in faults'
      BY <2>21 DEF Crash, Writing
    <3>2. \A q \in Processes \ {p} : lock = q => lock' = q
      BY <2>21, NotProcesses DEF Crash
    <3>3. Readable' => Readable /\ file' = file
      BY <2>21 DEF Crash, Readable
    <3> QED
      BY <2>21, <2>20, <3>1, <3>2, <3>3 DEF Crash, provider
  <2>22. ASSUME NEW p \in Processes, DiesBeforeUnlock(p) PROVE UsedInv'
    BY <2>22, <2>20 DEF DiesBeforeUnlock, provider
  <2>23. CASE Expire
    BY <2>23, <2>q DEF Expire, process, history, Readable, Persisting
  <2>24. CASE LockGetsStale
    <3>1. lock = Orphaned /\ UNCHANGED <<file, at, data, snapshot, persisting, used, faults>>
      BY <2>24 DEF LockGetsStale, process, provider, history
    <3> QED
      BY <3>1, <2>q, NotProcesses DEF Readable, Persisting
  <2>25. CASE LockTaken
    BY <2>25, <2>g DEF LockTaken
  <2>26. CASE UNCHANGED authVars
    BY <2>26, <2>q DEF authVars, process, provider, history, Readable, Persisting
  <2> QED
    BY <2>1, <2>2, <2>3, <2>4, <2>5, <2>6, <2>7, <2>8, <2>9, <2>10, <2>11, <2>12, <2>13, <2>14, <2>15,
       <2>16, <2>17, <2>18, <2>19, <2>21, <2>22, <2>23, <2>24, <2>25, <2>26 DEF AuthNext, Progress
<1>3. UsedInv => StoredTokenIsUnused
  BY DEF UsedInv
<1> QED
  BY <1>1, <1>2, <1>3, AuthTyped, LockHeld, TokensBounded, PTL DEF AuthSpec

-----------------------------------------------------------------------------
(* The credentials of other providers                                      *)

\* What the file holds of the other credential, once nobody is writing.
Expected == IF erased THEN NoKey ELSE written

\* What makes OtherCredentialsKept inductive: nobody changes the credential between
\* the time a refresh has read it and the time it is written back, what is being written
\* is what is expected, and the file under a write holds nothing.
KeyInv ==
    {"lockLost", "fileReplaced"} \cap faults = {} =>
        /\ (Readable /\ \A p \in Processes : ~Writing(p)) => file.key = Expected
        /\ file = Absent => Expected = NoKey /\ \A p \in Processes : ~Writing(p)
        /\ \A p \in Processes :
              /\ at[p] \in {"refreshing", "refreshed"} => snapshot[p].key = Expected /\ file # Absent
              /\ at[p] = "writing" => data[p].key = Expected
              /\ Persisting(p) => persisting[p].key = Expected
              /\ Writing(p) /\ Readable => file.key = NoKey

\* set, remove, login, logout and the refresh merge what they change into what the file
\* holds: for any number of processes the credential of another provider survives, and a
\* write that dies or fails erases it or leaves it.
THEOREM CredentialsKept == AuthSpec => []OtherCredentialsKept
<1>n. /\ NoCredentials \in AllCredentials /\ Credentials(1, NoKey) \in AllCredentials
      /\ Truncated \in AllCredentials /\ Credentials(1, NoKey).key = NoKey
  BY DEF NoCredentials, Credentials, AllCredentials, NoToken, Truncated
<1>1. AuthInit => KeyInv
  BY <1>n, Distinct DEF AuthInit, KeyInv, Readable, Writing, Persisting, Expected
<1>2. AuthTypeOK /\ LockInv /\ KeyInv /\ [AuthNext]_authVars => KeyInv'
  <2> SUFFICES ASSUME AuthTypeOK, LockInv, KeyInv, [AuthNext]_authVars PROVE KeyInv'
    OBVIOUS
  <2>k. /\ at \in [Processes -> CallPlaces] /\ lock \in Processes \cup {Free, Orphaned} /\ issued \in Nat
        /\ data \in [Processes -> AllCredentials] /\ snapshot \in [Processes -> AllCredentials]
        /\ persisting \in [Processes -> AllCredentials \cup {Nothing}]
        /\ \A p \in Processes : data[p] \in AllCredentials /\ snapshot[p] \in AllCredentials
    BY DEF AuthTypeOK
  <2>r. Readable => file \in AllCredentials
    BY DEF AuthTypeOK, Readable
  <2>g. ASSUME {"lockLost", "fileReplaced"} \cap faults' # {} PROVE KeyInv'
    BY <2>g DEF KeyInv
  \* Only one process refreshes or writes: the one that holds the lock.
  <2>h. ASSUME {"lockLost", "fileReplaced"} \cap faults = {}, NEW p \in Processes,
               at[p] \in Holding \/ Writing(p), NEW q \in Processes \ {p}
        PROVE  at[q] \notin Holding /\ ~Writing(q) /\ lock = p
    BY <2>h DEF LockInv, HolderInv, Writing, Holding
  <2>i. ASSUME {"lockLost", "fileReplaced"} \cap faults = {}, lock = Free, NEW q \in Processes
        PROVE  at[q] \notin Holding /\ ~Writing(q)
    BY <2>i, NotProcesses DEF LockInv, HolderInv, Writing, Holding
  \* A step that leaves the file and what is written to it alone.
  <2>q. ASSUME UNCHANGED <<file, persisting>>, faults \subseteq faults',
               UNCHANGED <<written, erased>> \/ Expected' = Expected,
               \A p \in Processes :
                  /\ at'[p] \in {"refreshing", "refreshed"} =>
                        \/ at[p] \in {"refreshing", "refreshed"} /\ snapshot'[p] = snapshot[p]
                        \/ lock = Free /\ Readable /\ snapshot'[p] = file
                  /\ at'[p] = "writing" <=> at[p] = "writing"
                  /\ at'[p] = "writing" => data'[p] = data[p]
        PROVE  KeyInv'
    <3>1. CASE {"lockLost", "fileReplaced"} \cap faults = {}
      <4>1. \A p \in Processes : Writing(p)' <=> Writing(p)
        BY <2>q DEF Writing, Persisting
      <4>2. Expected' = Expected
        BY <2>q DEF Expected
      <4>3. (Readable /\ lock = Free) => file.key = Expected /\ file # Absent
        BY <3>1, <2>i DEF KeyInv, Readable
      <4> QED
        BY <2>q, <3>1, <4>1, <4>2, <4>3 DEF KeyInv, Readable, Persisting
    <3>2. CASE {"lockLost", "fileReplaced"} \cap faults # {}
      BY <2>q, <3>2, <2>g
    <3> QED
      BY <3>1, <3>2
  \* A call that changes credentials, and writes the file or not.
  <2>p. ASSUME NEW p \in Processes, NEW new, Readable => new \in AllCredentials, Persist(p, new),
               at' = at, snapshot' = snapshot, faults' = faults, at[p] \in Awaiting,
               \A q \in Processes \ {p} : data'[q] = data[q],
               CanPersist(p) => new.key = Expected' \/ (new.key = file.key /\ Expected' = Expected),
               ~CanPersist(p) => UNCHANGED <<written, erased>>
        PROVE  KeyInv'
    <3>0. at[p] # "writing"
      BY <2>p DEF Awaiting
    <3>1. CASE ~CanPersist(p)
      <4>1. UNCHANGED <<lock, file, persisting, written, erased>>
        BY <2>p, <3>1 DEF Persist
      <4>2. \A q \in Processes : at'[q] = "writing" => data'[q] = data[q]
        BY <2>p, <3>0
      <4> QED
        BY <2>p, <4>1, <4>2, <2>q
    <3>2. CASE CanPersist(p) /\ {"lockLost", "fileReplaced"} \cap faults = {}
      <4>1. /\ lock = Free /\ Readable /\ file' = Truncated /\ persisting'[p] = new
            /\ \A q \in Processes \ {p} : persisting'[q] = persisting[q]
        BY <2>p, <3>2, <2>k DEF Persist, CanPersist
      <4>2. \A q \in Processes : at'[q] \notin Holding /\ ~Writing(q)
        BY <2>p, <3>2, <4>1, <2>i
      <4>3. new.key = Expected'
        BY <2>p, <3>2, <4>1, <4>2 DEF KeyInv
      <4>4. Writing(p)' /\ \A q \in Processes \ {p} : ~Writing(q)'
        <5>1. new # Nothing
          BY <2>p, <4>1, Distinct
        <5> QED
          BY <2>p, <4>1, <4>2, <5>1 DEF Writing, Persisting
      <4>5. file' # Absent /\ file'.key = NoKey
        BY <4>1, <1>n, Distinct, NothingValid
      <4>6. \A q \in Processes : at'[q] \notin {"refreshing", "refreshed", "writing"}
        BY <4>2 DEF Holding
      <4>7. \A q \in Processes : Persisting(q)' => q = p
        BY <4>4 DEF Writing
      <4> QED
        BY <4>1, <4>3, <4>4, <4>5, <4>6, <4>7 DEF KeyInv
    <3>3. CASE {"lockLost", "fileReplaced"} \cap faults # {}
      BY <2>p, <3>3, <2>g
    <3> QED
      BY <3>1, <3>2, <3>3
  <2>1. ASSUME NEW p \in Processes, Start(p) PROVE KeyInv'
    BY <2>1, <2>q, <2>k DEF Start, provider, history
  <2>2. ASSUME NEW p \in Processes, CreateFile(p) PROVE KeyInv'
    <3>1. CASE file # Absent
      BY <2>2, <3>1, <2>g DEF CreateFile
    <3>2. CASE file = Absent /\ {"lockLost", "fileReplaced"} \cap faults = {}
      <4>1. UNCHANGED <<written, erased, persisting, snapshot, data, faults>> /\ file' = NoCredentials
        BY <2>2, <3>2 DEF CreateFile
      <4>2. \A q \in Processes : ~Writing(q)' /\ at'[q] \notin {"refreshing", "refreshed", "writing"}
                                 /\ ~Persisting(q)'
        BY <2>2, <2>k, <3>2, <4>1 DEF CreateFile, KeyInv, Writing, Persisting
      <4>3. Expected' = NoKey
        BY <3>2, <4>1 DEF KeyInv, Expected
      <4>4. file' # Absent /\ file'.key = NoKey
        BY <4>1, <1>n, Distinct, NothingValid
      <4> QED
        BY <4>2, <4>3, <4>4 DEF KeyInv
    <3>3. CASE {"lockLost", "fileReplaced"} \cap faults # {}
      BY <2>2, <3>3, <2>g DEF CreateFile
    <3> QED
      BY <3>1, <3>2, <3>3
  <2>l. ASSUME NEW p \in Processes, Reload(p) PROVE \A q \in Processes \ {p} : data'[q] = data[q]
    BY <2>l, <2>k DEF Reload
  <2>3. ASSUME NEW p \in Processes, Load(p) PROVE KeyInv'
    BY <2>3, <2>q, <2>k, <2>l DEF Load, provider, history
  <2>4. ASSUME NEW p \in Processes, RefreshWithLock(p) PROVE KeyInv'
    <3>1. /\ UNCHANGED <<file, written, erased, persisting, faults>> /\ lock = Free /\ Readable
          /\ \A q \in Processes \ {p} : at'[q] = at[q] /\ snapshot'[q] = snapshot[q] /\ data'[q] = data[q]
          /\ at[p] = "waiting"
      BY <2>4, <2>k DEF RefreshWithLock, history
    <3>2. at'[p] = "releasing" \/ (at'[p] = "refreshing" /\ snapshot'[p] = file)
      BY <2>4, <2>k DEF RefreshWithLock
    <3> QED
      BY <3>1, <3>2, <2>q
  <2>5. ASSUME NEW p \in Processes, ParseFails(p) PROVE KeyInv'
    BY <2>5, <2>q, <2>k DEF ParseFails, provider, history
  <2>6. ASSUME NEW p \in Processes, LockFails(p) PROVE KeyInv'
    BY <2>6, <2>q, <2>k DEF LockFails, provider, history
  <2>7. ASSUME NEW p \in Processes, TokenRefreshed(p) PROVE KeyInv'
    BY <2>7, <2>q, <2>k DEF TokenRefreshed, history
  <2>8. ASSUME NEW p \in Processes, RefreshFails(p) PROVE KeyInv'
    <3>1. faults \subseteq faults'
      BY <2>8 DEF RefreshFails
    <3> QED
      BY <2>8, <3>1, <2>q, <2>k DEF RefreshFails
  <2>9. ASSUME NEW p \in Processes, LockCompromised(p) PROVE KeyInv'
    BY <2>9, <2>q, <2>k DEF LockCompromised, provider, history
  \* From here on the step is one of the process that holds the lock.
  <2>10. ASSUME NEW p \in Processes, ~Persisting(p), BeginWrite(p) PROVE KeyInv'
    <3>1. CASE {"lockLost", "fileReplaced"} \cap faults = {}
      <4>1. /\ at[p] = "refreshed" /\ at'[p] = "writing" /\ file' = Truncated
            /\ UNCHANGED <<data, snapshot, persisting>> /\ \A q \in Processes \ {p} : at'[q] = at[q]
        BY <2>10, <2>k DEF BeginWrite
      <4>2. Expected' = data[p].key
        <5>1. snapshot[p].key = Expected
          BY <3>1, <4>1 DEF KeyInv
        <5> QED
          BY <2>10, <5>1 DEF BeginWrite, Expected
      <4>3. \A q \in Processes \ {p} : at'[q] \notin Holding /\ ~Writing(q)'
        BY <3>1, <4>1, <2>h DEF Holding, Writing, Persisting
      <4>4. file' # Absent /\ file'.key = NoKey /\ Writing(p)' /\ ~Persisting(p)'
        BY <2>10, <4>1, <1>n, Distinct, NothingValid DEF Writing, Persisting
      <4>5. \A q \in Processes \ {p} : at'[q] \notin {"refreshing", "refreshed", "writing"} /\ ~Persisting(q)'
        BY <4>3 DEF Holding, Writing
      <4>6. data'[p].key = Expected'
        BY <4>1, <4>2
      <4> QED
        BY <4>1, <4>3, <4>4, <4>5, <4>6 DEF KeyInv
    <3>2. CASE {"lockLost", "fileReplaced"} \cap faults # {}
      BY <2>10, <3>2, <2>g DEF BeginWrite
    <3> QED
      BY <3>1, <3>2
  \* The process p ends its write, or dies in it.
  <2>w. ASSUME NEW p \in Processes, Writing(p), ~Writing(p)', at'[p] \notin {"refreshing", "refreshed", "writing"},
               faults \subseteq faults',
               \A q \in Processes \ {p} : at'[q] = at[q] /\ persisting'[q] = persisting[q],
               file' \in AllCredentials \cup {Torn, Absent},
               {"lockLost", "fileReplaced"} \cap faults = {} =>
                  file' # Absent /\ (file' \in AllCredentials => file'.key = Expected')
        PROVE  KeyInv'
    <3>1. CASE {"lockLost", "fileReplaced"} \cap faults = {}
      <4>1. \A q \in Processes \ {p} : ~Writing(q)' /\ at'[q] \notin {"refreshing", "refreshed", "writing"}
        BY <2>w, <2>h, <3>1 DEF Writing, Persisting, Holding
      <4>2. \A q \in Processes : ~Writing(q)' /\ at'[q] \notin {"refreshing", "refreshed", "writing"} /\ ~Persisting(q)'
        BY <2>w, <4>1 DEF Writing
      <4>3. Readable' => file'.key = Expected'
        BY <2>w, <3>1 DEF Readable
      <4> QED
        BY <2>w, <3>1, <4>2, <4>3 DEF KeyInv
    <3>2. CASE {"lockLost", "fileReplaced"} \cap faults # {}
      BY <2>w, <3>2, <2>g
    <3> QED
      BY <3>1, <3>2
  <2>11. ASSUME NEW p \in Processes, ~Persisting(p), EndWrite(p) PROVE KeyInv'
    <3>1. /\ at[p] = "writing" /\ at'[p] = "releasing" /\ file' = data[p] /\ faults' = faults
          /\ UNCHANGED <<written, erased, persisting>> /\ \A q \in Processes \ {p} : at'[q] = at[q]
      BY <2>11, <2>k DEF EndWrite, history
    <3>2. file' \in AllCredentials /\ file' # Absent
      BY <3>1, <2>k, Distinct
    <3>3. {"lockLost", "fileReplaced"} \cap faults = {} => file'.key = Expected'
      BY <3>1 DEF KeyInv, Expected
    <3> QED
      BY <2>11, <3>1, <3>2, <3>3, <2>w DEF Writing, Persisting
  <2>12. ASSUME NEW p \in Processes, Release(p) PROVE KeyInv'
    BY <2>12, <2>q, <2>k DEF Release, provider, history
  <2>13. ASSUME NEW p \in Processes, Recheck(p) PROVE KeyInv'
    BY <2>13, <2>q, <2>k, <2>l DEF Recheck, Return, provider, history
  <2>14. ASSUME NEW p \in Processes, GetApiKey(p) PROVE KeyInv'
    BY <2>14, <2>q, <2>k DEF GetApiKey, Return, provider, history
  <2>15. ASSUME NEW p \in Processes, Login(p) PROVE KeyInv'
    <3>1. issued' \in Nat
      BY <2>15, <2>k DEF Login
    <3>2. Readable => /\ [file EXCEPT !.token = issued'] \in AllCredentials
                      /\ [file EXCEPT !.token = issued'].key = file.key
      BY <2>r, <3>1, ChangesToken
    <3>3. \A q \in Processes \ {p} : data'[q] = data[q]
      BY <2>15, <2>k DEF Login
    <3> QED
      BY <2>15, <2>p, <3>2, <3>3 DEF Login, MayCall, CanPersist, history, Expected
  <2>16. ASSUME NEW p \in Processes, Logout(p) PROVE KeyInv'
    <3>2. Readable => /\ [file EXCEPT !.token = NoToken] \in AllCredentials
                      /\ [file EXCEPT !.token = NoToken].key = file.key
      BY <2>r, ChangesToken DEF NoToken
    <3>3. \A q \in Processes \ {p} : data'[q] = data[q]
      BY <2>16, <2>k DEF Logout
    <3> QED
      BY <2>16, <2>p, <3>2, <3>3 DEF Logout, MayCall, CanPersist, history, Expected
  <2>17. ASSUME NEW p \in Processes, NEW key \in Keys, SetKey(p, key) PROVE KeyInv'
    <3>2. Readable => /\ [file EXCEPT !.key = key] \in AllCredentials
                      /\ [file EXCEPT !.key = key].key = key
      BY <2>r, ChangesKey
    <3>3. \A q \in Processes \ {p} : data'[q] = data[q]
      BY <2>17, <2>k DEF SetKey
    <3>4. CanPersist(p) => Readable /\ Expected' = key
      BY <2>17 DEF SetKey, Expected, CanPersist
    <3>5. ~CanPersist(p) => UNCHANGED <<written, erased>>
      BY <2>17 DEF SetKey
    <3> QED
      BY <2>17, <2>p, <3>2, <3>3, <3>4, <3>5 DEF SetKey, MayCall
  <2>a. ASSUME NEW p \in Processes, Persisting(p) PROVE persisting[p] \in AllCredentials /\ at[p] # "writing"
    BY <2>a, <2>k DEF Persisting, LockInv, CallerInv, Awaiting
  <2>18. ASSUME NEW p \in Processes, EndPersist(p) PROVE KeyInv'
    <3>1. /\ Persisting(p) /\ file' = persisting[p] /\ UNCHANGED <<written, erased, faults, at>>
          /\ \A q \in Processes \ {p} : persisting'[q] = persisting[q]
          /\ ~Persisting(p)'
      BY <2>18, <2>k DEF EndPersist, history, process, Persisting
    <3>2. file' \in AllCredentials /\ file' # Absent
      BY <3>1, <2>a, Distinct
    <3>3. {"lockLost", "fileReplaced"} \cap faults = {} => file'.key = Expected'
      BY <3>1 DEF KeyInv, Expected
    <3>4. CASE {"lockLost", "fileReplaced"} \cap faults = {}
      <4>1. at'[p] \notin {"refreshing", "refreshed", "writing"}
        BY <3>1, <3>4 DEF LockInv, HolderInv, Holding
      <4> QED
        BY <3>1, <3>2, <3>3, <4>1, <2>w DEF Writing
    <3>5. CASE {"lockLost", "fileReplaced"} \cap faults # {}
      BY <3>1, <3>5, <2>g
    <3> QED
      BY <3>4, <3>5
  <2>19. ASSUME NEW p \in Processes, WriteFails(p) PROVE KeyInv'
    <3>1. CASE {"lockLost", "fileReplaced"} \cap faults = {}
      <4>1. Writing(p) /\ file' \in {file, Torn} /\ Expected' = NoKey /\ faults \subseteq faults'
        BY <2>19 DEF WriteFails, Expected
      <4>2. /\ \A q \in Processes \ {p} : at'[q] = at[q] /\ persisting'[q] = persisting[q]
            /\ ~Writing(p)' /\ at'[p] \notin {"refreshing", "refreshed", "writing"}
        <5>1. CASE Persisting(p)
          <6>1. at[p] \notin {"refreshing", "refreshed", "writing"}
            BY <3>1, <5>1 DEF LockInv, HolderInv, Holding
          <6> QED
            BY <2>19, <2>k, <5>1, <6>1 DEF WriteFails, Writing, Persisting
        <5>2. CASE ~Persisting(p)
          BY <2>19, <2>k, <5>2 DEF WriteFails, Writing, Persisting
        <5> QED
          BY <5>1, <5>2
      <4>3. file # Absent /\ (Readable => file.key = NoKey)
        BY <3>1, <4>1 DEF KeyInv
      <4>4. file' # Absent /\ (file' \in AllCredentials => file'.key = NoKey)
        BY <4>1, <4>3, Distinct DEF Readable
      <4>5. file' \in AllCredentials \cup {Torn, Absent}
        BY <4>1 DEF AuthTypeOK
      <4> QED
        BY <4>1, <4>2, <4>4, <4>5, <2>w
    <3>2. CASE {"lockLost", "fileReplaced"} \cap faults # {}
      BY <2>19, <3>2, <2>g DEF WriteFails
    <3> QED
      BY <3>1, <3>2
  <2>21. ASSUME NEW p \in Processes, Crash(p) PROVE KeyInv'
    <3>0. /\ at'[p] = "down" /\ ~Persisting(p)' /\ ~Writing(p)' /\ faults \subseteq faults'
          /\ \A q \in Processes \ {p} : /\ at'[q] = at[q] /\ data'[q] = data[q] /\ snapshot'[q] = snapshot[q]
                                        /\ persisting'[q] = persisting[q]
      BY <2>21, Dying DEF Crash, Writing
    <3>1. CASE {"lockLost", "fileReplaced"} \cap faults # {}
      BY <3>0, <3>1, <2>g
    <3>2. CASE Writing(p) /\ {"lockLost", "fileReplaced"} \cap faults = {}
      <4>1. Expected' = NoKey /\ file' \in {file, Torn}
        BY <2>21, <3>2 DEF Crash, Expected
      <4>2. file # Absent /\ (Readable => file.key = NoKey)
        BY <3>2 DEF KeyInv
      <4>3. file' # Absent /\ (file' \in AllCredentials => file'.key = NoKey)
        BY <4>1, <4>2, Distinct DEF Readable
      <4>4. file' \in AllCredentials \cup {Torn, Absent}
        BY <4>1 DEF AuthTypeOK
      <4> QED
        BY <3>0, <3>2, <4>1, <4>3, <4>4, <2>w
    <3>3. CASE ~Writing(p) /\ {"lockLost", "fileReplaced"} \cap faults = {}
      <4>1. UNCHANGED <<file, written>> /\ Expected' = Expected
        BY <2>21, <3>3 DEF Crash, Expected
      <4>2. persisting' = persisting
        BY <2>21, <3>3, <2>k DEF Crash, Dies, Writing, Persisting
      <4>3. \A q \in Processes : /\ at'[q] \in {"refreshing", "refreshed"} =>
                                       at[q] \in {"refreshing", "refreshed"} /\ snapshot'[q] = snapshot[q]
                                 /\ at'[q] = "writing" <=> at[q] = "writing"
                                 /\ at'[q] = "writing" => data'[q] = data[q]
        BY <3>0, <3>3 DEF Writing
      <4> QED
        BY <3>0, <4>1, <4>2, <4>3, <2>q
    <3> QED
      BY <3>1, <3>2, <3>3
  <2>22. ASSUME NEW p \in Processes, DiesBeforeUnlock(p) PROVE KeyInv'
    <3>0. /\ at'[p] = "down" /\ ~Persisting(p)' /\ ~Writing(p)' /\ faults \subseteq faults'
          /\ \A q \in Processes \ {p} : at'[q] = at[q] /\ persisting'[q] = persisting[q]
          /\ Persisting(p) /\ file' = persisting[p] /\ Expected' = Expected
      BY <2>22, Dying DEF DiesBeforeUnlock, Writing, Expected
    <3>1. file' \in AllCredentials /\ file' # Absent
      BY <3>0, <2>a, Distinct
    <3>2. {"lockLost", "fileReplaced"} \cap faults = {} => file'.key = Expected'
      BY <3>0 DEF KeyInv
    <3> QED
      BY <3>0, <3>1, <3>2, <2>w DEF Writing
  <2>23. CASE Expire
    BY <2>23, <2>q DEF Expire, process, history
  <2>24. CASE LockGetsStale
    BY <2>24, <2>q DEF LockGetsStale, process, history
  <2>25. CASE LockTaken
    BY <2>25, <2>g DEF LockTaken
  <2>26. CASE UNCHANGED authVars
    BY <2>26, <2>q DEF authVars, process, history
  <2> QED
    BY <2>1, <2>2, <2>3, <2>4, <2>5, <2>6, <2>7, <2>8, <2>9, <2>10, <2>11, <2>12, <2>13, <2>14, <2>15,
       <2>16, <2>17, <2>18, <2>19, <2>21, <2>22, <2>23, <2>24, <2>25, <2>26 DEF AuthNext, Progress
<1>3. KeyInv => OtherCredentialsKept
  BY DEF KeyInv, OtherCredentialsKept, Expected
<1> QED
  BY <1>1, <1>2, <1>3, AuthTyped, LockHeld, PTL DEF AuthSpec

-----------------------------------------------------------------------------
(* The process that loses the race                                         *)

\* getApiKey after a failed refresh: for any number of processes, no failure is
\* reported while the file holds a valid token, unless a lock was lost, or the lock is
\* an orphan or held by one who has found or stored the token and awaits the release.
THEOREM LoserUsesTheWinner == AuthSpec => LoserUsesWinner
<1>1. ASSUME AuthTypeOK, LockInv, [AuthNext]_authVars, NEW p \in Processes,
             at[p] = "failed", at'[p] = "idle", ~Valid(data'[p].token), Readable, Valid(file.token),
             "lockLost" \notin faults
      PROVE  lock = Orphaned \/ \E q \in Processes : lock = q /\ at[q] = "releasing"
  <2>k. /\ at \in [Processes -> CallPlaces] /\ data \in [Processes -> AllCredentials]
        /\ lock \in Processes \cup {Free, Orphaned}
    BY <1>1 DEF AuthTypeOK
  <2> USE <1>1, <2>k
  <2>1. Recheck(p)
    <3>1. ASSUME NEW q \in Processes, Progress(q) PROVE Recheck(p)
      BY <3>1 DEF Progress, EndPersist, process, Start, CreateFile, Load, RefreshWithLock, ParseFails, LockFails,
         TokenRefreshed, RefreshFails, LockCompromised, BeginWrite, EndWrite, Release, Recheck, Return
    <3>2. ASSUME NEW q \in Processes,
                 GetApiKey(q) \/ Login(q) \/ Logout(q) \/ Crash(q) \/ DiesBeforeUnlock(q) \/ WriteFails(q)
          PROVE  FALSE
      BY <3>2 DEF GetApiKey, Login, Logout, Crash, DiesBeforeUnlock, Dies, WriteFails, Return
    <3>3. ASSUME NEW q \in Processes, NEW key \in Keys, SetKey(q, key) PROVE FALSE
      BY <3>3 DEF SetKey
    <3>4. CASE Expire \/ LockGetsStale \/ LockTaken \/ UNCHANGED authVars
      BY <3>4 DEF Expire, LockGetsStale, LockTaken, authVars, process
    <3> QED
      BY <3>1, <3>2, <3>3, <3>4 DEF AuthNext
  <2>2. CASE lock = Free
    <3>1. data'[p] = file
      BY <2>1, <2>2 DEF Recheck, Reload
    <3>2. expired' = expired
      BY <2>1 DEF Recheck, provider
    <3> QED
      BY <3>1, <3>2 DEF Valid
  <2>3. CASE lock \in Processes
    BY <2>3 DEF LockInv, LockedInv
  <2> QED
    BY <2>2, <2>3
<1>2. AuthTypeOK /\ LockInv /\ [AuthNext]_authVars =>
        [\A p \in Processes :
            (/\ at[p] = "failed" /\ at'[p] = "idle" /\ ~Valid(data'[p].token)
             /\ Readable /\ Valid(file.token) /\ "lockLost" \notin faults)
              => lock = Orphaned \/ \E q \in Processes : lock = q /\ at[q] = "releasing"]_authVars
  BY <1>1
<1> QED
  BY <1>2, AuthTyped, LockHeld, PTL DEF AuthSpec, LoserUsesWinner
================================================================================
