-------------------------------- MODULE Jobs --------------------------------
(***************************************************************************)
(* packages/coding-agent/src/core/jobs: one background job, the file with  *)
(* its record, and the processes that are started for it.                  *)
(*                                                                         *)
(* A process is known by the number of its start (processStartIdentity)    *)
(* and lives at a pid, which the system gives to another process once it   *)
(* is free.  The tools of the registry run one at a time; the handlers of  *)
(* the exit of a process and the timer that kills it run in between.       *)
(* Reading a record and writing it back are two steps.                     *)
(***************************************************************************)
EXTENDS Integers, FiniteSets

CONSTANTS
    Pids,              \* the pids of the system
    MaxStarts,         \* bound on the attempts to start a process
    RequireIsDefined   \* is the module loader's require there: with Bun, not with Node

ASSUME JobsAssumption ==
    MaxStarts \in Nat /\ Pids \subseteq Nat \ {0} /\ RequireIsDefined \in BOOLEAN

VARIABLES
    os,         \* the process at each pid, Nobody when it is free
    starts,     \* number of processes started so far
    ours,       \* the processes that were started for the job
    alike,      \* other processes whose command line names the executable
    record,     \* the record in the file
    task,       \* the tool call the registry is busy with
    handlers,   \* the calls of onExit and onError under way
    tracked,    \* the entry of the job in the map running
    timers,     \* pids that get SIGKILL two seconds after SIGTERM
    watched,    \* processes whose exit this registry is told of
    struck,     \* other processes that got SIGTERM
    adopted,    \* other processes that were adopted
    lost,       \* was a newer record overwritten, or an exit recorded for another process?
    forgotten   \* did the registry die while it was starting or killing a process?

jobHistory == <<struck, adopted, lost, forgotten>>
jobVars == <<os, starts, ours, alike, record, task, handlers, tracked, timers, watched, jobHistory>>

Nobody == 0
NoPid == 0
Terminal == {"stopped", "exited", "failed"}

JobRecord(state, pid, start) == [state |-> state, pid |-> pid, start |-> start]
NoRecord == JobRecord("none", NoPid, Nobody)

\* copy: the record as the call read it; after: what the call is part of
Task(where, copy, after) ==
    [at |-> where, copy |-> copy, after |-> after, pid |-> NoPid, start |-> Nobody]
NoTask == Task("idle", NoRecord, "idle")

Handler(start, state) == [start |-> start, state |-> state, read |-> FALSE, copy |-> NoRecord]

JobsInit ==
    /\ os = [pid \in Pids |-> Nobody] /\ starts = 0 /\ ours = {} /\ alike = {}
    /\ record = NoRecord /\ task = NoTask /\ handlers = {} /\ tracked = Nobody
    /\ timers = {} /\ watched = {}
    /\ struck = {} /\ adopted = {} /\ lost = FALSE /\ forgotten = FALSE

At(pid) == IF pid = NoPid THEN Nobody ELSE os[pid]

\* readProcessIdentity: when require is not defined, the exception is caught
\* and every process counts as gone.
Live(pid) == IF RequireIsDefined THEN At(pid) ELSE Nobody

\* persist: new is made of a copy of the record, whatever the file holds by now.
PersistRecord(copy, new) ==
    /\ record' = new
    /\ lost' = (lost \/ copy # record)

InState(copy, state) == [copy EXCEPT !.state = state]

(***************************************************************************)
(* start, and the second half of restart                                   *)
(***************************************************************************)
\* register: a record that says nothing of earlier processes.
Register(after) ==
    /\ record' = InState(NoRecord, "starting")
    /\ task' = Task("registered", record', after)
    /\ UNCHANGED <<os, starts, ours, alike, handlers, tracked, timers, watched, jobHistory>>

StartJob == task = NoTask /\ record = NoRecord /\ starts = 0 /\ Register("idle")

\* The exit of the process is reported later than its identity is read.
Spawn ==
    /\ task.at = "registered" /\ starts < MaxStarts
    /\ \E pid \in {x \in Pids : os[x] = Nobody} :
          LET new == starts + 1 IN
          /\ starts' = new /\ os' = [os EXCEPT ![pid] = new]
          /\ ours' = ours \union {new} /\ watched' = watched \union {new}
          /\ task' = [task EXCEPT !.at = "spawned", !.pid = pid, !.start = new]
    /\ UNCHANGED <<alike, record, handlers, tracked, timers, jobHistory>>

\* The executable cannot be run: onError is called, and start goes on.
SpawnFails ==
    /\ task.at = "registered" /\ starts < MaxStarts /\ starts' = starts + 1
    /\ task' = [task EXCEPT !.at = "spawned"]
    /\ handlers' = handlers \union {Handler(Nobody, "failed")}
    /\ UNCHANGED <<os, ours, alike, record, tracked, timers, watched, jobHistory>>

PersistRunning ==
    /\ task.at = "spawned"
    /\ PersistRecord(task.copy, JobRecord("running", task.pid, task.start))
    /\ task' = [task EXCEPT !.at = "started", !.copy = record']
    /\ UNCHANGED <<os, starts, ours, alike, handlers, tracked, timers, watched, struck, adopted, forgotten>>

\* restart writes the record once more, with the lineage.
Track ==
    /\ task.at = "started"
    /\ tracked' = task.start
    /\ task' = IF task.after = "restart" THEN [task EXCEPT !.at = "restarted"] ELSE NoTask
    /\ UNCHANGED <<os, starts, ours, alike, record, handlers, timers, watched, jobHistory>>

PersistLineage ==
    /\ task.at = "restarted"
    /\ PersistRecord(task.copy, task.copy) /\ task' = NoTask
    /\ UNCHANGED <<os, starts, ours, alike, handlers, tracked, timers, watched, struck, adopted, forgotten>>

(***************************************************************************)
(* The exit of a process: onExit and onError                               *)
(***************************************************************************)
\* A process ends by itself or on SIGTERM; with which code makes no difference.
ProcessExits(pid) ==
    /\ os[pid] # Nobody /\ os' = [os EXCEPT ![pid] = Nobody]
    /\ handlers' = handlers \union
          (IF os[pid] \in watched THEN {Handler(os[pid], "exited")} ELSE {})
    /\ UNCHANGED <<starts, ours, alike, record, task, tracked, timers, watched, jobHistory>>

\* Mutant: onExit returns early when the job is not in the map running.
HandlerReads_OnlyTracked(h) ==
    /\ ~h.read
    /\ handlers' = (handlers \ {h}) \union
          (IF tracked # h.start THEN {} ELSE {[h EXCEPT !.read = TRUE, !.copy = record]})
    /\ UNCHANGED <<os, starts, ours, alike, record, task, tracked, timers, watched, jobHistory>>

HandlerReads(h) ==
    /\ ~h.read
    /\ handlers' = (handlers \ {h}) \union
          (IF record.state = "none" THEN {} ELSE {[h EXCEPT !.read = TRUE, !.copy = record]})
    /\ UNCHANGED <<os, starts, ours, alike, record, task, tracked, timers, watched, jobHistory>>

HandlerPersists(h) ==
    /\ h.read /\ handlers' = handlers \ {h}
    /\ record' = InState(h.copy, h.state) /\ tracked' = Nobody
    /\ lost' = (lost \/ h.copy # record \/ h.copy.start # h.start)
    /\ UNCHANGED <<os, starts, ours, alike, task, timers, watched, struck, adopted, forgotten>>

(***************************************************************************)
(* stop, and what begins with it: restart, remove and shutdown             *)
(***************************************************************************)
StopJob(after) ==
    /\ task = NoTask /\ record.state # "none"
    /\ task' = Task(IF record.state \in Terminal THEN "stopped" ELSE "stopping", record, after)
    /\ UNCHANGED <<os, starts, ours, alike, record, handlers, tracked, timers, watched, jobHistory>>

\* Mutant: the start times are not compared.
Matches_PidOnly(copy) == Live(copy.pid) # Nobody

\* identityMatches: the process at the pid is the one that was recorded.
Matches(copy) == Live(copy.pid) = copy.start

\* The identity is read and the signal is sent without a pause.
StopSignals ==
    /\ task.at = "stopping"
    /\ LET copy == task.copy
           live == Live(copy.pid)
       IN  \/ /\ live = Nobody
              /\ task' = [task EXCEPT !.at = "killed"]
              /\ UNCHANGED <<record, timers, struck, lost>>
           \/ /\ live # Nobody /\ ~Matches(copy)
              /\ PersistRecord(copy, InState(copy, "adoption_required")) /\ task' = [task EXCEPT !.at = "stopped"]
              /\ UNCHANGED <<timers, struck>>
           \/ /\ live # Nobody /\ Matches(copy)
              /\ timers' = timers \union {copy.pid} /\ struck' = struck \union ({live} \ (ours \union adopted))
              /\ task' = [task EXCEPT !.at = "waiting"]
              /\ UNCHANGED <<record, lost>>
    /\ UNCHANGED <<os, starts, ours, alike, handlers, tracked, watched, adopted, forgotten>>

\* A tracked process is waited for until its exit is handled, or for five
\* seconds, when the timer is over; another one for a second and a half.
StopWaitEnds ==
    /\ task.at = "waiting"
    /\ \/ tracked = Nobody
       \/ task.copy.pid \notin timers
       \/ Live(task.copy.pid) # task.copy.start /\ \A h \in handlers : h.start # task.copy.start
    /\ task' = [task EXCEPT !.at = "killed"]
    /\ UNCHANGED <<os, starts, ours, alike, record, handlers, tracked, timers, watched, jobHistory>>

PersistStopped ==
    /\ task.at = "killed"
    /\ PersistRecord(task.copy, InState(task.copy, "stopped")) /\ task' = [task EXCEPT !.at = "stopped"]
    /\ UNCHANGED <<os, starts, ours, alike, handlers, tracked, timers, watched, struck, adopted, forgotten>>

StopEnds ==
    /\ task.at = "stopped"
    /\ \/ task.after = "idle" /\ task' = NoTask /\ UNCHANGED <<record, tracked>>
       \/ task.after = "remove" /\ task' = NoTask /\ record' = NoRecord
          /\ tracked' = tracked
       \/ task.after = "shutdown" /\ task' = NoTask /\ tracked' = Nobody /\ record' = record
    /\ UNCHANGED <<os, starts, ours, alike, handlers, timers, watched, jobHistory>>

Restarts == task.at = "stopped" /\ task.after = "restart" /\ Register("restart")

\* Mutant: the process is no leader of a group, and the signal finds nobody.
SigKill_NoGroup(pid) ==
    /\ pid \in timers /\ timers' = timers \ {pid}
    /\ UNCHANGED <<os, handlers, starts, ours, alike, record, task, tracked, watched, jobHistory>>

\* The timer of killProcess, which looks at nothing but the pid.  The signal is
\* for a group; a process of the job leads one, another may or may not.
SigKill(pid) ==
    /\ pid \in timers /\ timers' = timers \ {pid}
    /\ \/ os[pid] \notin ours /\ UNCHANGED <<os, handlers>>
       \/ /\ os' = [os EXCEPT ![pid] = Nobody]
          /\ handlers' = handlers \union
                (IF os[pid] \in watched THEN {Handler(os[pid], "failed")} ELSE {})
    /\ UNCHANGED <<starts, ours, alike, record, task, tracked, watched, jobHistory>>

(***************************************************************************)
(* status and adopt                                                        *)
(***************************************************************************)
Status ==
    /\ task = NoTask /\ record.state \notin Terminal \union {"none"}
    /\ task' = Task("inspecting", record, "idle")
    /\ UNCHANGED <<os, starts, ours, alike, record, handlers, tracked, timers, watched, jobHistory>>

StatusEnds ==
    /\ task.at = "inspecting" /\ task' = NoTask
    /\ LET copy == task.copy IN
       IF Live(copy.pid) # Nobody /\ ~Matches(copy)
       THEN PersistRecord(copy, InState(copy, "adoption_required")) ELSE UNCHANGED <<record, lost>>
    /\ UNCHANGED <<os, starts, ours, alike, handlers, tracked, timers, watched, struck, adopted, forgotten>>

Adopt ==
    /\ task = NoTask /\ record.state # "none"
    /\ task' = Task("adopting", record, "idle")
    /\ UNCHANGED <<os, starts, ours, alike, record, handlers, tracked, timers, watched, jobHistory>>

\* The evidence names an executable; a start time never fits on Linux, where
\* ticks are compared with seconds, and may be left out.
AdoptAccepts ==
    /\ task.at = "adopting" /\ task' = NoTask
    /\ LET live == Live(task.copy.pid) IN
       /\ live \in ours \union alike
       /\ PersistRecord(task.copy, JobRecord("running", task.copy.pid, live))
       /\ adopted' = adopted \union ({live} \ ours)
    /\ UNCHANGED <<os, starts, ours, alike, handlers, tracked, timers, watched, struck, forgotten>>

\* job_adopt calls refuseAdoption, which reads the record again.
AdoptRefuses ==
    /\ task.at = "adopting"
    /\ task' = IF record.state = "none" THEN NoTask ELSE Task("refusing", record, "idle")
    /\ UNCHANGED <<os, starts, ours, alike, record, handlers, tracked, timers, watched, jobHistory>>

RefuseAdoption ==
    /\ task.at = "refusing" /\ task' = NoTask
    /\ PersistRecord(task.copy, InState(task.copy, "adoption_required"))
    /\ UNCHANGED <<os, starts, ours, alike, handlers, tracked, timers, watched, struck, adopted, forgotten>>

(***************************************************************************)
(* The environment                                                         *)
(***************************************************************************)
StrangerStarts(pid) ==
    /\ os[pid] = Nobody /\ starts < MaxStarts
    /\ starts' = starts + 1 /\ os' = [os EXCEPT ![pid] = starts']
    /\ \E names \in BOOLEAN : alike' = IF names THEN alike \union {starts'} ELSE alike
    /\ UNCHANGED <<ours, record, task, handlers, tracked, timers, watched, jobHistory>>

\* The processes are detached and go on; nothing of the registry is left.
RegistryDies ==
    /\ record.state # "none"
    /\ task' = NoTask /\ handlers' = {} /\ tracked' = Nobody /\ timers' = {} /\ watched' = {}
    /\ forgotten' = (forgotten \/ timers # {} \/ task.at \in {"spawned", "restarted"})
    /\ UNCHANGED <<os, starts, ours, alike, record, struck, adopted, lost>>

JobsNext ==
    \/ StartJob \/ Spawn \/ SpawnFails \/ PersistRunning \/ Track \/ PersistLineage
    \/ \E h \in handlers : HandlerReads(h) \/ HandlerPersists(h)
    \/ \E after \in {"idle", "restart", "remove", "shutdown"} : StopJob(after)
    \/ StopSignals \/ StopWaitEnds \/ PersistStopped \/ StopEnds \/ Restarts
    \/ Status \/ StatusEnds \/ Adopt \/ AdoptAccepts \/ AdoptRefuses \/ RefuseAdoption
    \/ \E pid \in Pids : ProcessExits(pid) \/ SigKill(pid) \/ StrangerStarts(pid)
    \/ RegistryDies

JobsSpec == JobsInit /\ [][JobsNext]_jobVars

(***************************************************************************)
(* Properties                                                              *)
(***************************************************************************)
\* start, stop, restart and remove: a live process of the job is named by a
\* record that can still be stopped, or SIGKILL is on its way to it, also
\* when its record says stopped or names another process.  The exceptions are a
\* registry that died in the middle and a record that an older one replaced.
NoProcessLeaks ==
    \A pid \in Pids : os[pid] \in ours =>
        \/ record.start = os[pid] /\ record.state \notin Terminal
        \/ pid \in timers
        \/ task.at \in {"spawned", "restarted", "started"} /\ task.start = os[pid]
        \/ lost \/ forgotten

\* onExit: once nothing is under way, a record says running only of a process
\* that lives, unless a write replaced a newer record.
ExitIsRecorded ==
    (task = NoTask /\ handlers = {} /\ record.start \in watched /\ ~lost) =>
        (record.state = "running" => At(record.pid) = record.start)

\* The record tells the truth in both directions: every process of the job is held
\* by it, and what it calls running runs.
JobIsAccountedFor == NoProcessLeaks /\ ExitIsRecorded

\* stop sends SIGTERM to processes of the job only, however often the system
\* reuses their pids, or to one that was adopted by its name.
StrangersAreSpared == struck = {}
=============================================================================
