--------------------------- MODULE LanguageServers ---------------------------
(***************************************************************************)
(* packages/coding-agent/src/core/lsp/manager.ts: the servers that are     *)
(* started for one key, that is for one workspace, language and            *)
(* executable.                                                             *)
(*                                                                         *)
(* A server is known by the number of its process.  The end of a process   *)
(* is one step, the event that tells of it a later one, and a handler is   *)
(* called only when it was registered in between or before.                *)
(***************************************************************************)
EXTENDS Integers, FiniteSets

CONSTANTS
    MaxRestarts,    \* options.maxRestarts
    MaxServers      \* bound on the processes that are spawned

ASSUME LanguageServersAssumption == {MaxRestarts, MaxServers} \subseteq Nat

VARIABLES
    proc,        \* each process: "none", "alive", "answered", "exiting" or "gone"
    phase,       \* its startServer: "none", "starting", "late", "registered" or "over"
    origin,      \* the server it was started to replace, NoServer for getServer
    object,      \* its ManagedServer, once it is initialised
    servers,     \* the entry of the map servers
    starting,    \* the process behind the entry of the map starting
    resolving,   \* restarts that wait for resolveServer, by the server to replace
    delays,      \* number of restarts that wait for their delay
    stopping,    \* the server shutdownAll waits for
    killed,      \* processes that get SIGKILL
    displaced    \* servers that lost their entry to another one, or to shutdownAll

lspVars == <<proc, phase, origin, object, servers, starting, resolving, delays, stopping,
             killed, displaced>>

NoServer == 0
Numbers == 1 .. MaxServers
Living == {n \in Numbers : proc[n] \in {"alive", "answered"}}

Managed(state, restarts) == [state |-> state, restartCount |-> restarts, lastError |-> "none"]

LspInit ==
    /\ proc = [n \in Numbers |-> "none"] /\ phase = [n \in Numbers |-> "none"]
    /\ origin = [n \in Numbers |-> NoServer] /\ object = [n \in Numbers |-> Managed("none", 0)]
    /\ servers = NoServer /\ starting = NoServer
    /\ resolving = {} /\ delays = 0 /\ stopping = NoServer
    /\ killed = {} /\ displaced = {}

State(n) == IF n = NoServer THEN "none" ELSE object[n].state

Unused(n) == proc[n] = "none" /\ \A m \in 1 .. n - 1 : proc[m] # "none"

SpawnServer(n, old) ==
    /\ Unused(n)
    /\ proc' = [proc EXCEPT ![n] = "alive"]
    /\ phase' = [phase EXCEPT ![n] = "starting"]
    /\ origin' = [origin EXCEPT ![n] = old]

\* servers.set: whoever was there before is out of reach.
SetServer(n) ==
    /\ servers' = n
    /\ displaced' = displaced \union ({servers} \ {NoServer, n})

(***************************************************************************)
(* getServer                                                               *)
(***************************************************************************)
\* An entry that is running or degraded is returned, and a startup under way
\* is waited for: neither changes anything.
GetServer(n) ==
    /\ State(servers) \notin {"running", "degraded"}
    /\ starting = NoServer
    /\ SpawnServer(n, NoServer) /\ starting' = n
    /\ UNCHANGED <<object, servers, resolving, delays, stopping, killed, displaced>>

(***************************************************************************)
(* startServer                                                             *)
(***************************************************************************)
Answers(n) ==
    /\ proc[n] = "alive" /\ phase[n] \in {"starting", "late"}
    /\ proc' = [proc EXCEPT ![n] = "answered"]
    /\ UNCHANGED <<phase, origin, object, servers, starting, resolving, delays, stopping, killed, displaced>>

\* Mutant: restartServer does not hand the count on.
RestartCount_Reset(n) == 0

\* The new server of a restart has the count of the old one.
RestartCount(n) == IF origin[n] = NoServer THEN 0 ELSE object[origin[n]].restartCount

\* The answer may be read after its process has ended, and even after the event
\* of its end.
Initialized(n) ==
    /\ phase[n] = "starting" /\ proc[n] \in {"answered", "exiting after answer", "gone after answer"}
    /\ phase' = [phase EXCEPT ![n] = "registered"]
    /\ object' = [object EXCEPT ![n] = Managed("running", RestartCount(n))]
    /\ SetServer(n)
    /\ starting' = IF starting = n THEN NoServer ELSE starting
    /\ UNCHANGED <<proc, origin, resolving, delays, stopping, killed>>

\* The promise is settled, but the handler of the exit is registered all the same.
InitializedLate(n) ==
    /\ phase[n] = "late" /\ proc[n] \in {"answered", "exiting after answer", "gone after answer"}
    /\ phase' = [phase EXCEPT ![n] = "registered"]
    /\ UNCHANGED <<proc, origin, object, servers, starting, resolving, delays, stopping, killed, displaced>>

\* What follows when startServer rejects: for a restart the old server comes
\* back as crash_loop.
Rejects(n) ==
    IF origin[n] = NoServer
    THEN starting' = NoServer /\ UNCHANGED <<object, servers, displaced>>
    ELSE /\ object' = [object EXCEPT ![origin[n]].state = "crash_loop"]
         /\ SetServer(origin[n]) /\ starting' = starting

\* Mutant: the process is left alone.
StartupTimesOut_NoKill(n) ==
    /\ phase[n] = "starting" /\ phase' = [phase EXCEPT ![n] = "late"]
    /\ killed' = killed /\ Rejects(n)
    /\ UNCHANGED <<proc, origin, resolving, delays, stopping>>

\* The timer of the startup.
StartupTimesOut(n) ==
    /\ phase[n] = "starting" /\ phase' = [phase EXCEPT ![n] = "late"]
    /\ killed' = killed \union {n} /\ Rejects(n)
    /\ UNCHANGED <<proc, origin, resolving, delays, stopping>>

\* The process cannot be run, or initialize fails.
StartupFails(n) ==
    /\ phase[n] = "starting" /\ phase' = [phase EXCEPT ![n] = "over"]
    /\ killed' = killed \union {n} /\ Rejects(n)
    /\ UNCHANGED <<proc, origin, resolving, delays, stopping>>

(***************************************************************************)
(* The end of a process and onExit                                         *)
(***************************************************************************)
Ends(n) ==
    /\ n \in Living
    /\ proc' = [proc EXCEPT ![n] =
          IF @ = "answered" /\ phase[n] # "registered" THEN "exiting after answer" ELSE "exiting"]
    /\ UNCHANGED <<phase, origin, object, servers, starting, resolving, delays, stopping, killed, displaced>>

\* Mutant: a process that was killed has no exit code, and is not restarted.
Crashed_Positive(code) == code = "positive"

Crashed(code) == code # "zero"

\* onExit looks at the entry of the key, whichever process has ended.
OnExit(code) ==
    IF State(servers) \in {"none", "stopped"}
    THEN UNCHANGED <<object, delays>>
    ELSE LET count == object[servers].restartCount
             again == Crashed(code) /\ count < MaxRestarts
             state == IF ~again /\ count >= MaxRestarts THEN "crash_loop" ELSE "degraded"
         IN  /\ object' = [object EXCEPT ![servers] =
                   [state |-> state, lastError |-> IF code = "zero" THEN "clean" ELSE "crash",
                    restartCount |-> IF again THEN count + 1 ELSE count]]
             /\ delays' = IF again THEN delays + 1 ELSE delays

ExitEvent(n, code) ==
    /\ proc[n] \in {"exiting", "exiting after answer"}
    /\ proc' = [proc EXCEPT ![n] = IF @ = "exiting" THEN "gone" ELSE "gone after answer"]
    /\ IF phase[n] = "registered" THEN OnExit(code) ELSE UNCHANGED <<object, delays>>
    /\ UNCHANGED <<phase, origin, servers, starting, resolving, stopping, killed, displaced>>

(***************************************************************************)
(* restartServer                                                           *)
(***************************************************************************)
RestartBegins ==
    /\ delays > 0 /\ delays' = delays - 1
    /\ IF State(servers) \in {"none", "stopped"}
       THEN UNCHANGED <<servers, resolving, killed>>
       ELSE /\ killed' = killed \union {servers} /\ resolving' = resolving \union {servers}
            /\ servers' = NoServer
    /\ UNCHANGED <<proc, phase, origin, object, starting, stopping, displaced>>

\* The executable is still there, or is not.
RestartResolves(old) ==
    /\ old \in resolving /\ resolving' = resolving \ {old}
    /\ \/ \E n \in Numbers : SpawnServer(n, old)
       \/ UNCHANGED <<proc, phase, origin>>
    /\ UNCHANGED <<object, servers, starting, delays, stopping, killed, displaced>>

(***************************************************************************)
(* shutdownAll                                                             *)
(***************************************************************************)
ShutdownAll ==
    /\ stopping = NoServer /\ State(servers) \notin {"none", "stopped"}
    /\ stopping' = servers
    /\ object' = [object EXCEPT ![servers].state = "stopped"]
    /\ UNCHANGED <<proc, phase, origin, servers, starting, resolving, delays, killed, displaced>>

\* The request shutdown was answered or timed out.
ShutdownEnds ==
    /\ stopping # NoServer /\ stopping' = NoServer
    /\ killed' = killed \union {stopping}
    /\ servers' = NoServer /\ displaced' = displaced \union ({servers} \ {NoServer})
    /\ UNCHANGED <<proc, phase, origin, object, starting, resolving, delays>>

LspNext ==
    \/ \E n \in Numbers :
          \/ GetServer(n) \/ Answers(n) \/ Initialized(n) \/ InitializedLate(n)
          \/ StartupTimesOut(n) \/ StartupFails(n)
          \/ Ends(n) \/ \E code \in {"zero", "positive", "signal"} : ExitEvent(n, code)
          \/ RestartResolves(n)
    \/ RestartBegins \/ ShutdownAll \/ ShutdownEnds

LspSpec == LspInit /\ [][LspNext]_lspVars

(***************************************************************************)
(* Properties                                                              *)
(***************************************************************************)
\* restartCount: however starts, restarts and exits overlap, no more servers are
\* started on their own than maxRestarts for each that was asked for.
RestartsBounded ==
    LET asked == {n \in Numbers : proc[n] # "none" /\ origin[n] = NoServer}
        restarted == {n \in Numbers : origin[n] # NoServer}
    IN  Cardinality(restarted) <= MaxRestarts * Cardinality(asked)

\* startServer, restartServer, shutdownAll: a live process is being started, is
\* the one in the map, or gets SIGKILL, unless another server took its entry.
ServersAreHeld ==
    \A n \in Living :
        phase[n] = "starting" \/ servers = n \/ n \in killed \/ n \in displaced

\* onExit: a server that crashed stays in the map as degraded, where getServer goes
\* on returning it, only until a restart that is under way removes it.
CrashedServerLeaves ==
    servers # NoServer /\ object[servers].state = "degraded" /\ object[servers].lastError = "crash"
        => delays > 0

\* No server is stranded: neither a process nobody holds, nor a crashed one that
\* getServer goes on returning.
NoServerIsStranded == ServersAreHeld /\ CrashedServerLeaves

\* "One reusable server per (workspace, language, executable); duplicate server
\* startup is prevented" (manager.ts:17); one that is asked to stop does not count.
OneServer ==
    Cardinality({n \in Living \ killed :
        phase[n] \in {"starting", "registered"} /\ object[n].state # "stopped"}) <= 1
=============================================================================
