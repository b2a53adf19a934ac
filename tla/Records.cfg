CONSTANTS
    MaxTransitions = 9
    Commands = {c1, c2}
    Continuations = {1, 2}
    Ahead = 1
    MaxEvents = 4
    MaxRevision = 1
    Requirements = {"r"}
    Rules <- MCRules
    InitiallyOut = {}
    Authorities = {1, 3}
    MaxEvidence = 2
    MaxLedgerTransitions = 4
    todo = todo
    NoLabel = NoLabel
    Labels = {todo}
    MaxFiles = 2
    MaxLines = 3
    InitialDisks <- AnyVersion
    TornWrites = TRUE
    Plans <- MCPlans
    Updates <- MCUpdates
    TodoSessions = {1}
    MaxSnapshots = 2
    MaxTodoRevision = 3
    MaxPoints = 0
    Pids = {1, 2}
    MaxStarts = 2
    RequireIsDefined = TRUE
    MaxRestarts = 1
    MaxServers = 3
SPECIFICATION RecordsSpec
INVARIANTS
    ExecutionIsSound CommandsAreSound LedgerIsSound
    ReloadRestores
    RevisionNamesList
     
    NoServerIsStranded RestartsBounded
PROPERTIES ResumesWhereBlocked UpdatesSpareOthers
CHECK_DEADLOCK FALSE
