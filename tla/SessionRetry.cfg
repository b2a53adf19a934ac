CONSTANTS
    Outcomes = {"ok", "retryable", "fatal", "overflow"}
    Throws = TRUE
    MaxRetries = 1
    Fallbacks = 1
    SlowExtensions = FALSE
    PromptsWait = TRUE
    QuickRuns = FALSE
    MaxPrompts = 2
    MaxTurns = 1
    MaxSteers = 0
    MaxCompactions = 2
SPECIFICATION AgentSessionSpec
INVARIANTS  RetriesBounded
 
CHECK_DEADLOCK FALSE
