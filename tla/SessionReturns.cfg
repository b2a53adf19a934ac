CONSTANTS
    Outcomes = {"ok", "retryable"}
    Throws = FALSE
    MaxRetries = 1
    Fallbacks = 1
    SlowExtensions = TRUE
    PromptsWait = TRUE
    QuickRuns = TRUE
    MaxPrompts = 2
    MaxTurns = 0
    MaxSteers = 1
    MaxCompactions = 1
SPECIFICATION FairSessionSpec
INVARIANT WaitersHoldPromise
PROPERTY PromptReturns
CHECK_DEADLOCK FALSE
