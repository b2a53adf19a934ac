CONSTANTS
    Outcomes = {"ok", "retryable", "fatal"}
    Throws = FALSE
    MaxRetries = 1
    Fallbacks = 0
    SlowExtensions = FALSE
    PromptsWait = TRUE
    QuickRuns = TRUE
    MaxPrompts = 1
    MaxTurns = 0
    MaxSteers = 0
    MaxCompactions = 0
SPECIFICATION FairSessionSpec
PROPERTY PromptReturns
CHECK_DEADLOCK FALSE
