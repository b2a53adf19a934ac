CONSTANTS
    SteeringMode = "one-at-a-time"
    FollowUpMode = "all"
    ToolExecutions = {"sequential", "parallel"}
    HooksThrow = TRUE
    ListenersPrompt = FALSE
    MaxRuns = 1
    MaxInputs = 3
    MaxToolTurns = 1
    MaxCalls = 2
SPECIFICATION FairAgentSpec
INVARIANTS LoopSeesState RequestsAreSendable ConversationInOrder StreamingWhileRunning
PROPERTY RunsEnd
CHECK_DEADLOCK FALSE
