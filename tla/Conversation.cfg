CONSTANTS
    Messages <- MCMessages
    MaxLength = 5
    MaxMessages = 9
    MaxCalls = 2
    Sizes = {1, 3}
    KeepRecent = 3
    MaxEntries = 6
    MaxPathCalls = 2
    todo = todo
    NoLabel = NoLabel
    Labels = {}
    MaxFiles = 2
    MaxLines = 4
    InitialDisks <- WithIds
    TornWrites = TRUE
SPECIFICATION ConversationSpec
INVARIANTS
    ValidatorsAreExact RestoreTrimsExactly
    CompactionIsSound SessionIsSound
PROPERTY ReadableFilesOnlyGrow
CHECK_DEADLOCK FALSE
