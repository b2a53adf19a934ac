CONSTANTS
    pa = pa
    pb = pb
    Processes = {pa}
    Paths = {1, 2}
    edits <- MCEdits
    MaxUserEdits = 0
    MaxRecoveries = 0
    MaxErrors = 0
SPECIFICATION WorkspaceSpec
INVARIANT RecoveryNeedsDrift
CHECK_DEADLOCK FALSE
