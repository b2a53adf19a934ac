CONSTANTS
    pa = pa
    pb = pb
    Processes = {pa, pb}
    Paths = {1, 2}
    edits <- MCEdits
    MaxUserEdits = 1
    MaxRecoveries = 1
    MaxErrors = 1
SPECIFICATION WorkspaceSpec
INVARIANTS LeaseIsExclusive LeaseIsReleased TransactionIsAtomic
PROPERTY RollbackSparesUserEdits
CONSTRAINT FewDisturbances
CHECK_DEADLOCK FALSE
