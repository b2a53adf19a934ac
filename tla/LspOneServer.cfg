CONSTANTS
    MaxRestarts = 2
    MaxServers = 4
SPECIFICATION LspSpec
INVARIANT OneServer
CHECK_DEADLOCK FALSE
