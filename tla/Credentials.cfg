CONSTANTS
    Processes = {p, q}
    Keys = {1}
    MaxTokens = 3
    MaxFaults = 1
SPECIFICATION FairAuthSpec
INVARIANTS StoredTokenIsUnused OtherCredentialsKept
PROPERTIES LoserUsesWinner GetApiKeyReturns
CHECK_DEADLOCK FALSE
