CONSTANTS
    None = None
    grep = grep
    fetch = fetch
    docs = docs
    lsp = lsp
    lease = lease
    Tools = {grep, fetch}
    Hosts = {docs}
    Servers = {lsp}
    Resources = {lease}
    N = 3
    GlobalMax = 2
    PerTool = 1
    PerHost = 1
    PerServer = 1
    Kinds <- AllKinds
    Consumable <- FirstConsumable
SPECIFICATION FairSpec
INVARIANTS OrderPreserved CanonicalResults LimitsRespected SlotAccounting
PROPERTIES ImplementsToolBatch EventuallyReturned
