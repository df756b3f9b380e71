\* The start, the routes and the shutdown of the facilitator server.
SPECIFICATION Spec
CONSTANTS
    Files <- MCFiles
    Vars = {"KEY"}
    Clients = {c1, c2}
    Requests <- MCRequests
    Numerals <- MCNumerals
    Genesis <- MCGenesis
INVARIANTS OneProviderPerChain ServedAsConfigured
PROPERTIES OnlyQueuedIsLost ShutdownEnds
