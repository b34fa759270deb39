\* Gossip and Turbine among three running validators; tables of two entries, and of one,
\* which prune_old empties.
SPECIFICATION Spec
CONSTANTS
    Nodes = {1, 2, 3, 4, 5}
    Running = {1, 2, 5}
    Client = 0
    Bootstrap <- MCBootstrap
    Data = {1, 2, 3}
    Kind <- MCKind
    MAX_DATAGRAM = 1
    Scenarios <- MCScenarios
    Block <- MCBlock
    Deployment <- MCDeployment
    DATA_SHARDS = 2
    PARITY_SHARDS = 1
    SHRED_RETENTION_SLOTS = 1
    PRUNE_INTERVAL = 1
INVARIANTS
    SilentIsSpread
    BlocksArrive
PROPERTIES
    EvictsOldest
    Quiesces
    KeepsReassembled
CHECK_DEADLOCK FALSE
