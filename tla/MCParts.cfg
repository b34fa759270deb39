SPECIFICATION Spec

CONSTANTS
    hashes_per_tick = 2
    MaxEntries = 4
    MaxSlot = 4
    Transactions <- MCTransactions
    Root = Root
    b1 = b1
    b2 = b2
    b3 = b3
    ForkBlocks = {Root, b1, b2, b3}
    ForkSlot <- MCForkSlot
    ForkParent <- MCForkParent
    Powers <- MCPowers
    Timestamp <- MCTimestamp
    Callers = {1, 2}
    MaxAdds = 3
    RpcTxs = {x, y}
    Clients = {1, 2}
    MaxSends = 3
    MaxNodeSlot = 2
    Word = 9
    U64 = 1
    KEY = 2
INVARIANTS
    HistorySound
    TamperDetected
    ForkSound
    StatusSound
    StateRootExact
    ScheduleSound
    TreeSound
    ErasureSound
    FormatsExact
CHECK_DEADLOCK FALSE
