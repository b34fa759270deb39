\* Batches of none or at most two transactions and three compute units; big wraps a sum.
SPECIFICATION FairSpec
CONSTANTS
    x = x
    y = y
    wa = wa
    wab = wab
    wb = wb
    ra = ra
    big = big
    Txs <- MCTxs
    Reads <- MCReads
    Writes <- MCWrites
    Compute <- MCCompute
    Sizes = {0, 2}
    max_batch_compute = 3
    Word = 10
INVARIANTS
    ConflictFree
    QueueHonoured
    WithinLimits
PROPERTY
    ScheduleReturns
CHECK_DEADLOCK FALSE
