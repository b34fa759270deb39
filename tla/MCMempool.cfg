\* Two clients, four calls, a pool of two entries that go stale after two ticks.
SPECIFICATION Spec
CONSTANTS
    a = a
    b = b
    rich = rich
    cheap = cheap
    unsigned = unsigned
    Txs <- MCTxs
    Fee <- MCFee
    Signed <- MCSigned
    Clients = {k1, k2}
    Idle = Idle
    max_size = 2
    max_age_ms = 1
    min_fee = 2
    Limits = {0, 1, 2}
    MaxTime = 3
    MaxCalls = 4
    Word = 8
INVARIANTS
    PoolSound
    Accounted
    DrainTakesTheBest
PROPERTY
    NothingLostEarly
