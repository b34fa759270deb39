\* Two validators, one of which is not registered at first, on a forked tree.
SPECIFICATION Spec
CONSTANTS
    b1 = b1  b2 = b2  b3 = b3
    v1 = v1  v2 = v2
    Blocks = {b1, b2, b3}
    Votes <- MCVotes
    Validators = {v1, v2}
    Genesis <- MCGenesis
    Stakes = {0, 3}
    MaxCalls = 2
    Roots = {2}
    MaxMoves = 1
    MaxUpdates = 1
    Word = 16
INVARIANTS
    OneVotePerSlot
    ConfirmedUnique
    BestHeadCurrent
