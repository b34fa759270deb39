\* Kills, power losses and one I/O error; two of three slots are led by this validator.
SPECIFICATION NodeSpec
CONSTANTS
    Contents = {}
    Oversize = {}
    Txs = {t1}
    LeaderSlots = {0, 2}
    TICKS_PER_SLOT = 2
    MAX_TXS_PER_BLOCK = 1
    MaxSlot = 2
    MaxExecuted = 2
    MaxFrames = 3
    MaxErrors = 1
    MaxDecays = 0
INVARIANTS
    PublishedOnce
    LedgerRises
