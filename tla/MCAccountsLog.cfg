\* Two threads on two accounts, the same one or two, with two values; one I/O error.
SPECIFICATION Spec
CONSTANTS
    Threads = {t1, t2}
    Keys = {k1, k2}
    Accounts = {a, b}
    MaxStored = 2
    MaxRecords = 3
    MaxErrors = 1
SYMMETRY Symmetry
INVARIANTS
    KillKeepsAccounts
    MemoryExact
