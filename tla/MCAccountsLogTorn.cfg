\* A power loss that tears the last record, and no other trouble.
SPECIFICATION Spec
CONSTANTS
    Threads = {t1}
    Keys = {k1, k2}
    Accounts = {a, b}
    MaxStored = 3
    MaxRecords = 3
    MaxErrors = 0
INVARIANT
    TornTailHarmless
