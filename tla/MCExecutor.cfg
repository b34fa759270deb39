\* Four transactions that share payers and accounts, with every way to fail; three
\* payers in a ring; one payer who can pay for one of two transactions; and stores to
\* an account that is declared read-only.
SPECIFICATION Spec
CONSTANTS
    a = a
    b = b
    c = c
    d = d
    NoAccount = NoAccount
    Threads = {a, b, c, d}
    Inputs <- MCInputs
    Authority <- MCAuthority
    NumKeys = 5
    Word = 8
INVARIANTS
    Serializable
    LocksProtect
    NoDeadlock
PROPERTY
    BatchReturns
