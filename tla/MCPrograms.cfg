\* Six instructions on four accounts, with amounts that reach the top of u64.
SPECIFICATION Spec
CONSTANTS
    k1 = k1
    k2 = k2
    k3 = k3
    k4 = k4
    Keys = {k1, k2, k3, k4}
    Genesis <- MCGenesis
    Amounts = {1, 5}
    RENT = 1
    MaxSteps = 6
    Word = 8
SYMMETRY MCSymmetry
INVARIANTS
    SupplyExact
    TokensRooted
PROPERTIES
    AuthorizedOnly
    LamportsMove
CHECK_DEADLOCK FALSE
