\* One transfer.
SPECIFICATION Spec
CONSTANTS
    k1 = k1
    k2 = k2
    k3 = k3
    k4 = k4
    Keys = {k1, k2, k3, k4}
    Genesis <- MCGenesis
    Amounts = {1, 5}
    RENT = 1
    MaxSteps = 1
    Word = 8
PROPERTY
    TransfersPreserveSupply
CHECK_DEADLOCK FALSE
