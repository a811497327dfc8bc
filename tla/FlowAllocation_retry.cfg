SPECIFICATION FairSpec
CONSTANTS
    A = A
    B = B
    DataOfA = {a1, a2}
    DataOfB = {b1, b2}
    MgmtOfA = mA
    MgmtOfB = mB
    Infeasible = {b2}
    Rejected = {a2}
    MaxRetries = 3
    MaxLoss = 0
PROPERTIES
    AskedAreAnswered
CHECK_DEADLOCK FALSE
