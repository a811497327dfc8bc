SPECIFICATION FairSpec
CONSTANTS
    A = A
    B = B
    DataOfA = {a1, a2}
    DataOfB = {b1}
    MgmtOfA = mA
    MgmtOfB = mB
    Infeasible = {}
    Rejected = {a2}
    MaxRetries = 3
    MaxLoss = 1
INVARIANTS
    AllocatorsSound
PROPERTIES
    EachFlowLives
    AcceptedAreAnswered
    DeallocationEnds
CHECK_DEADLOCK FALSE
