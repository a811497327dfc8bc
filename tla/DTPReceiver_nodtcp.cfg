SPECIFICATION Spec
CONSTANTS
    RxOn = FALSE
    WindowFcOn = FALSE
    ForceOrder = TRUE
    MaxAllowGap = 0
    MaxSeq = 6
    Modulus = 16
    Immediate = TRUE
    RcvCredit = 2
    MaxRWE = 10
    MaxATimers = 2
INVARIANTS
    NeverThrown
    IInv
PROPERTIES
    InOrderInRun
    EdgeMonotone
CHECK_DEADLOCK FALSE
