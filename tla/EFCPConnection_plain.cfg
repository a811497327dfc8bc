SPECIFICATION FairSpec
CONSTANTS
    RxOn = FALSE
    WindowFcOn = FALSE
    ForceOrder = TRUE
    MaxAllowGap = 0
    MaxSeq = 4
    Modulus = 16
    A = A
    B = B
    Writers = {A}
    MaxSDUs = 4
    MaxLoss = 1
    MaxReorder = 1
    MaxEarly = 0
    Immediate = TRUE
    RcvCredit = 2
    MaxRWE = 60
    MaxATimers = 20
    SndCredit = 2
    MaxClosedWinQueLen = 2
    DataReXmitMax = 0
    MaxFragments = 1
    MaxCtrl = 20
    PeerAcks = {}
    PeerRWEs = {}
    PeerLWEs = {}
INVARIANTS
    HandedUpOnce
PROPERTIES
    UndisturbedAreHandedUp
CHECK_DEADLOCK FALSE
