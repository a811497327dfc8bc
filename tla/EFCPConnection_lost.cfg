SPECIFICATION FairSpec
CONSTANTS
    RxOn = TRUE
    WindowFcOn = TRUE
    ForceOrder = TRUE
    MaxAllowGap = 0
    MaxSeq = 8
    Modulus = 16
    A = A
    B = B
    Writers = {A}
    MaxSDUs = 3
    MaxLoss = 1
    MaxReorder = 0
    MaxEarly = 0
    Immediate = TRUE
    RcvCredit = 2
    MaxRWE = 60
    MaxATimers = 20
    SndCredit = 2
    MaxClosedWinQueLen = 2
    DataReXmitMax = 1
    MaxFragments = 1
    MaxCtrl = 20
    PeerAcks = {}
    PeerRWEs = {}
    PeerLWEs = {}
INVARIANTS
    AckedWereHandedUp
CHECK_DEADLOCK FALSE
