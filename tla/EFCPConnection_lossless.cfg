SPECIFICATION FairSpec
CONSTANTS
    RxOn = TRUE
    WindowFcOn = TRUE
    ForceOrder = TRUE
    MaxAllowGap = 0
    MaxSeq = 6
    Modulus = 16
    A = A
    B = B
    Writers = {A, B}
    MaxSDUs = 5
    MaxLoss = 0
    MaxReorder = 0
    MaxEarly = 0
    Immediate = TRUE
    RcvCredit = 2
    MaxRWE = 20
    MaxATimers = 20
    SndCredit = 2
    MaxClosedWinQueLen = 2
    DataReXmitMax = 1
    MaxFragments = 1
    MaxCtrl = 20
    PeerAcks = {}
    PeerRWEs = {}
    PeerLWEs = {}
INVARIANTS
    EndsAgree
PROPERTIES
    DeliversInOrder
    WrittenAreAcked
    PortReopens
CHECK_DEADLOCK FALSE
