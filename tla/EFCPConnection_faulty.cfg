SPECIFICATION FairSpec
CONSTANTS
    RxOn = TRUE
    WindowFcOn = TRUE
    ForceOrder = TRUE
    MaxAllowGap = 0
    MaxSeq = 9
    Modulus = 16
    A = A
    B = B
    Writers = {A}
    MaxSDUs = 3
    MaxLoss = 2
    MaxReorder = 1
    MaxEarly = 1
    Immediate = TRUE
    RcvCredit = 2
    MaxRWE = 60
    MaxATimers = 20
    SndCredit = 2
    MaxClosedWinQueLen = 2
    DataReXmitMax = 0
    MaxFragments = 1
    MaxCtrl = 20
    PeerAcks = {}
    PeerRWEs = {}
    PeerLWEs = {}
INVARIANTS
    GrantsRespected
    HeadsNotStranded
PROPERTIES
    WindowNeverShrinks
    ReceivesAsSpecified
    FallsSilent
CHECK_DEADLOCK FALSE
