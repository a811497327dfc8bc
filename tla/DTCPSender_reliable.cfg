SPECIFICATION Spec
CONSTANTS
    RxOn = TRUE
    WindowFcOn = TRUE
    ForceOrder = TRUE
    MaxAllowGap = 0
    MaxSeq = 4
    Modulus = 16
    SndCredit = 1
    MaxClosedWinQueLen = 2
    DataReXmitMax = 0
    MaxFragments = 2
    MaxCtrl = 3
    PeerAcks = {0, 1, 3, 15}
    PeerRWEs = {1, 2, 4}
    PeerLWEs = {0, 2}
INVARIANTS
    PortBlockedIffQueueFull
    NothingSendableHeld
    QueuesAgree
CHECK_DEADLOCK FALSE
