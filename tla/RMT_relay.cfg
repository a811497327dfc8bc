SPECIFICATION FairSpec
CONSTANTS
    Ports = {"p0", "p1"}
    Interface = "p0"
    Efcp = "efcp"
    QueueIds <- MCQueueIds
    MgmtQoS = "mgmt"
    AnyQoS = "any"
    Here = "here"
    Remote = {"far"}
    Ceps = {"c1"}
    Traffics <- MCTraffics
    Routes <- MCRoutes
    MaxQLength = 2
    ThreshQLength = 1
    MaxQPolicies = {"TailDrop", "ECNMarker", "UpstreamNotifier"}
    Scheduler = "LongestQFirst"
    MaxChanges = 3
INVARIANTS
    QueuesAccount
    OneTransmission
    BusyWakesUp
    CongestionIsActedOn
    InFlowOrder
PROPERTIES
    QueuesEmpty
CHECK_DEADLOCK FALSE
