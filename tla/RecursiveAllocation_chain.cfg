SPECIFICATION Spec
CONSTANTS
    Nodes <- MCNodes
    NextHop <- MCNextHop
    Flows <- MCFlows
    Caller <- MCCaller
    Callee <- MCCallee
    QoS <- MCQoS
    Configurations <- MCConfigurations
CHECK_DEADLOCK FALSE
INVARIANTS
    ItemsAgree
    PathIsReady
    NothingIsStranded
