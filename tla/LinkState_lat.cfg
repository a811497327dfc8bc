SPECIFICATION Spec
CONSTANTS
    Nodes <- MCNodes
    Flows <- MCFlows
    Initiator <- MCInitiator
    Responder <- MCResponder
    Configurations <- MCConfigurations
    Delay <- MCDelay
    Management <- MCManagement
    RedLinkCost = 1
    MinLinkCost = 1
    MaxLinkCost = 5
    Generator = "LatGenerator"
    MaxInFlight = 1
INVARIANTS
    EntriesAgree
    ForwardingIsCurrent
    EveryoneReached
PROPERTIES
    NeverOlder
    FloodingEnds
