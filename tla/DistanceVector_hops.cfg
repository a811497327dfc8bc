SPECIFICATION Spec
CONSTANTS
    Nodes <- MCNodes
    Flows <- MCFlows
    Initiator <- MCInitiator
    Responder <- MCResponder
    Configurations <- MCConfigurations
    Delay <- MCDelay
    Management = {}
    RedLinkCost = 1
    MinLinkCost = 1
    MaxLinkCost = 5
    Generator = "SimpleGenerator"
    MaxInFlight = 1
INVARIANTS
    TablesAgree
    NextHopIsNearer
    DistancesKnown
PROPERTIES
    SettlesOrEchoes
