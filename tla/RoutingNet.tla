----------------------------- MODULE RoutingNet -----------------------------
(***************************************************************************)
(* What the routing policies of a DIF have in common: the (N-1)-flows      *)
(* between its IPC processes, the PDU forwarding generators that turn      *)
(* flows into links with a metric and routes into entries of the           *)
(* forwarding table (SimpleGenerator, LatGenerator with MiniTable), and    *)
(* the way of a routing update through the forwarding tables.              *)
(*                                                                         *)
(* An IPC process is its address. Addresses and flows are numbers, for the *)
(* order std::set keeps them in. A forwarding table maps every address to  *)
(* the flow whose port it names, or to NoPort.                             *)
(***************************************************************************)
EXTENDS Integers, FiniteSetsExt

CONSTANTS
    Nodes,          \* addresses of the IPC processes
    Flows,          \* the (N-1)-flows their resource allocators ask for
    Initiator, Responder,   \* the two ends of a flow
    Configurations, \* the flows asked for, whether they come up within the
                    \* second before the first update, and infMetric
    Delay,          \* the delay of its QoS cube
    Management,     \* the flows with the management cube
    RedLinkCost, MinLinkCost, MaxLinkCost,
    Generator       \* "SimpleGenerator" or "LatGenerator"

UINT16_MAX == 65535

ASSUME NodesAssumption == Nodes \subseteq Nat /\ IsFiniteSet(Nodes)

ASSUME FlowsAssumption ==
    /\ Flows \subseteq Nat /\ IsFiniteSet(Flows) /\ Management \subseteq Flows
    /\ Initiator \in [Flows -> Nodes] /\ Responder \in [Flows -> Nodes]
    /\ \A f \in Flows : Initiator[f] # Responder[f]
    /\ Delay \in [Flows -> Nat]
    /\ Configurations \subseteq
          [flows : SUBSET Flows, together : BOOLEAN, infMetric : 1 .. UINT16_MAX]

ASSUME MetricAssumption ==
    /\ {RedLinkCost, MinLinkCost, MaxLinkCost} \subseteq (1 .. UINT16_MAX)
    /\ Generator \in {"SimpleGenerator", "LatGenerator"}

NoPort == -1
FwdTable == [Nodes -> Flows \union {NoPort}]

Ends(f) == {Initiator[f], Responder[f]}

(* The other end of flow f. *)
Peer(f, n) == IF n = Initiator[f] THEN Responder[f] ELSE Initiator[f]

(* neighbours[d] of the generator of n, which has these ports. *)
PortsTo(ports, n, d) == {f \in ports : Peer(f, n) = d}

-----------------------------------------------------------------------------
(* From flows to links. *)

(* LatGenerator::insertedFlow: the metric of a flow, an unsigned short. *)
LatMetric(f) ==
    LET reduced == (Delay[f] \div RedLinkCost) % (UINT16_MAX + 1)
    IN  IF f \in Management THEN MaxLinkCost
        ELSE IF reduced < MinLinkCost THEN MinLinkCost
        ELSE IF reduced > MaxLinkCost THEN MaxLinkCost
        ELSE reduced

(* The metric insertFlow is called with. *)
LinkMetric(f) == IF Generator = "SimpleGenerator" THEN 1 ELSE LatMetric(f)

(* insertedFlow: whether the routing policy hears of port f. The first     *)
(* flow to a neighbour always counts; for LatGenerator, any that is        *)
(* cheaper than all the others.                                            *)
NewLink(ports, n, f) ==
    LET others == PortsTo(ports, n, Peer(f, n)) \ {f}
    IN  \/ others = {}
        \/ Generator = "LatGenerator" /\ \A g \in others : LatMetric(f) < LatMetric(g)

-----------------------------------------------------------------------------
(* From routes to forwarding entries. *)

(* The port of the first of these next hops, as the generator finds it. *)
PortFor(ports, n, nh) ==
    LET hopPorts == PortsTo(ports, n, Min(nh))
    IN  IF nh = {} THEN NoPort ELSE IF hopPorts = {} THEN NoPort ELSE Min(hopPorts)

(* routingUpdated: changes[d].nh, for the changed destinations.            *)
RoutingUpdated(fwd, ports, n, changed, nh) ==
    [d \in Nodes |-> IF d \in changed THEN PortFor(ports, n, nh[d]) ELSE fwd[d]]

-----------------------------------------------------------------------------
(* The way of a PDU. *)

Nowhere == -1

(* Where a PDU from n to d is after each number of hops. *)
Way(fwd, n, d) ==
    LET at[k \in 0 .. Cardinality(Nodes)] ==
            IF k = 0 THEN n
            ELSE LET here == at[k - 1]
                 IN  IF here \in {d, Nowhere} THEN here
                     ELSE IF fwd[here][d] = NoPort THEN Nowhere
                     ELSE Peer(fwd[here][d], here)
    IN  at

Reaches(fwd, n, d) == Way(fwd, n, d)[Cardinality(Nodes)] = d

(* The flows it crosses. *)
Crossed(fwd, n, d) ==
    {fwd[a][d] : a \in {Way(fwd, n, d)[k] : k \in 0 .. Cardinality(Nodes)} \ {d, Nowhere}}
=============================================================================
