--------------------------- MODULE DistanceVector ---------------------------
(***************************************************************************)
(* The distance-vector routing of a DIF (SimpleDV): every IPC process      *)
(* sends its whole table to its neighbours when something changed. The     *)
(* processes and their generators are those of RoutingNet.                 *)
(*                                                                         *)
(* Flows come up and stay: nothing in the program calls                    *)
(* RA::removeNM1Flow. The updates of a process to a neighbour share one    *)
(* queue, so they arrive in order.                                         *)
(***************************************************************************)
EXTENDS RoutingNet, SequencesExt

CONSTANT MaxInFlight    \* bound: updates from one process to another

ASSUME InFlightAssumption == MaxInFlight \in Nat \ {0}

VARIABLES
    config,         \* its flows and infMetric
    ports,          \* ports[n]: flows inserted at n
    neig,           \* neig[n][d]: the metric of the link to d, 0 if none
    table,          \* table[n][d]: next hop and metric (rtEntry)
    fwd,            \* fwd[n]: the forwarding table
    scheduledUpdate,\* scheduledUpdate[n]
    updates         \* updates[n][d]: from n to d, in order

vars == <<config, ports, neig, table, fwd, scheduledUpdate, updates>>

(* rtEntry(): what table[qos][dst] is when there is no such key. *)
NoAddress == -1
NoEntry == [addr |-> NoAddress, metric |-> UINT16_MAX]

-----------------------------------------------------------------------------
(* One entry of the table. Each operator returns the entry, whether the    *)
(* key is in changes and with which next hops, and whether the process     *)
(* has news for its neighbours.                                            *)

(* if(metric >= infMetric) erase. *)
Bounded(entry) == IF entry.metric >= config.infMetric THEN NoEntry ELSE entry

(* Variant: only a destination that was unknown is in changes. *)
InsertLinkNew(old, dst, metric) ==
    LET switched == old.addr # dst /\ old.metric >= metric
        entry == IF old.addr = dst \/ switched THEN [addr |-> dst, metric |-> metric] ELSE old
    IN  [entry |-> Bounded(entry),
         changed |-> old = NoEntry,
         nh |-> IF switched /\ entry.metric < config.infMetric THEN {dst} ELSE {}]

(* SimpleDV::insertFlow, a link to dst with this metric. The key is always *)
(* in changes, and has a next hop only when the entry now leads there.     *)
InsertLink(old, dst, metric) ==
    LET switched == old.addr # dst /\ old.metric >= metric
        entry == IF old.addr = dst \/ switched THEN [addr |-> dst, metric |-> metric] ELSE old
    IN  [entry |-> Bounded(entry),
         changed |-> TRUE,
         nh |-> IF switched /\ entry.metric < config.infMetric THEN {dst} ELSE {}]

(* The entry for a destination that src offers at this metric, if it takes *)
(* the place of the old one when it is cheaper.                            *)
Taken(old, src, metric, switched) ==
    IF old.addr = src \/ switched THEN [addr |-> src, metric |-> metric] ELSE old

(* What processUpdate makes of it. *)
Outcome(entry, src, switched, news) ==
    LET gone == entry.metric >= config.infMetric
    IN  [entry |-> Bounded(entry),
         changed |-> gone \/ switched,
         nh |-> IF gone THEN {} ELSE {src},
         news |-> gone \/ news]

(* Variant: a new next hop is no news for the neighbours. *)
LearnSilently(old, src, metric) ==
    LET switched == old.addr # src /\ old.metric > metric
    IN  Outcome(Taken(old, src, metric, switched), src, switched, FALSE)

(* Variant: the last offer is taken. *)
LearnLast(old, src, metric) ==
    LET switched == old.addr # src
    IN  Outcome(Taken(old, src, metric, switched), src, switched, TRUE)

(* Variant: anything heard is news. *)
LearnEagerly(old, src, metric) ==
    LET switched == old.addr # src /\ old.metric > metric
    IN  Outcome(Taken(old, src, metric, switched), src, switched, TRUE)

(* SimpleDV::processUpdate, one entry of an update from src. *)
Learn(old, src, metric) ==
    LET switched == old.addr # src /\ old.metric > metric
        entry == Taken(old, src, metric, switched)
    IN  Outcome(entry, src, switched, entry # old)

-----------------------------------------------------------------------------
(* onPolicyInit schedules a first update. *)
Init ==
    /\ config \in Configurations
    /\ ports = [n \in Nodes |-> {}]
    /\ neig = [n \in Nodes |-> [d \in Nodes |-> 0]]
    /\ table = [n \in Nodes |-> [d \in Nodes |-> NoEntry]]
    /\ fwd = [n \in Nodes |-> [d \in Nodes |-> NoPort]]
    /\ scheduledUpdate = [n \in Nodes |-> TRUE]
    /\ updates = [n \in Nodes |-> [d \in Nodes |-> <<>>]]

(* A flow is bound to the RMT of n and told to the generator               *)
(* (RA::createNM1Flow at its initiator, createNM1FlowWithoutAllocate at    *)
(* its responder, insertedFlow, SimpleDV::insertFlow).                     *)
InsertedFlow(n, f) ==
    LET d == Peer(f, n)
        link == InsertLink(table[n][d], d, LinkMetric(f))
    IN  /\ f \in config.flows /\ n \in Ends(f) /\ f \notin ports[n]
        /\ n = Responder[f] => f \in ports[Initiator[f]]
        /\ ports' = [ports EXCEPT ![n] = @ \union {f}]
        /\ IF NewLink(ports[n], n, f)
           THEN /\ neig' = [neig EXCEPT ![n][d] = LinkMetric(f)]
                /\ table' = [table EXCEPT ![n][d] = link.entry]
                /\ fwd' = [fwd EXCEPT ![n] =
                             RoutingUpdated(@, ports'[n], n, IF link.changed THEN {d} ELSE {},
                                            [a \in Nodes |-> link.nh])]
                /\ scheduledUpdate' = [scheduledUpdate EXCEPT ![n] = TRUE]
           ELSE UNCHANGED <<neig, table, fwd, scheduledUpdate>>
        /\ UNCHANGED <<config, updates>>

(* Variant: the link to the neighbour is not counted. *)
VectorUncounted(n, d) ==
    [a \in Nodes |-> IF a = n THEN neig[n][d]
                     ELSE IF table[n][a] = NoEntry THEN UINT16_MAX
                     ELSE table[n][a].metric]

(* handleMessage: the entries of an update from n to d, UINT16_MAX for     *)
(* those left out.                                                         *)
Vector(n, d) ==
    [a \in Nodes |-> IF a = n THEN neig[n][d]
                     ELSE IF table[n][a] = NoEntry THEN UINT16_MAX
                     ELSE table[n][a].metric + neig[n][d]]

(* SimpleDV::handleMessage: Time2Update, a second after the first change.  *)
(* An update goes out if the forwarding tables lead to the neighbour.      *)
Time2Update(n) ==
    /\ scheduledUpdate[n]
    /\ \A d \in Nodes : Len(updates[n][d]) < MaxInFlight
    /\ updates' = [updates EXCEPT ![n] =
                     [d \in Nodes |-> IF neig[n][d] # 0 /\ Reaches(fwd, n, d)
                                      THEN Append(@[d], [over |-> Crossed(fwd, n, d),
                                                         vector |-> Vector(n, d)])
                                      ELSE @[d]]]
    /\ scheduledUpdate' = [scheduledUpdate EXCEPT ![n] = FALSE]
    /\ UNCHANGED <<config, ports, neig, table, fwd>>

(* IntRouting::receiveUpdate and SimpleDV::processUpdate, once the flows   *)
(* the update crosses are up at both ends.                                 *)
ReceiveUpdate(src, n) ==
    LET u == Head(updates[src][n])
        listed == {a \in Nodes \ {n} : u.vector[a] < UINT16_MAX}
        learnt == [a \in listed |-> Learn(table[n][a], src, u.vector[a])]
    IN  /\ updates[src][n] # <<>>
        /\ \A f \in u.over : \A e \in Ends(f) : f \in ports[e]
        /\ updates' = [updates EXCEPT ![src][n] = Tail(@)]
        /\ table' = [table EXCEPT ![n] =
                       [a \in Nodes |-> IF a \in listed THEN learnt[a].entry ELSE @[a]]]
        /\ fwd' = [fwd EXCEPT ![n] =
                     RoutingUpdated(@, ports[n], n, {a \in listed : learnt[a].changed},
                                    [a \in listed |-> learnt[a].nh])]
        /\ scheduledUpdate' = [scheduledUpdate EXCEPT ![n] =
                                 @ \/ \E a \in listed : learnt[a].news]
        /\ UNCHANGED <<config, ports, neig>>

InsertFlows == \E n \in Nodes, f \in Flows : InsertedFlow(n, f)

AllUp == \A f \in config.flows : \A n \in Ends(f) : f \in ports[n]

(* Everything is up and every update has been sent and received. *)
Quiet ==
    /\ AllUp
    /\ \A n \in Nodes : ~scheduledUpdate[n]
    /\ \A n, d \in Nodes : updates[n][d] = <<>>

Done == Quiet /\ UNCHANGED vars

Next ==
    \/ InsertFlows
    \/ \E n \in Nodes : Time2Update(n)
    \/ \E src, n \in Nodes : ReceiveUpdate(src, n)
    \/ Done

(* The simulation goes on until no event is left, and flows come up in     *)
(* their time, however many updates are exchanged meanwhile: between two   *)
(* updates of a process a second passes. Both are weak fairness, with the  *)
(* condition under which the action is enabled written out: TLC evaluates  *)
(* ENABLED of them too slowly.                                             *)
Fairness ==
    /\ []<>Quiet \/ []<><<Next>>_vars
    /\ []<>AllUp \/ []<><<InsertFlows>>_vars

Spec == Init /\ [][Next]_vars /\ Fairness
-----------------------------------------------------------------------------
(* Properties. *)

Metric == 0 .. UINT16_MAX
Entry == [addr : Nodes \union {NoAddress}, metric : Metric]
Update == [over : SUBSET Flows, vector : [Nodes -> Metric]]

TypeOK ==
    /\ config \in Configurations
    /\ ports \in [Nodes -> SUBSET Flows]
    /\ neig \in [Nodes -> [Nodes -> Metric]]
    /\ table \in [Nodes -> [Nodes -> Entry]]
    /\ fwd \in [Nodes -> FwdTable]
    /\ scheduledUpdate \in [Nodes -> BOOLEAN]
    /\ updates \in [Nodes -> [Nodes -> Seq(Update)]]

(* The forwarding table says what the routing table says: a destination    *)
(* leaves by a port to the next hop of its entry, and has no port if there *)
(* is no entry. The generator hears of differences only (changes).         *)
ForwardingFollowsTable ==
    \A n, d \in Nodes :
        IF table[n][d] = NoEntry THEN fwd[n][d] = NoPort
        ELSE fwd[n][d] \in PortsTo(ports[n], n, table[n][d].addr)

(* So it is in every table there is, all of them well formed.              *)
TablesAgree == TypeOK /\ ForwardingFollowsTable

(* The next hop of an entry is nearer to the destination than the process  *)
(* is, at any moment of any exchange: so a PDU that follows the tables     *)
(* never comes back to where it was.                                       *)
NextHopIsNearer ==
    \A n, d \in Nodes : table[n][d] # NoEntry =>
        LET hop == table[n][d].addr
        IN  hop = d \/ table[hop][d].metric < table[n][d].metric

(* Distances of all pairs over these flows, without a table. *)
DistancesOver(flows) ==
    LET Between(a, d) == {f \in flows : Ends(f) = {a, d}}
        within[k \in 1 .. Cardinality(Nodes)] ==
            IF k = 1
            THEN [a \in Nodes |-> [d \in Nodes |->
                    IF a = d THEN 0
                    ELSE Min({LinkMetric(f) : f \in Between(a, d)} \union {UINT16_MAX})]]
            ELSE LET closer == within[k - 1]
                 IN  [a \in Nodes |-> [d \in Nodes |->
                        Min({closer[a][b] + closer[b][d] : b \in Nodes} \union {UINT16_MAX})]]
    IN  within[Cardinality(Nodes)]

Distances == [c \in Configurations |-> DistancesOver(c.flows)]

(* Every process has the distance of every other that is nearer than       *)
(* infMetric, and no entry for the rest.                                   *)
DistancesFound ==
    LET distance == Distances[config]
    IN  \A n \in Nodes : \A d \in Nodes \ {n} :
            table[n][d].metric = IF distance[n][d] < config.infMetric THEN distance[n][d]
                                 ELSE UINT16_MAX

(* So it is when no event is left.                                         *)
DistancesKnown == Quiet => DistancesFound

(* A distance, once known, only gets shorter while flows only come up:     *)
(* neighbours need not be told of losses.                                  *)
OnlyShorter ==
    [][\A n, d \in Nodes : table'[n][d].metric <= table[n][d].metric]_table

(* p goes on offering its neighbour n a destination that n cannot keep: it *)
(* is within infMetric of p and not of n, so each update of p makes n take *)
(* an entry, erase it at once and schedule an update of its own.           *)
OfferedAtBound(c, p, n) ==
    LET distance == Distances[c]
    IN  /\ \E f \in c.flows : Ends(f) = {p, n}
        /\ distance[p][n] < c.infMetric
        /\ \E a \in Nodes : distance[p][a] < c.infMetric /\ distance[n][a] >= c.infMetric

(* Where processes make one another send: in a line or a ring of four with *)
(* infMetric 2, two neighbours each of which has one the other cannot      *)
(* reach.                                                                  *)
Echoing ==
    {c \in Configurations : \E S \in SUBSET Nodes \ {{}} :
        \A n \in S : \E p \in S : OfferedAtBound(c, p, n)}

(* The exchange of updates ends, unless processes echo at the bound: then  *)
(* it never does (a quiet process would stay so). They may also echo for a *)
(* while, until a flow comes up that brings them within reach.             *)
SettlesOrEchoes ==
    /\ [](config \in Echoing => ~Quiet)
    /\ <>[](config \notin Echoing => Quiet)
=============================================================================
