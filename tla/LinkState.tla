----------------------------- MODULE LinkState ------------------------------
(***************************************************************************)
(* The link-state routing of a DIF (SimpleLS): every IPC process floods    *)
(* the links it has, numbered by secId, and computes its routes from the   *)
(* entries it knows. The processes and their generators are those of       *)
(* RoutingNet.                                                             *)
(*                                                                         *)
(* Flows come up and stay: nothing in the program calls                    *)
(* RA::removeNM1Flow. Updates in flight are a set, so they may arrive in   *)
(* any order: neighbours with several flows have several ways.             *)
(***************************************************************************)
EXTENDS RoutingNet

CONSTANT MaxInFlight    \* bound: updates from one process to another

ASSUME InFlightAssumption == MaxInFlight \in Nat \ {0}

(* Lengths are unsigned shorts: no way may be so long that they overflow,  *)
(* which constructTree does not look at and neither does this module.      *)
ASSUME WidthAssumption ==
    \A f \in Flows : Cardinality(Nodes) * LinkMetric(f) <= UINT16_MAX

VARIABLES
    config,         \* its flows, and whether they come up together
    ports,          \* ports[n]: flows inserted at n
    secId,          \* secId[n]
    netState,       \* netState[n][m]: what n knows of the links of m
    lastChanges,    \* lastChanges[n]: the entries to send next
    scheduledUpdate,\* scheduledUpdate[n]
    table,          \* table[n]: the routes last told to the generator
    fwd,            \* fwd[n]: the forwarding table
    updates         \* updates in flight

vars == <<config, ports, secId, netState, lastChanges, scheduledUpdate, table, fwd, updates>>

(* A link entry (linksU) maps the neighbours to the metric, 0 if none. *)
NoEntry == [sId |-> 0, links |-> [d \in Nodes |-> 0]]
NoRoute == [metric |-> UINT16_MAX, nh |-> {}]

Neighbours(n) == {d \in Nodes : PortsTo(ports[n], n, d) # {}}

-----------------------------------------------------------------------------
(* The routes of a process, from the entries ls. *)

(* constructTree: the links of a, once its distance is known; psT::addParent.*)
Relax(found, a, links) ==
    [d \in Nodes |->
        LET length == found[a].metric + links[d]
        IN  IF links[d] = 0 \/ length > found[d].metric THEN found[d]
            ELSE IF length < found[d].metric THEN [metric |-> length, nh |-> found[a].nh]
            ELSE [found[d] EXCEPT !.nh = @ \union found[a].nh]]

(* The root, with its links as the first distances. *)
Root(me, ls) ==
    [added |-> {me},
     found |-> [d \in Nodes |-> IF ls[me].links[d] = 0 THEN NoRoute
                                ELSE [metric |-> ls[me].links[d], nh |-> {d}]]]

Waiting(s) == {d \in Nodes \ s.added : s.found[d].nh # {}}

Nearest(s) == {a \in Waiting(s) : \A e \in Waiting(s) : s.found[a].metric <= s.found[e].metric}

(* A node is added: its distance stays, the others may come nearer by it. *)
Add(ls, s, a) ==
    LET after == Relax(s.found, a, ls[a].links)
        added == s.added \union {a}
    IN  [added |-> added,
         found |-> [d \in Nodes |-> IF d \in added THEN s.found[d] ELSE after[d]]]

(* Of the nearest nodes, whatever the order of their names, each may be    *)
(* next.                                                                   *)
Grown(ls, trees) ==
    UNION {IF Waiting(s) = {} THEN {s} ELSE {Add(ls, s, a) : a \in Nearest(s)} : s \in trees}

Trees(me, ls) ==
    LET trees[k \in 0 .. Cardinality(Nodes)] ==
            IF k = 0 THEN {Root(me, ls)} ELSE Grown(ls, trees[k - 1])
    IN  trees[Cardinality(Nodes)]

(* constructTree and addRecursive: distance and first hops of every node.  *)
ConstructTree(me, ls) == (CHOOSE s \in Trees(me, ls) : TRUE).found

(* Variant: a route whose length has not changed is no change. *)
ChangedLengths(old, new) == {d \in Nodes : new[d].metric # old[d].metric}

(* getChanges: the destinations whose route is not as in the table. *)
Changed(old, new) == {d \in Nodes : new[d] # old[d]}

(* The generator of n, with these ports, asks for the changes: getChanges, *)
(* which keeps the new routes as the table.                                *)
Recompute(n, known, itsPorts) ==
    \E routes \in {ConstructTree(n, known)} :
        /\ table' = [table EXCEPT ![n] = routes]
        /\ fwd' = [fwd EXCEPT ![n] =
                     RoutingUpdated(@, itsPorts, n, Changed(table[n], routes),
                                    [d \in Nodes |-> routes[d].nh])]

-----------------------------------------------------------------------------
(* The policy starts with no update scheduled: what its scheduledUpdate is *)
(* meant to say, though SimpleLS::onPolicyInit does not set it.            *)
Init ==
    /\ config \in Configurations
    /\ ports = [n \in Nodes |-> {}]
    /\ secId = [n \in Nodes |-> 1]
    /\ netState = [n \in Nodes |-> [m \in Nodes |-> NoEntry]]
    /\ lastChanges = [n \in Nodes |-> {}]
    /\ scheduledUpdate = [n \in Nodes |-> FALSE]
    /\ table = [n \in Nodes |-> [d \in Nodes |-> NoRoute]]
    /\ fwd = [n \in Nodes |-> [d \in Nodes |-> NoPort]]
    /\ updates = {}

(* Variant: the number stays. *)
SameId(id) == id

(* secId++ *)
NextId(id) == id + 1

(* SimpleLS::insertFlow: the process's own entry, under its new number. *)
InsertLink(entry, id, d, metric) == [sId |-> id, links |-> [entry.links EXCEPT ![d] = metric]]

(* A flow is bound to the RMT of n and told to the generator               *)
(* (RA::createNM1Flow at its initiator, createNM1FlowWithoutAllocate at    *)
(* its responder, insertedFlow, SimpleLS::insertFlow).                     *)
InsertedFlow(n, f) ==
    LET d == Peer(f, n)
        known == [netState[n] EXCEPT ![n] = InsertLink(@, NextId(secId[n]), d, LinkMetric(f))]
    IN  /\ f \in config.flows /\ n \in Ends(f) /\ f \notin ports[n]
        /\ n = Responder[f] => f \in ports[Initiator[f]]
        /\ ports' = [ports EXCEPT ![n] = @ \union {f}]
        /\ IF NewLink(ports[n], n, f)
           THEN /\ secId' = [secId EXCEPT ![n] = NextId(@)]
                /\ netState' = [netState EXCEPT ![n] = known]
                /\ lastChanges' = [lastChanges EXCEPT ![n] = @ \union {n}]
                /\ scheduledUpdate' = [scheduledUpdate EXCEPT ![n] = TRUE]
                /\ Recompute(n, known, ports'[n])
           ELSE UNCHANGED <<secId, netState, lastChanges, scheduledUpdate, table, fwd>>
        /\ UNCHANGED <<config, updates>>

AllUp == \A f \in config.flows : \A n \in Ends(f) : f \in ports[n]

(* Variant: only one neighbour gets them. *)
UpdatesOfFirst(n) ==
    {[src |-> n, dst |-> d, over |-> Crossed(fwd, n, d),
      entries |-> [m \in lastChanges[n] |-> netState[n][m]]] :
        d \in {e \in Neighbours(n) : e = Min(Neighbours(n)) /\ Reaches(fwd, n, e)}}

(* The updates of n: the changed entries, to every neighbour its           *)
(* forwarding table leads to.                                              *)
UpdatesOf(n) ==
    {[src |-> n, dst |-> d, over |-> Crossed(fwd, n, d),
      entries |-> [m \in lastChanges[n] |-> netState[n][m]]] :
        d \in {e \in Neighbours(n) : Reaches(fwd, n, e)}}

(* SimpleLS::handleMessage: Time2Update, a second after the first change.  *)
Time2Update(n) ==
    /\ scheduledUpdate[n]
    /\ config.together => AllUp
    /\ \A d \in Nodes : Cardinality({u \in updates : u.src = n /\ u.dst = d}) < MaxInFlight
    /\ updates' = updates \union UpdatesOf(n)
    /\ lastChanges' = [lastChanges EXCEPT ![n] = {}]
    /\ scheduledUpdate' = [scheduledUpdate EXCEPT ![n] = FALSE]
    /\ UNCHANGED <<config, ports, secId, netState, table, fwd>>

(* Variant: any entry with another number replaces the one known. *)
NewsOther(known, entries) == {m \in DOMAIN entries : known[m].sId # entries[m].sId}

(* Variant: so does one with the same number. *)
NewsAgain(known, entries) == {m \in DOMAIN entries : known[m].sId <= entries[m].sId}

(* processUpdate: the entries of an update that are newer. *)
News(known, entries) == {m \in DOMAIN entries : known[m].sId < entries[m].sId}

(* Variant: entries learnt from others are not passed on. *)
ToPassOnOwn(n, new) == lastChanges[n] \union (new \intersect {n})

ToPassOn(n, new) == lastChanges[n] \union new

(* IntRouting::receiveUpdate and SimpleLS::processUpdate, once the flows   *)
(* the update crosses are up at both ends.                                 *)
ReceiveUpdate(u) ==
    LET n == u.dst
        new == News(netState[n], u.entries)
        known == [m \in Nodes |-> IF m \in new THEN u.entries[m] ELSE netState[n][m]]
        pending == ToPassOn(n, new)
    IN  /\ \A f \in u.over : \A e \in Ends(f) : f \in ports[e]
        /\ updates' = updates \ {u}
        /\ netState' = [netState EXCEPT ![n] = known]
        /\ lastChanges' = [lastChanges EXCEPT ![n] = pending]
        /\ IF pending # {}
           THEN /\ scheduledUpdate' = [scheduledUpdate EXCEPT ![n] = TRUE]
                /\ Recompute(n, known, ports[n])
           ELSE UNCHANGED <<scheduledUpdate, table, fwd>>
        /\ UNCHANGED <<config, ports, secId>>

InsertFlows == \E n \in Nodes, f \in Flows : InsertedFlow(n, f)

(* Everything is up and every update has been sent and received. *)
Quiet == AllUp /\ updates = {} /\ \A n \in Nodes : ~scheduledUpdate[n]

Done == Quiet /\ UNCHANGED vars

Next ==
    \/ InsertFlows
    \/ \E n \in Nodes : Time2Update(n)
    \/ \E u \in updates : ReceiveUpdate(u)
    \/ Done

(* The simulation goes on until no event is left. *)
Spec == Init /\ [][Next]_vars /\ WF_vars(Next)

-----------------------------------------------------------------------------
(* Properties. *)

LinkEntry == [sId : Nat, links : [Nodes -> 0 .. UINT16_MAX]]
Route == [metric : Nat, nh : SUBSET Nodes]

(* Every variable has its type, and entries in flight are link entries.    *)
TypeOK ==
    /\ config \in Configurations
    /\ ports \in [Nodes -> SUBSET Flows]
    /\ secId \in [Nodes -> Nat]
    /\ netState \in [Nodes -> [Nodes -> LinkEntry]]
    /\ lastChanges \in [Nodes -> SUBSET Nodes]
    /\ scheduledUpdate \in [Nodes -> BOOLEAN]
    /\ table \in [Nodes -> [Nodes -> Route]]
    /\ fwd \in [Nodes -> FwdTable]
    /\ \A u \in updates :
          /\ {u.src, u.dst} \subseteq Nodes /\ u.over \subseteq Flows
          /\ DOMAIN u.entries \subseteq Nodes
          /\ \A m \in DOMAIN u.entries : u.entries[m] \in LinkEntry

(* An entry of m, wherever it is. *)
Agrees(entry, m) ==
    \/ entry.sId < netState[m][m].sId
    \/ entry = netState[m][m]

(* Two entries of a process with the same number are the same entry, at    *)
(* whatever process or in whatever update they are, and nobody has one     *)
(* that is newer than the process's own: processUpdate can rely on sId.    *)
OneEntryPerNumber ==
    /\ \A n, m \in Nodes : Agrees(netState[n][m], m)
    /\ \A u \in updates : \A m \in DOMAIN u.entries : Agrees(u.entries[m], m)

(* Distances over the links ls, by at most k of them, without a tree. *)
Distances(ls) ==
    LET within[k \in 1 .. Cardinality(Nodes)] ==
            IF k = 1
            THEN [a \in Nodes |-> [d \in Nodes |->
                    IF a = d THEN 0 ELSE IF ls[a].links[d] = 0 THEN UINT16_MAX
                    ELSE ls[a].links[d]]]
            ELSE LET closer == within[k - 1]
                 IN  [a \in Nodes |-> [d \in Nodes |->
                        Min({closer[a][b] + closer[b][d] : b \in Nodes} \union {UINT16_MAX})]]
    IN  within[Cardinality(Nodes)]

(* The first hops of the shortest ways from me to d, given all distances. *)
ShortestHops(me, ls, distance, d) ==
    {h \in Nodes : /\ ls[me].links[h] # 0
                   /\ distance[me][d] < UINT16_MAX
                   /\ ls[me].links[h] + distance[h][d] = distance[me][d]}

(* The way to d over the link of a, for me, whose routes are these. *)
LengthBy(me, ls, routes, a, d) ==
    ls[a].links[d] + (IF a = me THEN 0 ELSE routes[a].metric)

(* The equations of shortest ways: the distance of a node is the least     *)
(* over the links into it, its first hops are those of all that attain it. *)
Solves(me, ls, routes) ==
    \A d \in Nodes \ {me} :
        LET into == {a \in Nodes : ls[a].links[d] # 0}
            best == Min({LengthBy(me, ls, routes, a, d) : a \in into} \union {UINT16_MAX})
            hops == UNION {IF a = me THEN {d} ELSE routes[a].nh :
                             a \in {b \in into : LengthBy(me, ls, routes, b, d) = best}}
        IN  routes[d] = [metric |-> best, nh |-> hops]

(* Between any two events the table of a process solves the equations of   *)
(* shortest ways over the links it knows, and each entry of the forwarding *)
(* table is a port to the first of the hops. The generator hears of        *)
(* differences only, so one that getChanges misses stays wrong.            *)
ForwardingIsCurrent ==
    \A n \in Nodes :
        /\ Solves(n, netState[n], table[n])
        /\ \A d \in Nodes \ {n} :
              IF table[n][d].nh = {} THEN fwd[n][d] = NoPort
              ELSE fwd[n][d] \in PortsTo(ports[n], n, Min(table[n][d].nh))

(* The links there are: the cheapest flow of each pair. *)
Topology ==
    [n \in Nodes |->
        [links |-> [d \in Nodes |->
            LET between == {f \in config.flows : Ends(f) = {n, d}}
            IN  IF between = {} THEN 0 ELSE Min({LinkMetric(f) : f \in between})]]]

(* When no event is left, a process knows its neighbours' links, however   *)
(* late it met them.                                                       *)
NeighboursKnown ==
    Quiet => \A n \in Nodes : \A m \in Neighbours(n) :
                netState[n][m].links = Topology[m].links

(* When no event is left and the flows came up before the first update,    *)
(* every PDU gets where it goes, hop by hop, along a shortest way.         *)
ShortestWays ==
    config.together /\ Quiet =>
        \E distance \in {Distances(Topology)} : \A n \in Nodes : \A d \in Nodes \ {n} :
            distance[n][d] < UINT16_MAX =>
                /\ Reaches(fwd, n, d)
                /\ Peer(fwd[n][d], n) \in ShortestHops(n, Topology, distance, d)

(* What processes know of one another is what these once knew of           *)
(* themselves, whatever update brought it.                                 *)
EntriesAgree == TypeOK /\ OneEntryPerNumber

(* The flooding has reached everyone it should: neighbours know one        *)
(* another's links, and PDUs get where they go.                            *)
EveryoneReached == NeighboursKnown /\ ShortestWays

(* No process goes back to an older entry, in whatever order updates come. *)
NeverOlder ==
    [][\A n, m \in Nodes : netState'[n][m].sId >= netState[n][m].sId]_netState

(* The flooding ends: every update that can arrive has, and none is sent.  *)
FloodingEnds == <>[]Quiet
=============================================================================
