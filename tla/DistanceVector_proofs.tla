------------------------ MODULE DistanceVector_proofs ------------------------
(***************************************************************************)
(* Proofs about distance-vector routing over hop counts, for every network *)
(* and every infMetric. That the next hop is always nearer depends on      *)
(* three things at once: distances only get shorter, updates from a        *)
(* neighbour arrive in order, and each says more than its sender's own     *)
(* distance, even when it is old. IInv states them for what is known and   *)
(* for what is in flight.                                                  *)
(*                                                                         *)
(* Over LatGenerator they need not hold: the first flow to a neighbour may *)
(* be dearer than what the neighbour offers over another flow. HopCount    *)
(* says SimpleGenerator, as the configurations that use SimpleDV do, all   *)
(* but LatDV of examples/LatEx.                                            *)
(*                                                                         *)
(* What the exchange achieves takes one thing more: a neighbour knows of a *)
(* distance or is still to hear of it (NothingLeftOut). When nothing is    *)
(* left to hear, the tables obey the laws of shortest ways, and there is   *)
(* only one set of distances that does.                                    *)
(***************************************************************************)
EXTENDS DistanceVector, TLAPS, FiniteSetTheorems, WellFoundedInduction

(* Induction is stated over a set of numbers instead of a predicate, so    *)
(* that it needs no more than the least element of a set of naturals.      *)

(* A non-empty set of naturals has a least element, and Min finds it. *)
LEMMA MinOfNats ==
    ASSUME NEW T \in SUBSET Nat, T # {}
    PROVE  Min(T) \in T /\ \A x \in T : Min(T) <= x
<1>1. IsWellFoundedOn(OpToRel(<, Nat), Nat)
  BY NatLessThanWellFounded
<1>2. PICK x \in T : \A y \in T : ~(<<y, x>> \in OpToRel(<, Nat))
  BY <1>1, WFMin
<1>3. \A y \in T : x <= y
  <2> SUFFICES ASSUME NEW y \in T, y < x PROVE FALSE
    OBVIOUS
  <2>1. <<y, x>> \in OpToRel(<, Nat)
    BY DEF OpToRel
  <2> QED
    BY <2>1, <1>2
<1> QED
  BY <1>2, <1>3 DEF Min

(* Induction: a set with 0 and with the successor of each of its numbers   *)
(* up to N has all numbers up to N.                                        *)
LEMMA UpTo ==
    ASSUME NEW N \in Nat, NEW S, 0 \in S,
           \A k \in 0 .. (N - 1) : k \in S => k + 1 \in S
    PROVE  0 .. N \subseteq S
<1> DEFINE T == {k \in 0 .. N : k \notin S}
<1> SUFFICES ASSUME T # {} PROVE FALSE
  OBVIOUS
<1>1. T \in SUBSET Nat
  OBVIOUS
<1>2. /\ Min(T) \in T
      /\ \A x \in T : Min(T) <= x
  BY <1>1, MinOfNats
<1> DEFINE m == Min(T)
<1>3. m \in 0 .. N /\ m \notin S
  BY <1>2
<1>4. m # 0
  BY <1>3
<1>5. m - 1 \in 0 .. (N - 1) /\ m - 1 \notin T
  <2> HIDE DEF T
  <2> QED
    BY <1>2, <1>3, <1>4
<1>6. m - 1 \in S
  BY <1>5
<1>7. (m - 1) + 1 \in S
  BY <1>5, <1>6
<1> QED
  BY <1>3, <1>7

(* g is F iterated N times from x. *)
Iterates(g, N, X, x, F) ==
    g \in [0 .. N -> X] /\ g[0] = x /\ \A k \in 1 .. N : g[k] = F[g[k - 1]]

(* Recursion: a function can be iterated any number of times. *)
LEMMA Iteration ==
    ASSUME NEW N \in Nat, NEW X, NEW x \in X, NEW F \in [X -> X]
    PROVE  \E g : Iterates(g, N, X, x, F)
<1> DEFINE S == {n \in Nat : \E g : Iterates(g, n, X, x, F)}
<1>1. 0 \in S
  <2>1. Iterates([k \in 0 .. 0 |-> x], 0, X, x, F)
    BY DEF Iterates
  <2> QED
    BY <2>1
<1>2. ASSUME NEW n \in 0 .. (N - 1), n \in S
      PROVE  n + 1 \in S
  <2>1. PICK g : Iterates(g, n, X, x, F)
    BY <1>2
  <2> DEFINE h == [k \in 0 .. (n + 1) |-> IF k = n + 1 THEN F[g[n]] ELSE g[k]]
  <2>2. h \in [0 .. (n + 1) -> X]
    BY <2>1 DEF Iterates
  <2>3. Iterates(h, n + 1, X, x, F)
    BY <2>1, <2>2 DEF Iterates
  <2> QED
    BY <2>3
<1>3. 0 .. N \subseteq S
  <2> HIDE DEF S
  <2> QED
    BY <1>1, <1>2, UpTo
<1> QED
  BY <1>3

-----------------------------------------------------------------------------
(* The network: where a PDU goes, and what a port and a metric are. *)

(* 65535 is cited as a natural number only: the provers would otherwise    *)
(* write the metrics out one by one.                                       *)
LEMMA MaxIsNatural == UINT16_MAX \in Nat /\ UINT16_MAX > 1
  BY DEF UINT16_MAX

LEMMA NumberOfNodes == Cardinality(Nodes) \in Nat
  BY NodesAssumption, FS_CardinalityType

(* The other end of a flow is a node. *)
LEMMA PeerIsNode ==
    ASSUME NEW f \in Flows, NEW n
    PROVE  Peer(f, n) \in Nodes
  BY FlowsAssumption DEF Peer

(* Where a PDU from n to d, now at a, goes next. *)
NextHop(tab, d, a) ==
    IF a \in {d, Nowhere} THEN a
    ELSE IF tab[a][d] = NoPort THEN Nowhere
    ELSE Peer(tab[a][d], a)

(* Way is what its recursive definition says. *)
LEMMA WayIsDefined ==
    ASSUME NEW tab \in [Nodes -> FwdTable], NEW n \in Nodes, NEW d \in Nodes
    PROVE  /\ Way(tab, n, d) \in [0 .. Cardinality(Nodes) -> Nodes \union {Nowhere}]
           /\ Way(tab, n, d)[0] = n
           /\ \A k \in 1 .. Cardinality(Nodes) :
                 Way(tab, n, d)[k] = NextHop(tab, d, Way(tab, n, d)[k - 1])
<1> DEFINE N == Cardinality(Nodes)
           X == Nodes \union {Nowhere}
           F == [a \in X |-> NextHop(tab, d, a)]
           IsWay(at) == at = [k \in 0 .. N |->
                                IF k = 0 THEN n
                                ELSE LET here == at[k - 1]
                                     IN  IF here \in {d, Nowhere} THEN here
                                         ELSE IF tab[here][d] = NoPort THEN Nowhere
                                         ELSE Peer(tab[here][d], here)]
<1>1. F \in [X -> X]
  <2> SUFFICES ASSUME NEW a \in X PROVE NextHop(tab, d, a) \in X
    OBVIOUS
  <2>1. CASE a \in {d, Nowhere}
    BY <2>1 DEF NextHop
  <2>2. CASE a \in Nodes
    <3>1. tab[a][d] \in Flows \union {NoPort}
      BY <2>2 DEF FwdTable
    <3> QED
      BY <3>1, PeerIsNode DEF NextHop
  <2> QED
    BY <2>1, <2>2
<1>2. N \in Nat
  BY NumberOfNodes
<1> HIDE DEF N
<1>3. PICK g : Iterates(g, N, X, n, F)
  <2>1. n \in X
    OBVIOUS
  <2> HIDE DEF F, X, IsWay
  <2> QED
    BY <1>1, <1>2, <2>1, Iteration
<1>4. IsWay(g)
  <2>1. ASSUME NEW k \in 1 .. N PROVE g[k] = NextHop(tab, d, g[k - 1])
    <3>1. g[k - 1] \in X /\ g[k] = F[g[k - 1]]
      <4> HIDE DEF F, X
      <4> QED
        BY <1>2, <1>3 DEF Iterates
    <3> QED
      BY <3>1
  <2> HIDE DEF X, F
  <2> QED
    BY <1>2, <1>3, <2>1 DEF NextHop, Iterates
<1>5. Way(tab, n, d) = CHOOSE at : IsWay(at)
  BY DEF Way, N
<1> DEFINE way == Way(tab, n, d)
<1>6. IsWay(way)
  <2> HIDE DEF IsWay
  <2> QED
    BY <1>4, <1>5, Zenon
<1> HIDE DEF way
<1>7. way[0] = n /\ \A k \in 1 .. N : way[k] = NextHop(tab, d, way[k - 1])
  BY <1>2, <1>6 DEF NextHop
<1>8. way \in [0 .. N -> X]
  <2> DEFINE S == {k \in 0 .. N : way[k] \in X}
  <2>1. 0 \in S
    BY <1>2, <1>7
  <2>2. ASSUME NEW k \in 0 .. (N - 1), k \in S PROVE k + 1 \in S
    <3>1. way[k + 1] = NextHop(tab, d, way[k])
      BY <1>2, <1>7
    <3>2. way[k + 1] = F[way[k]]
      BY <2>2, <3>1
    <3>3. way[k + 1] \in X
      <4> HIDE DEF F, X
      <4> QED
        BY <1>1, <2>2, <3>2
    <3> QED
      BY <1>2, <3>3
  <2>3. 0 .. N \subseteq S
    <3> HIDE DEF S
    <3> QED
      BY <1>2, <2>1, <2>2, UpTo
  <2>4. way = [k \in 0 .. N |-> way[k]]
    BY <1>6
  <2> QED
    BY <2>3, <2>4
<1> QED
  BY <1>7, <1>8 DEF N, way

(* The first flow a PDU crosses is the one its source forwards it to. *)
LEMMA CrossesFirst ==
    ASSUME NEW tab \in [Nodes -> FwdTable], NEW n \in Nodes, NEW d \in Nodes, n # d
    PROVE  tab[n][d] \in Crossed(tab, n, d)
<1>1. n # Nowhere
  BY NodesAssumption DEF Nowhere
<1>2. Way(tab, n, d)[0] = n /\ 0 \in 0 .. Cardinality(Nodes)
  BY WayIsDefined, NumberOfNodes
<1> QED
  BY <1>1, <1>2 DEF Crossed

(* A PDU that gets where it goes crosses flows only: it is never dropped   *)
(* for want of a port on the way.                                          *)
LEMMA CrossesFlows ==
    ASSUME NEW tab \in [Nodes -> FwdTable], NEW n \in Nodes, NEW d \in Nodes,
           Reaches(tab, n, d)
    PROVE  Crossed(tab, n, d) \subseteq Flows
<1> DEFINE N == Cardinality(Nodes)
           way == Way(tab, n, d)
<1>1. /\ way \in [0 .. N -> Nodes \union {Nowhere}]
      /\ way[0] = n
      /\ \A k \in 1 .. N : way[k] = NextHop(tab, d, way[k - 1])
  BY WayIsDefined
<1>2. N \in Nat /\ way[N] = d
  BY NumberOfNodes DEF Reaches
<1>3. d # Nowhere
  BY NodesAssumption DEF Nowhere
<1>4. Crossed(tab, n, d) = {tab[a][d] : a \in {way[k] : k \in 0 .. N} \ {d, Nowhere}}
  BY DEF Crossed
<1> HIDE DEF N, way
<1>5. SUFFICES ASSUME NEW k \in 0 .. N, way[k] \notin {d, Nowhere}, tab[way[k]][d] \notin Flows
               PROVE  FALSE
  BY <1>4
<1>6. way[k] \in Nodes /\ k < N
  BY <1>1, <1>2, <1>5
<1>7. tab[way[k]][d] = NoPort
  BY <1>5, <1>6 DEF FwdTable
<1> DEFINE S == {i \in Nat : k + 1 + i <= N => way[k + 1 + i] = Nowhere}
<1>8. 0 \in S
  BY <1>1, <1>2, <1>5, <1>6, <1>7 DEF NextHop
<1>9. ASSUME NEW i \in 0 .. (N - 1), i \in S PROVE i + 1 \in S
  <2> SUFFICES ASSUME k + 1 + (i + 1) <= N PROVE way[k + 1 + (i + 1)] = Nowhere
    OBVIOUS
  <2> DEFINE j == k + 1 + (i + 1)
  <2>1. j \in 1 .. N /\ j - 1 = k + 1 + i
    BY <1>2
  <2>2. way[j - 1] = Nowhere
    <3>1. k + 1 + i <= N
      BY <1>2, <2>1
    <3> QED
      BY <1>9, <2>1, <3>1
  <2>3. way[j] = NextHop(tab, d, way[j - 1])
    BY <1>1, <2>1
  <2> QED
    BY <2>2, <2>3 DEF NextHop
<1>10. 0 .. N \subseteq S
  <2> HIDE DEF S
  <2> QED
    BY <1>2, <1>8, <1>9, UpTo
<1>11. N - k - 1 \in 0 .. N /\ k + 1 + (N - k - 1) = N
  BY <1>2, <1>6
<1>12. way[N] = Nowhere
  BY <1>2, <1>10, <1>11
<1> QED
  BY <1>2, <1>3, <1>12

(* So the source of a PDU that arrives has a port for it. *)
LEMMA ReachesByPort ==
    ASSUME NEW tab \in [Nodes -> FwdTable], NEW n \in Nodes, NEW d \in Nodes, n # d,
           Reaches(tab, n, d)
    PROVE  tab[n][d] # NoPort
<1>1. NoPort \notin Flows
  BY FlowsAssumption DEF NoPort
<1> QED
  BY <1>1, CrossesFirst, CrossesFlows

(* The port for some next hops is one of those that lead to the first.     *)
LEMMA PortForHops ==
    ASSUME NEW conns \in SUBSET Flows, NEW n, NEW nh, nh # {}, PortsTo(conns, n, Min(nh)) # {}
    PROVE  PortFor(conns, n, nh) \in PortsTo(conns, n, Min(nh))
<1>1. PortsTo(conns, n, Min(nh)) \in SUBSET Nat
  BY FlowsAssumption DEF PortsTo
<1>2. Min(PortsTo(conns, n, Min(nh))) \in PortsTo(conns, n, Min(nh))
  BY <1>1, MinOfNats
<1> QED
  BY <1>2 DEF PortFor

(* The port for one next hop is one of the conns that lead to it.          *)
LEMMA PortForOne ==
    ASSUME NEW conns \in SUBSET Flows, NEW n, NEW h \in Nodes, PortsTo(conns, n, h) # {}
    PROVE  PortFor(conns, n, {h}) \in PortsTo(conns, n, h)
<1>1. {h} \in SUBSET Nat /\ {h} # {}
  BY NodesAssumption
<1>2. Min({h}) = h
  BY <1>1, MinOfNats
<1> QED
  BY <1>2, PortForHops

LEMMA PortForType ==
    ASSUME NEW conns \in SUBSET Flows, NEW n, NEW nh
    PROVE  PortFor(conns, n, nh) \in Flows \union {NoPort}
<1> DEFINE hopPorts == PortsTo(conns, n, Min(nh))
<1>1. hopPorts \in SUBSET Flows
  BY DEF PortsTo
<1>2. hopPorts # {} => Min(hopPorts) \in hopPorts
  <2>1. hopPorts \in SUBSET Nat
    BY <1>1, FlowsAssumption
  <2> HIDE DEF hopPorts
  <2> QED
    BY <2>1, MinOfNats
<1>3. PortFor(conns, n, nh) = IF nh = {} THEN NoPort
                              ELSE IF hopPorts = {} THEN NoPort ELSE Min(hopPorts)
  BY DEF PortFor
<1> HIDE DEF hopPorts
<1> QED
  BY <1>1, <1>2, <1>3

LEMMA PortForNone ==
    ASSUME NEW conns, NEW n
    PROVE  PortFor(conns, n, {}) = NoPort
  BY DEF PortFor

-----------------------------------------------------------------------------

HopCount == Generator = "SimpleGenerator"

(* A process has conns to flows that end there, and a link, of metric 1,   *)
(* to whomever they lead to.                                               *)
LinksArePorts ==
    \A n \in Nodes :
        /\ \A f \in ports[n] : n \in Ends(f)
        /\ \A d \in Nodes : neig[n][d] = IF PortsTo(ports[n], n, d) = {} THEN 0 ELSE 1

(* An entry in the table, which is not at infMetric, leads to a neighbour. *)
GoodEntry(n, e) ==
    \/ e = NoEntry
    \/ /\ e.metric \in 1 .. (config.infMetric - 1)
       /\ e.addr \in Nodes
       /\ neig[n][e.addr] = 1

(* A neighbour is reached directly. *)
LinksAreDirect ==
    config.infMetric > 1 =>
        \A n, d \in Nodes : neig[n][d] = 1 => table[n][d] = [addr |-> d, metric |-> 1]

(* An update from src to n: it crosses a flow between them; what it says   *)
(* is more than what src itself needs by now, and no more than what n has  *)
(* heard from src before.                                                  *)
GoodUpdate(src, n, u) ==
    /\ src # n
    /\ \E f \in u.over : n \in Ends(f) /\ Peer(f, n) = src
    /\ u.vector[src] = 1
    /\ \A a \in Nodes :
          /\ u.vector[a] >= 1
          /\ a # src /\ u.vector[a] < UINT16_MAX => table[src][a].metric < u.vector[a]
          /\ table[n][a].addr = src => u.vector[a] <= table[n][a].metric

(* A later update says no more than an earlier one. *)
UpdatesShorten ==
    \A src, n \in Nodes : \A i, j \in 1 .. Len(updates[src][n]) :
        i < j => \A a \in Nodes : updates[src][n][j].vector[a] <= updates[src][n][i].vector[a]

IInv ==
    /\ TypeOK
    /\ LinksArePorts
    /\ \A n, d \in Nodes : GoodEntry(n, table[n][d])
    /\ LinksAreDirect
    /\ \A src, n \in Nodes : \A i \in 1 .. Len(updates[src][n]) :
          GoodUpdate(src, n, updates[src][n][i])
    /\ UpdatesShorten
    /\ ForwardingFollowsTable
    /\ NextHopIsNearer

-----------------------------------------------------------------------------
(* One entry. *)

LEMMA InfMetricType ==
    ASSUME TypeOK
    PROVE  config.infMetric \in 1 .. UINT16_MAX
  BY FlowsAssumption DEF TypeOK

(* A distance m a process hears from src takes the place of the entry old  *)
(* unless this is as near, and the generator is told what it needs to keep *)
(* up.                                                                     *)
Learnt(r, old, src, m) ==
    /\ r.entry \in Entry
    /\ r.entry.metric <= old.metric
    /\ \/ r.entry = NoEntry
       \/ r.entry = [addr |-> src, metric |-> m] /\ m < config.infMetric
       \/ r.entry = old /\ old.addr # src
    /\ \/ r.changed /\ r.entry = NoEntry /\ r.nh = {}
       \/ r.changed /\ r.entry # NoEntry /\ r.entry.addr = src /\ r.nh = {src}
       \/ ~r.changed /\ r.entry.addr = old.addr /\ (r.entry = NoEntry <=> old = NoEntry)

LEMMA LearnResult ==
    ASSUME config.infMetric \in 1 .. UINT16_MAX,
           NEW old \in Entry,
           old = NoEntry \/ old.metric \in 1 .. (config.infMetric - 1),
           NEW src \in Nodes, NEW m \in 1 .. (UINT16_MAX - 1),
           old.addr = src => m <= old.metric
    PROVE  Learnt(Learn(old, src, m), old, src, m)
<1> DEFINE switched == old.addr # src /\ old.metric > m
           entry == Taken(old, src, m, switched)
           r == Learn(old, src, m)
           gone == entry.metric >= config.infMetric
<1> HIDE DEF r, entry
<1>1. UINT16_MAX \in Nat
  BY MaxIsNatural
<1>d. src \in Nat
  BY NodesAssumption
<1>c. src # NoAddress
  BY <1>d DEF NoAddress
<1>e. config.infMetric \in Nat
  BY <1>1
<1>a. old.metric \in Nat /\ old.metric <= UINT16_MAX
  BY <1>1 DEF Entry, Metric
<1>b. NoEntry \in Entry /\ NoEntry.metric = UINT16_MAX /\ NoEntry.addr = NoAddress
  BY <1>1 DEF Entry, Metric, NoEntry
<1>2. /\ r.entry = IF gone THEN NoEntry ELSE entry
      /\ r.changed <=> gone \/ switched
      /\ r.nh = IF gone THEN {} ELSE {src}
  BY DEF Learn, Outcome, Bounded, r, entry
<1>3. /\ old.addr = src \/ switched => entry = [addr |-> src, metric |-> m]
      /\ ~(old.addr = src \/ switched) => entry = old
  BY DEF Taken, entry
<1> SUFFICES Learnt(r, old, src, m)
  BY DEF r
<1>4. CASE old.addr = src \/ switched
  <2>1. entry = [addr |-> src, metric |-> m] /\ entry.metric = m /\ entry.addr = src
    BY <1>3, <1>4
  <2>2. entry \in Entry /\ entry # NoEntry /\ m <= old.metric
    BY <1>1, <1>a, <1>b, <1>c, <1>e, <1>4, <2>1 DEF Entry, Metric
  <2>3. old = NoEntry => switched
    BY <1>1, <1>a, <1>b, <1>c, <1>e, <1>4
  <2>4. ~switched => ~gone
    BY <1>1, <1>a, <1>b, <1>c, <1>e, <1>4, <2>1, <2>3
  <2> QED
    BY <1>1, <1>a, <1>b, <1>c, <1>e, <1>2, <1>4, <2>1, <2>2, <2>3, <2>4 DEF Learnt
<1>5. CASE ~(old.addr = src \/ switched)
  <2>1. entry = old
    BY <1>3, <1>5
  <2>2. gone => old = NoEntry
    BY <1>1, <1>a, <1>b, <1>c, <1>e, <2>1
  <2>3. old = NoEntry => gone
    BY <1>1, <1>a, <1>b, <1>c, <1>e, <2>1
  <2> QED
    BY <1>1, <1>a, <1>b, <1>c, <1>e, <1>2, <1>5, <2>1, <2>2, <2>3 DEF Learnt
<1> QED
  BY <1>4, <1>5

(* A new link becomes the entry of the neighbour.                          *)
LEMMA InsertResult ==
    ASSUME config.infMetric \in 1 .. UINT16_MAX,
           NEW old \in Entry, old.metric >= 1,
           NEW dst \in Nodes, old.addr # dst
    PROVE  LET r == InsertLink(old, dst, 1)
           IN  /\ r.changed
               /\ r.entry = IF config.infMetric > 1 THEN [addr |-> dst, metric |-> 1] ELSE NoEntry
               /\ r.nh = IF config.infMetric > 1 THEN {dst} ELSE {}
<1>1. old.addr # dst /\ old.metric >= 1
  OBVIOUS
<1> QED
  BY <1>1 DEF InsertLink, Bounded

(* Over hop counts every link has metric 1, and only the first flow to a   *)
(* neighbour is a link.                                                    *)
LEMMA HopCountLinks ==
    ASSUME HopCount, NEW known, NEW n, NEW f, f \notin known
    PROVE  /\ LinkMetric(f) = 1
           /\ NewLink(known, n, f) <=> PortsTo(known, n, Peer(f, n)) = {}
  BY DEF HopCount, LinkMetric, NewLink, PortsTo

LEMMA PeerDiffers ==
    ASSUME NEW f \in Flows, NEW n \in Ends(f)
    PROVE  n \in Nodes /\ Peer(f, n) \in Nodes /\ Peer(f, n) # n
  BY FlowsAssumption DEF Ends, Peer

-----------------------------------------------------------------------------
LEMMA InvInit ==
    ASSUME Init
    PROVE  IInv
<1> USE DEF Init
<1>1. \A n, d \in Nodes : table[n][d] = NoEntry /\ fwd[n][d] = NoPort /\ neig[n][d] = 0
  OBVIOUS
<1>2. TypeOK
  BY <1>1, MaxIsNatural DEF TypeOK, FwdTable, Entry, Metric, NoEntry
<1>3. LinksArePorts
  BY DEF LinksArePorts, PortsTo
<1>4. \A n, d \in Nodes : GoodEntry(n, table[n][d])
  BY <1>1 DEF GoodEntry
<1>5. LinksAreDirect
  BY <1>1 DEF LinksAreDirect
<1>6. \A src, n \in Nodes : updates[src][n] = <<>> /\ Len(updates[src][n]) = 0
  OBVIOUS
<1>7. UpdatesShorten
  BY <1>6 DEF UpdatesShorten
<1>8. ForwardingFollowsTable /\ NextHopIsNearer
  BY <1>1 DEF ForwardingFollowsTable, NextHopIsNearer
<1> QED
  BY <1>2, <1>3, <1>4, <1>5, <1>6, <1>7, <1>8 DEF IInv

-----------------------------------------------------------------------------
(* Nobody's distance grows. *)
Shorter == \A n, d \in Nodes : table'[n][d].metric <= table[n][d].metric

(* What is known of an entry, whichever table it is in. *)
LEMMA EntryFacts ==
    ASSUME IInv, NEW n \in Nodes, NEW d \in Nodes
    PROVE  /\ table[n][d] \in Entry
           /\ table[n][d].metric \in Nat /\ table[n][d].metric >= 1
           /\ table[n][d].metric <= UINT16_MAX
           /\ table[n][d] = NoEntry <=> table[n][d].metric = UINT16_MAX
           /\ table[n][d] = NoEntry <=> table[n][d].addr = NoAddress
           /\ table[n][d] # NoEntry => /\ table[n][d].metric < config.infMetric
                                       /\ table[n][d].addr \in Nodes
                                       /\ neig[n][table[n][d].addr] = 1
<1> DEFINE e == table[n][d]
<1>1. e \in Entry /\ GoodEntry(n, e)
  BY DEF IInv, TypeOK
<1>2. config.infMetric \in Nat /\ config.infMetric <= UINT16_MAX
  BY InfMetricType, MaxIsNatural DEF IInv
<1>3. NoAddress \notin Nodes
  BY NodesAssumption DEF NoAddress
<1>4. NoEntry.metric = UINT16_MAX /\ NoEntry.addr = NoAddress
  BY DEF NoEntry
<1>5. UINT16_MAX \in Nat /\ UINT16_MAX > 1
  BY MaxIsNatural
<1> HIDE DEF e
<1>6. CASE e = NoEntry
  BY <1>1, <1>3, <1>4, <1>5, <1>6 DEF e
<1>7. CASE e # NoEntry
  <2>1. /\ e.metric \in Nat /\ e.metric >= 1 /\ e.metric < config.infMetric
        /\ e.addr \in Nodes /\ neig[n][e.addr] = 1
    BY <1>1, <1>2, <1>7 DEF GoodEntry
  <2> QED
    BY <1>1, <1>2, <1>3, <1>5, <1>7, <2>1 DEF e
<1> QED
  BY <1>6, <1>7

(* What a new flow does to the ports. *)
LEMMA NewPort ==
    ASSUME IInv, NEW n \in Nodes, NEW f \in Flows, InsertedFlow(n, f)
    PROVE  /\ ports' \in [Nodes -> SUBSET Flows]
           /\ \A m \in Nodes : \A g \in ports'[m] : m \in Ends(g)
           /\ \A m, a \in Nodes : PortsTo(ports[m], m, a) \subseteq PortsTo(ports'[m], m, a)
           /\ \A m, a \in Nodes :
                 PortsTo(ports'[m], m, a) = {} <=>
                     /\ PortsTo(ports[m], m, a) = {}
                     /\ ~(m = n /\ a = Peer(f, n))
<1>1. n \in Ends(f) /\ ports' = [ports EXCEPT ![n] = @ \union {f}]
  BY DEF InsertedFlow
<1>2. ports \in [Nodes -> SUBSET Flows]
  BY DEF IInv, TypeOK
<1>3. ports' \in [Nodes -> SUBSET Flows]
  BY <1>1, <1>2
<1>4. \A m \in Nodes : ports'[m] = IF m = n THEN ports[m] \union {f} ELSE ports[m]
  BY <1>1, <1>2
<1>5. \A m \in Nodes : \A g \in ports'[m] : m \in Ends(g)
  BY <1>1, <1>4 DEF IInv, LinksArePorts
<1>6. \A m, a \in Nodes :
         PortsTo(ports'[m], m, a) =
             PortsTo(ports[m], m, a) \union (IF m = n /\ a = Peer(f, n) THEN {f} ELSE {})
  BY <1>4 DEF PortsTo
<1> QED
  BY <1>3, <1>5, <1>6

(* A flow that is not the first to its neighbour changes the ports only.   *)
LEMMA SecondFlow ==
    ASSUME IInv, HopCount, NEW n \in Nodes, NEW f \in Flows, InsertedFlow(n, f),
           ~NewLink(ports[n], n, f)
    PROVE  IInv' /\ Shorter
<1> DEFINE d == Peer(f, n)
<1>1. f \notin ports[n] /\ UNCHANGED <<neig, table, fwd, scheduledUpdate, config, updates>>
  BY DEF InsertedFlow
<1>2. PortsTo(ports[n], n, d) # {}
  BY <1>1, HopCountLinks
<1>p. /\ ports' \in [Nodes -> SUBSET Flows]
      /\ \A m \in Nodes : \A g \in ports'[m] : m \in Ends(g)
      /\ \A m, a \in Nodes : PortsTo(ports[m], m, a) \subseteq PortsTo(ports'[m], m, a)
      /\ \A m, a \in Nodes :
            PortsTo(ports'[m], m, a) = {} <=>
                /\ PortsTo(ports[m], m, a) = {}
                /\ ~(m = n /\ a = Peer(f, n))
  BY NewPort
<1>3. TypeOK'
  BY <1>1, <1>p DEF IInv, TypeOK
<1>4. LinksArePorts'
  <2>1. \A m, a \in Nodes :
           neig'[m][a] = IF PortsTo(ports'[m], m, a) = {} THEN 0 ELSE 1
    <3> SUFFICES ASSUME NEW m \in Nodes, NEW a \in Nodes
                 PROVE  neig'[m][a] = IF PortsTo(ports'[m], m, a) = {} THEN 0 ELSE 1
      OBVIOUS
    <3>1. neig[m][a] = IF PortsTo(ports[m], m, a) = {} THEN 0 ELSE 1
      BY DEF IInv, LinksArePorts
    <3>2. PortsTo(ports'[m], m, a) = {} <=> PortsTo(ports[m], m, a) = {}
      BY <1>2, <1>p
    <3> QED
      BY <1>1, <3>1, <3>2
  <2> QED
    BY <1>p, <2>1 DEF LinksArePorts
<1>5. ForwardingFollowsTable'
  <2> SUFFICES ASSUME NEW m \in Nodes, NEW a \in Nodes, table[m][a] # NoEntry
               PROVE  fwd[m][a] \in PortsTo(ports'[m], m, table[m][a].addr)
    BY <1>1 DEF IInv, ForwardingFollowsTable
  <2>1. fwd[m][a] \in PortsTo(ports[m], m, table[m][a].addr)
    BY DEF IInv, ForwardingFollowsTable
  <2>2. table[m][a].addr \in Nodes
    BY EntryFacts
  <2> QED
    BY <1>p, <2>1, <2>2
<1>6. \A m, a \in Nodes : GoodEntry(m, table[m][a])'
  BY <1>1 DEF IInv, GoodEntry
<1>7. LinksAreDirect' /\ UpdatesShorten' /\ NextHopIsNearer'
  BY <1>1 DEF IInv, LinksAreDirect, UpdatesShorten, NextHopIsNearer
<1>8. ASSUME NEW src \in Nodes, NEW m \in Nodes, NEW i \in 1 .. Len(updates[src][m])
      PROVE  GoodUpdate(src, m, updates[src][m][i])'
  <2>1. GoodUpdate(src, m, updates[src][m][i])
    BY DEF IInv
  <2> QED
    BY <1>1, <2>1 DEF GoodUpdate
<1>9. Shorter
  BY <1>1, EntryFacts DEF Shorter
<1> QED
  BY <1>1, <1>3, <1>4, <1>5, <1>6, <1>7, <1>8, <1>9 DEF IInv

(* An update in flight stays good while distances get shorter and what its *)
(* receiver has from its sender is no less than what it says.              *)
LEMMA UpdateStaysGood ==
    ASSUME IInv, Shorter, TypeOK', NEW src \in Nodes, NEW n \in Nodes, NEW u \in Update,
           GoodUpdate(src, n, u),
           \A a \in Nodes : table'[n][a].addr = src => u.vector[a] <= table'[n][a].metric
    PROVE  GoodUpdate(src, n, u)'
<1>1. \A a \in Nodes : /\ table'[src][a].metric <= table[src][a].metric
                       /\ table'[src][a].metric \in Nat /\ table[src][a].metric \in Nat
                       /\ u.vector[a] \in Nat
  <2> SUFFICES ASSUME NEW a \in Nodes
               PROVE  /\ table'[src][a].metric <= table[src][a].metric
                      /\ table'[src][a].metric \in Nat /\ table[src][a].metric \in Nat
                      /\ u.vector[a] \in Nat
    OBVIOUS
  <2>1. table'[src][a] \in Entry /\ table[src][a] \in Entry /\ u.vector[a] \in Metric
    BY DEF IInv, TypeOK, Update
  <2> QED
    BY <2>1, MaxIsNatural DEF Shorter, Entry, Metric
<1> QED
  BY <1>1 DEF GoodUpdate

(* The first flow to a neighbour becomes the way to it.                    *)
LEMMA FirstFlow ==
    ASSUME IInv, HopCount, NEW n \in Nodes, NEW f \in Flows, InsertedFlow(n, f),
           NewLink(ports[n], n, f)
    PROVE  IInv' /\ Shorter
<1> DEFINE d == Peer(f, n)
           link == InsertLink(table[n][d], d, 1)
           e == link.entry
<1>1. n \in Ends(f) /\ f \notin ports[n] /\ UNCHANGED <<config, updates>>
  BY DEF InsertedFlow
<1>2. d \in Nodes /\ d # n
  BY <1>1, PeerDiffers
<1>3. LinkMetric(f) = 1 /\ PortsTo(ports[n], n, d) = {}
  BY <1>1, HopCountLinks
<1>4. /\ neig' = [neig EXCEPT ![n][d] = 1]
      /\ table' = [table EXCEPT ![n][d] = e]
      /\ fwd' = [fwd EXCEPT ![n] =
                    RoutingUpdated(@, ports'[n], n, IF link.changed THEN {d} ELSE {},
                                   [a \in Nodes |-> link.nh])]
      /\ scheduledUpdate' = [scheduledUpdate EXCEPT ![n] = TRUE]
  BY <1>3 DEF InsertedFlow
<1>5. neig[n][d] = 0
  BY <1>2, <1>3 DEF IInv, LinksArePorts
<1>6. config.infMetric \in 1 .. UINT16_MAX
  BY InfMetricType DEF IInv
<1>7. table[n][d].addr # d
  <2>1. /\ table[n][d] = NoEntry <=> table[n][d].addr = NoAddress
        /\ table[n][d] # NoEntry => neig[n][table[n][d].addr] = 1
    BY <1>1, <1>2, EntryFacts, PeerDiffers
  <2>2. d # NoAddress
    BY <1>2, NodesAssumption DEF NoAddress
  <2> QED
    BY <1>5, <2>1, <2>2
<1>p. /\ ports' \in [Nodes -> SUBSET Flows]
      /\ \A m \in Nodes : \A g \in ports'[m] : m \in Ends(g)
      /\ \A m, a \in Nodes : PortsTo(ports[m], m, a) \subseteq PortsTo(ports'[m], m, a)
      /\ \A m, a \in Nodes :
            PortsTo(ports'[m], m, a) = {} <=>
                /\ PortsTo(ports[m], m, a) = {}
                /\ ~(m = n /\ a = d)
  BY NewPort
<1>8. /\ link.changed
      /\ e = IF config.infMetric > 1 THEN [addr |-> d, metric |-> 1] ELSE NoEntry
      /\ link.nh = IF config.infMetric > 1 THEN {d} ELSE {}
  BY <1>2, <1>6, <1>7, EntryFacts, InsertResult
<1> HIDE DEF link, e
<1>9. \A m, a \in Nodes :
         /\ table'[m][a] = IF m = n /\ a = d THEN e ELSE table[m][a]
         /\ neig'[m][a] = IF m = n /\ a = d THEN 1 ELSE neig[m][a]
  BY <1>2, <1>4 DEF IInv, TypeOK
<1> DEFINE port == PortFor(ports'[n], n, link.nh)
<1>10. \A m, a \in Nodes : fwd'[m][a] = IF m = n /\ a = d THEN port ELSE fwd[m][a]
  BY <1>2, <1>4, <1>8 DEF IInv, TypeOK, FwdTable, RoutingUpdated
<1>11. IF config.infMetric > 1 THEN port \in PortsTo(ports'[n], n, d) ELSE port = NoPort
  <2>1. ports'[n] \in SUBSET Flows /\ PortsTo(ports'[n], n, d) # {}
    BY <1>2, <1>p
  <2>2. CASE config.infMetric > 1
    BY <1>2, <1>8, <2>1, <2>2, PortForOne
  <2>3. CASE ~(config.infMetric > 1)
    BY <1>8, <2>3, PortForNone
  <2> QED
    BY <2>2, <2>3
<1>12. port \in Flows \union {NoPort}
  BY NewPort, PortForType
<1> HIDE DEF port
<1>13. e \in Entry
  BY <1>2, <1>8, MaxIsNatural DEF Entry, Metric, NoEntry
<1>14. TypeOK'
  <2>1. table' \in [Nodes -> [Nodes -> Entry]]
    BY <1>4, <1>13 DEF IInv, TypeOK
  <2>2. neig' \in [Nodes -> [Nodes -> Metric]]
    <3>1. 1 \in Metric
      BY MaxIsNatural DEF Metric
    <3> QED
      BY <1>4, <3>1 DEF IInv, TypeOK
  <2>3. fwd' \in [Nodes -> FwdTable]
    <3>1. RoutingUpdated(fwd[n], ports'[n], n, IF link.changed THEN {d} ELSE {},
                         [a \in Nodes |-> link.nh]) \in FwdTable
      BY <1>12 DEF RoutingUpdated, FwdTable, IInv, TypeOK, port
    <3> QED
      BY <1>4, <3>1 DEF IInv, TypeOK
  <2> QED
    BY <1>1, <1>4, <1>p, <2>1, <2>2, <2>3 DEF IInv, TypeOK
<1>15. LinksArePorts'
  <2>1. \A m, a \in Nodes :
           neig'[m][a] = IF PortsTo(ports'[m], m, a) = {} THEN 0 ELSE 1
    <3> SUFFICES ASSUME NEW m \in Nodes, NEW a \in Nodes
                 PROVE  neig'[m][a] = IF PortsTo(ports'[m], m, a) = {} THEN 0 ELSE 1
      OBVIOUS
    <3>1. neig[m][a] = IF PortsTo(ports[m], m, a) = {} THEN 0 ELSE 1
      BY DEF IInv, LinksArePorts
    <3>2. PortsTo(ports'[m], m, a) = {} <=>
             PortsTo(ports[m], m, a) = {} /\ ~(m = n /\ a = d)
      BY <1>p
    <3> QED
      BY <1>9, <3>1, <3>2
  <2> QED
    BY <1>p, <2>1 DEF LinksArePorts
<1>16. \A m, a \in Nodes : GoodEntry(m, table[m][a])'
  <2> SUFFICES ASSUME NEW m \in Nodes, NEW a \in Nodes, table'[m][a] # NoEntry
               PROVE  /\ table'[m][a].metric \in 1 .. (config.infMetric - 1)
                      /\ table'[m][a].addr \in Nodes
                      /\ neig'[m][table'[m][a].addr] = 1
    BY <1>1 DEF GoodEntry
  <2>1. CASE m = n /\ a = d
    BY <1>2, <1>6, <1>8, <1>9, <2>1, MaxIsNatural
  <2>2. CASE ~(m = n /\ a = d)
    <3>1. table'[m][a] = table[m][a] /\ GoodEntry(m, table[m][a])
      BY <1>9, <2>2 DEF IInv
    <3> QED
      BY <1>9, <3>1 DEF GoodEntry
  <2> QED
    BY <2>1, <2>2
<1>17. LinksAreDirect'
  BY <1>1, <1>8, <1>9 DEF IInv, LinksAreDirect
<1>18. Shorter
  <2> SUFFICES ASSUME NEW m \in Nodes, NEW a \in Nodes
               PROVE  table'[m][a].metric <= table[m][a].metric
    BY DEF Shorter
  <2>1. CASE m = n /\ a = d
    <3>1. /\ table[n][d].metric \in Nat /\ table[n][d].metric >= 1
          /\ table[n][d] # NoEntry => table[n][d].metric < config.infMetric
          /\ table[n][d] = NoEntry => table[n][d].metric = UINT16_MAX
      BY <1>2, EntryFacts
    <3> QED
      BY <1>6, <1>8, <1>9, <2>1, <3>1, MaxIsNatural DEF NoEntry
  <2>2. CASE ~(m = n /\ a = d)
    BY <1>9, <2>2, EntryFacts
  <2> QED
    BY <2>1, <2>2
<1>19. ASSUME NEW src \in Nodes, NEW m \in Nodes, NEW i \in 1 .. Len(updates[src][m])
       PROVE  GoodUpdate(src, m, updates[src][m][i])'
  <2> DEFINE u == updates[src][m][i]
  <2>1. u \in Update /\ GoodUpdate(src, m, u)
    BY DEF IInv, TypeOK
  <2>2. \A a \in Nodes : table'[m][a].addr = src => u.vector[a] <= table'[m][a].metric
    <3> SUFFICES ASSUME NEW a \in Nodes, table'[m][a].addr = src
                 PROVE  u.vector[a] <= table'[m][a].metric
      OBVIOUS
    <3>1. CASE m = n /\ a = d
      <4>1. NoAddress \notin Nodes
        BY NodesAssumption DEF NoAddress
      <4>2. e = [addr |-> d, metric |-> 1] /\ src = d
        BY <1>8, <1>9, <3>1, <4>1 DEF NoEntry
      <4> QED
        BY <1>9, <2>1, <3>1, <4>2 DEF GoodUpdate
    <3>2. CASE ~(m = n /\ a = d)
      BY <1>9, <2>1, <3>2 DEF GoodUpdate
    <3> QED
      BY <3>1, <3>2
  <2> QED
    BY <1>1, <1>14, <1>18, <2>1, <2>2, UpdateStaysGood
<1>20. UpdatesShorten'
  BY <1>1 DEF IInv, UpdatesShorten
<1>21. ForwardingFollowsTable'
  <2> SUFFICES ASSUME NEW m \in Nodes, NEW a \in Nodes
               PROVE  IF table'[m][a] = NoEntry THEN fwd'[m][a] = NoPort
                      ELSE fwd'[m][a] \in PortsTo(ports'[m], m, table'[m][a].addr)
    BY DEF ForwardingFollowsTable
  <2>1. CASE m = n /\ a = d
    <3>1. NoEntry # [addr |-> d, metric |-> 1]
      <4>1. d # NoAddress
        BY <1>2, NodesAssumption DEF NoAddress
      <4> QED
        BY <4>1 DEF NoEntry
    <3> QED
      BY <1>8, <1>9, <1>10, <1>11, <2>1, <3>1
  <2>2. CASE ~(m = n /\ a = d)
    <3>1. table'[m][a] = table[m][a] /\ fwd'[m][a] = fwd[m][a]
      BY <1>9, <1>10, <2>2
    <3>2. IF table[m][a] = NoEntry THEN fwd[m][a] = NoPort
          ELSE fwd[m][a] \in PortsTo(ports[m], m, table[m][a].addr)
      BY DEF IInv, ForwardingFollowsTable
    <3>3. table[m][a] # NoEntry => table[m][a].addr \in Nodes
      BY EntryFacts
    <3> QED
      BY <1>p, <3>1, <3>2, <3>3
  <2> QED
    BY <2>1, <2>2
<1>22. NextHopIsNearer'
  <2> SUFFICES ASSUME NEW m \in Nodes, NEW a \in Nodes, table'[m][a] # NoEntry,
                      table'[m][a].addr # a
               PROVE  table'[table'[m][a].addr][a].metric < table'[m][a].metric
    BY DEF NextHopIsNearer
  <2>1. ~(m = n /\ a = d)
    BY <1>8, <1>9
  <2> DEFINE hop == table[m][a].addr
  <2>2. table'[m][a] = table[m][a]
    BY <1>9, <2>1
  <2>3. hop \in Nodes /\ table[hop][a].metric < table[m][a].metric
    BY <2>2, EntryFacts DEF IInv, NextHopIsNearer
  <2>4. table'[hop][a].metric <= table[hop][a].metric
    BY <1>18, <2>3 DEF Shorter
  <2>5. table'[hop][a].metric \in Nat /\ table[hop][a].metric \in Nat /\ table[m][a].metric \in Nat
    <3>1. table'[hop][a] \in Entry /\ table[hop][a] \in Entry /\ table[m][a] \in Entry
      BY <1>14, <2>3 DEF IInv, TypeOK
    <3> QED
      BY <3>1, MaxIsNatural DEF Entry, Metric
  <2> QED
    BY <2>2, <2>3, <2>4, <2>5
<1> QED
  BY <1>1, <1>14, <1>15, <1>16, <1>17, <1>18, <1>19, <1>20, <1>21, <1>22 DEF IInv

(* What n says of itself when it sends, to a neighbour it can reach.       *)
Said(n, d) == [over |-> Crossed(fwd, n, d), vector |-> Vector(n, d)]

LEMMA SaysEnough ==
    ASSUME IInv, NEW n \in Nodes, NEW d \in Nodes, neig[n][d] # 0, Reaches(fwd, n, d)
    PROVE  /\ n # d
           /\ Said(n, d) \in Update
           /\ \E f \in Crossed(fwd, n, d) : d \in Ends(f) /\ Peer(f, d) = n
           /\ Vector(n, d)[n] = 1
           /\ \A a \in Nodes \ {n} :
                 \/ table[n][a] = NoEntry /\ Vector(n, d)[a] = UINT16_MAX
                 \/ /\ table[n][a] # NoEntry
                    /\ Vector(n, d)[a] = table[n][a].metric + 1
                    /\ Vector(n, d)[a] <= UINT16_MAX
<1>1. PortsTo(ports[n], n, d) # {} /\ neig[n][d] = 1
  BY DEF IInv, LinksArePorts
<1>2. ports[n] \in SUBSET Flows /\ \A f \in ports[n] : n \in Ends(f)
  BY DEF IInv, TypeOK, LinksArePorts
<1>3. n # d
  BY <1>1, <1>2, PeerDiffers DEF PortsTo
<1>4. fwd \in [Nodes -> FwdTable]
  BY DEF IInv, TypeOK
<1>5. fwd[n][d] # NoPort
  BY <1>3, <1>4, ReachesByPort
<1>6. table[n][d] # NoEntry /\ fwd[n][d] \in PortsTo(ports[n], n, table[n][d].addr)
  BY <1>5 DEF IInv, ForwardingFollowsTable
<1>7. config.infMetric > 1
  <2>1. /\ table[n][d].metric \in Nat /\ table[n][d].metric >= 1
        /\ table[n][d].metric < config.infMetric
    BY <1>6, EntryFacts
  <2>2. config.infMetric \in 1 .. UINT16_MAX
    BY InfMetricType DEF IInv
  <2> QED
    BY <2>1, <2>2, MaxIsNatural
<1>8. table[n][d].addr = d
  <2>1. LinksAreDirect
    BY DEF IInv
  <2>2. table[n][d] = [addr |-> d, metric |-> 1]
    BY <1>1, <1>7, <2>1 DEF LinksAreDirect
  <2> QED
    BY <2>2
<1>9. \E f \in Crossed(fwd, n, d) : d \in Ends(f) /\ Peer(f, d) = n
  <2> DEFINE f == fwd[n][d]
  <2>1. f \in Crossed(fwd, n, d)
    BY <1>3, <1>4, CrossesFirst
  <2>2. f \in Flows /\ n \in Ends(f) /\ Peer(f, n) = d
    BY <1>2, <1>6, <1>8 DEF PortsTo
  <2>3. d \in Ends(f) /\ Peer(f, d) = n
    BY <1>3, <2>2, FlowsAssumption DEF Ends, Peer
  <2> QED
    BY <2>1, <2>3
<1>10. Vector(n, d)[n] = 1
  BY <1>1 DEF Vector
<1>11. ASSUME NEW a \in Nodes \ {n}
       PROVE  \/ table[n][a] = NoEntry /\ Vector(n, d)[a] = UINT16_MAX
              \/ /\ table[n][a] # NoEntry
                 /\ Vector(n, d)[a] = table[n][a].metric + 1
                 /\ Vector(n, d)[a] <= UINT16_MAX
  <2>1. Vector(n, d)[a] = IF table[n][a] = NoEntry THEN UINT16_MAX ELSE table[n][a].metric + 1
    BY <1>1 DEF Vector
  <2>2. CASE table[n][a] = NoEntry
    BY <2>1, <2>2
  <2>3. CASE table[n][a] # NoEntry
    <3>1. table[n][a].metric \in Nat /\ table[n][a].metric < config.infMetric
      BY <2>3, EntryFacts
    <3>2. config.infMetric \in 1 .. UINT16_MAX
      BY InfMetricType DEF IInv
    <3> QED
      BY <2>1, <2>3, <3>1, <3>2, MaxIsNatural
  <2> QED
    BY <2>2, <2>3
<1>12. Said(n, d) \in Update
  <2>1. Crossed(fwd, n, d) \subseteq Flows
    BY <1>4, CrossesFlows
  <2>2. Vector(n, d) \in [Nodes -> Metric]
    <3>1. \A a \in Nodes : Vector(n, d)[a] \in Metric
      <4> SUFFICES ASSUME NEW a \in Nodes PROVE Vector(n, d)[a] \in Metric
        OBVIOUS
      <4>1. CASE a = n
        BY <1>10, <4>1, MaxIsNatural DEF Metric
      <4>2. CASE a # n
        <5>1. table[n][a].metric \in Nat
          BY EntryFacts
        <5> QED
          BY <1>11, <4>2, <5>1, MaxIsNatural DEF Metric
      <4> QED
        BY <4>1, <4>2
    <3>2. Vector(n, d) = [a \in Nodes |-> Vector(n, d)[a]]
      BY DEF Vector
    <3> QED
      BY <3>1, <3>2
  <2> QED
    BY <2>1, <2>2 DEF Said, Update
<1> QED
  BY <1>3, <1>9, <1>10, <1>11, <1>12

(* It is more than n needs, no more than the receiver has from n, and no   *)
(* more than n said before.                                                *)
LEMMA SaysNoMore ==
    ASSUME IInv, NEW n \in Nodes, NEW d \in Nodes, neig[n][d] # 0, Reaches(fwd, n, d)
    PROVE  /\ GoodUpdate(n, d, Said(n, d))
           /\ \A u \in Update : GoodUpdate(n, d, u) =>
                 \A a \in Nodes : Said(n, d).vector[a] <= u.vector[a]
<1> DEFINE v == Vector(n, d)
<1>1. Said(n, d) = [over |-> Crossed(fwd, n, d), vector |-> v]
  BY DEF Said
<1>2. /\ n # d
      /\ Said(n, d) \in Update
      /\ \E f \in Crossed(fwd, n, d) : d \in Ends(f) /\ Peer(f, d) = n
      /\ v[n] = 1
      /\ \A a \in Nodes \ {n} :
            \/ table[n][a] = NoEntry /\ v[a] = UINT16_MAX
            \/ /\ table[n][a] # NoEntry
               /\ v[a] = table[n][a].metric + 1
               /\ v[a] <= UINT16_MAX
  BY SaysEnough
<1> HIDE DEF v
<1>3. \A a \in Nodes : table[n][a].metric \in Nat /\ table[d][a].metric \in Nat
  BY EntryFacts
<1>4. UINT16_MAX \in Nat /\ UINT16_MAX > 1
  BY MaxIsNatural
<1>5. ASSUME NEW a \in Nodes
      PROVE  /\ v[a] >= 1
             /\ a # n /\ v[a] < UINT16_MAX => table[n][a].metric < v[a]
             /\ table[d][a].addr = n => v[a] <= table[d][a].metric
  <2>1. CASE a = n
    <3>1. table[d][a].metric >= 1
      BY EntryFacts
    <3> QED
      BY <1>2, <1>3, <2>1, <3>1
  <2>2. CASE a # n
    <3>1. v[a] >= 1 /\ (v[a] < UINT16_MAX => table[n][a].metric < v[a])
      BY <1>2, <1>3, <1>4, <2>2
    <3>2. ASSUME table[d][a].addr = n
          PROVE  v[a] <= table[d][a].metric
      <4>1. table[d][a] # NoEntry
        <5>1. n # NoAddress
          BY NodesAssumption DEF NoAddress
        <5> QED
          BY <3>2, <5>1, EntryFacts
      <4>2. table[n][a].metric < table[d][a].metric
        BY <2>2, <3>2, <4>1 DEF IInv, NextHopIsNearer
      <4>3. table[d][a].metric <= UINT16_MAX
        BY EntryFacts
      <4>4. table[n][a] # NoEntry
        <5>1. table[n][a] = NoEntry <=> table[n][a].metric = UINT16_MAX
          BY EntryFacts
        <5> QED
          BY <1>3, <1>4, <4>2, <4>3, <5>1
      <4> QED
        BY <1>2, <1>3, <2>2, <4>2, <4>4
    <3> QED
      BY <3>1, <3>2
  <2> QED
    BY <2>1, <2>2
<1>6. GoodUpdate(n, d, Said(n, d))
  BY <1>1, <1>2, <1>5 DEF GoodUpdate
<1>7. ASSUME NEW u \in Update, GoodUpdate(n, d, u), NEW a \in Nodes
      PROVE  v[a] <= u.vector[a]
  <2>1. u.vector[a] \in Nat /\ u.vector[a] <= UINT16_MAX
    BY <1>4 DEF Update, Metric
  <2>2. u.vector[n] = 1 /\ (a # n /\ u.vector[a] < UINT16_MAX => table[n][a].metric < u.vector[a])
    BY <1>7 DEF GoodUpdate
  <2>3. CASE a = n
    BY <1>2, <2>2, <2>3
  <2>4. CASE a # n /\ u.vector[a] = UINT16_MAX
    BY <1>2, <1>4, <2>4
  <2>5. CASE a # n /\ u.vector[a] < UINT16_MAX
    <3>1. table[n][a].metric < UINT16_MAX
      BY <1>3, <1>4, <2>1, <2>2, <2>5
    <3>2. table[n][a] # NoEntry
      BY <1>3, <1>4, <3>1 DEF NoEntry
    <3> QED
      BY <1>2, <1>3, <2>1, <2>2, <2>5, <3>2
  <2> QED
    BY <1>4, <2>1, <2>3, <2>4, <2>5
<1> QED
  BY <1>1, <1>6, <1>7

LEMMA Sends ==
    ASSUME IInv, NEW n \in Nodes, Time2Update(n)
    PROVE  IInv' /\ Shorter
<1> DEFINE sends(d) == neig[n][d] # 0 /\ Reaches(fwd, n, d)
<1>1. UNCHANGED <<config, ports, neig, table, fwd>> /\ scheduledUpdate' = [scheduledUpdate EXCEPT ![n] = FALSE]
  BY DEF Time2Update
<1>2. updates' = [updates EXCEPT ![n] =
                     [d \in Nodes |-> IF sends(d) THEN Append(@[d], Said(n, d)) ELSE @[d]]]
  BY DEF Time2Update, Said
<1>3. updates \in [Nodes -> [Nodes -> Seq(Update)]]
  BY DEF IInv, TypeOK
<1> HIDE DEF sends
<1>4. \A src, m \in Nodes :
         updates'[src][m] = IF src = n /\ sends(m) THEN Append(updates[n][m], Said(n, m))
                            ELSE updates[src][m]
  BY <1>2, <1>3
<1>5. \A m \in Nodes : sends(m) => Said(n, m) \in Update
  BY SaysEnough DEF sends
<1>6. TypeOK'
  <2>1. updates' \in [Nodes -> [Nodes -> Seq(Update)]]
    BY <1>2, <1>3, <1>5
  <2> QED
    BY <1>1, <2>1 DEF IInv, TypeOK
<1>7. LinksArePorts' /\ LinksAreDirect' /\ ForwardingFollowsTable' /\ NextHopIsNearer'
  BY <1>1 DEF IInv, LinksArePorts, LinksAreDirect, ForwardingFollowsTable, NextHopIsNearer
<1>8. \A m, a \in Nodes : GoodEntry(m, table[m][a])'
  BY <1>1 DEF IInv, GoodEntry
<1>9. ASSUME NEW src \in Nodes, NEW m \in Nodes, NEW i \in 1 .. Len(updates'[src][m])
      PROVE  /\ \/ i \in 1 .. Len(updates[src][m]) /\ updates'[src][m][i] = updates[src][m][i]
                \/ /\ src = n /\ sends(m) /\ i = Len(updates[src][m]) + 1
                   /\ updates'[src][m][i] = Said(n, m)
             /\ Len(updates[src][m]) \in Nat
  <2>1. updates[src][m] \in Seq(Update)
    BY <1>3
  <2>2. CASE src = n /\ sends(m)
    <3>1. updates'[src][m] = Append(updates[src][m], Said(n, m)) /\ Said(n, m) \in Update
      BY <1>4, <1>5, <2>2
    <3>2. i \in 1 .. Len(updates[src][m]) \/ i = Len(updates[src][m]) + 1
      BY <2>1, <3>1
    <3> QED
      BY <2>1, <2>2, <3>1, <3>2
  <2>3. CASE ~(src = n /\ sends(m))
    BY <1>4, <2>1, <2>3
  <2> QED
    BY <2>2, <2>3
<1>10. ASSUME NEW src \in Nodes, NEW m \in Nodes, NEW i \in 1 .. Len(updates'[src][m])
       PROVE  GoodUpdate(src, m, updates[src][m][i])'
  <2>1. \A u : GoodUpdate(src, m, u)' <=> GoodUpdate(src, m, u)
    BY <1>1 DEF GoodUpdate
  <2>2. GoodUpdate(src, m, updates'[src][m][i])
    BY <1>9, SaysNoMore DEF IInv, sends
  <2> QED
    BY <1>1, <2>2 DEF GoodUpdate
<1>11. UpdatesShorten'
  <2> SUFFICES ASSUME NEW src \in Nodes, NEW m \in Nodes,
                      NEW i \in 1 .. Len(updates'[src][m]), NEW j \in 1 .. Len(updates'[src][m]),
                      i < j, NEW a \in Nodes
               PROVE  updates'[src][m][j].vector[a] <= updates'[src][m][i].vector[a]
    BY DEF UpdatesShorten
  <2>1. i \in 1 .. Len(updates[src][m]) /\ updates'[src][m][i] = updates[src][m][i]
    BY <1>9
  <2>2. CASE j \in 1 .. Len(updates[src][m])
    <3>1. updates'[src][m][j] = updates[src][m][j]
      BY <1>9, <2>2
    <3> QED
      BY <2>1, <2>2, <3>1 DEF IInv, UpdatesShorten
  <2>3. CASE src = n /\ sends(m) /\ updates'[src][m][j] = Said(n, m)
    <3>1. updates[src][m][i] \in Update
      <4>1. updates[src][m] \in Seq(Update)
        BY <1>3
      <4> QED
        BY <2>1, <4>1
    <3>2. GoodUpdate(src, m, updates[src][m][i])
      BY <2>1 DEF IInv
    <3> QED
      BY <2>1, <2>3, <3>1, <3>2, SaysNoMore DEF sends
  <2> QED
    BY <1>9, <2>2, <2>3
<1>12. Shorter
  BY <1>1, EntryFacts DEF Shorter
<1> QED
  BY <1>1, <1>6, <1>7, <1>8, <1>10, <1>11, <1>12 DEF IInv

(* What hearing u from src may do to an entry of n: nothing, or take it    *)
(* from src together with its port.                                        *)
Heard(src, n, u, m, a) ==
    /\ table'[m][a] \in Entry
    /\ table'[m][a].metric <= table[m][a].metric
    /\ fwd'[m][a] \in Flows \union {NoPort}
    /\ \/ table'[m][a] = table[m][a] /\ fwd'[m][a] = fwd[m][a]
       \/ m = n /\ table'[m][a] = NoEntry /\ fwd'[m][a] = NoPort
       \/ /\ m = n /\ table'[m][a] = [addr |-> src, metric |-> u.vector[a]]
          /\ u.vector[a] < config.infMetric
          /\ fwd'[m][a] \in PortsTo(ports[n], n, src)

LEMMA Hears ==
    ASSUME IInv, NEW src \in Nodes, NEW n \in Nodes, ReceiveUpdate(src, n),
           NEW u, u = Head(updates[src][n])
    PROVE  /\ u \in Update /\ GoodUpdate(src, n, u)
           /\ neig[n][src] = 1
           /\ \A m, a \in Nodes : Heard(src, n, u, m, a)
<1>1. updates[src][n] \in Seq(Update) /\ updates[src][n] # <<>>
  BY DEF IInv, TypeOK, ReceiveUpdate
<1>2. u = updates[src][n][1] /\ 1 \in 1 .. Len(updates[src][n]) /\ u \in Update
  BY <1>1
<1>3. GoodUpdate(src, n, u)
  BY <1>2 DEF IInv
<1>4. PortsTo(ports[n], n, src) # {} /\ neig[n][src] = 1
  <2>1. PICK f \in u.over : n \in Ends(f) /\ Peer(f, n) = src
    BY <1>3 DEF GoodUpdate
  <2>2. f \in ports[n]
    BY <2>1 DEF ReceiveUpdate
  <2> QED
    BY <2>1, <2>2 DEF PortsTo, IInv, LinksArePorts
<1> DEFINE listed == {a \in Nodes \ {n} : u.vector[a] < UINT16_MAX}
           r(a) == Learn(table[n][a], src, u.vector[a])
           learnt == [a \in listed |-> r(a)]
<1>5. /\ table' = [table EXCEPT ![n] =
                     [a \in Nodes |-> IF a \in listed THEN learnt[a].entry ELSE @[a]]]
      /\ fwd' = [fwd EXCEPT ![n] =
                   RoutingUpdated(@, ports[n], n, {a \in listed : learnt[a].changed},
                                  [a \in listed |-> learnt[a].nh])]
  BY DEF ReceiveUpdate
<1>6. table \in [Nodes -> [Nodes -> Entry]] /\ fwd \in [Nodes -> FwdTable]
      /\ ports[n] \in SUBSET Flows
  BY DEF IInv, TypeOK
<1>7. \A m, a \in Nodes : m # n => table'[m][a] = table[m][a] /\ fwd'[m][a] = fwd[m][a]
  BY <1>5, <1>6
<1>8. \A a \in Nodes :
         /\ table'[n][a] = IF a \in listed THEN r(a).entry ELSE table[n][a]
         /\ fwd'[n][a] = IF a \in listed /\ r(a).changed THEN PortFor(ports[n], n, r(a).nh)
                         ELSE fwd[n][a]
  <2> HIDE DEF listed, r
  <2> QED
    BY <1>5, <1>6 DEF RoutingUpdated
<1>9. \A a \in listed : Learnt(r(a), table[n][a], src, u.vector[a])
  <2> SUFFICES ASSUME NEW a \in listed
               PROVE  Learnt(r(a), table[n][a], src, u.vector[a])
    OBVIOUS
  <2>1. config.infMetric \in 1 .. UINT16_MAX
    BY InfMetricType DEF IInv
  <2>2. table[n][a] \in Entry /\ GoodEntry(n, table[n][a])
    BY <1>6 DEF IInv
  <2>3. u.vector[a] \in 1 .. (UINT16_MAX - 1)
    <3>1. u.vector[a] \in Metric /\ u.vector[a] >= 1
      BY <1>2, <1>3 DEF Update, GoodUpdate
    <3> QED
      BY <3>1, MaxIsNatural DEF Metric
  <2>4. table[n][a].addr = src => u.vector[a] <= table[n][a].metric
    BY <1>3 DEF GoodUpdate
  <2> QED
    BY <2>1, <2>2, <2>3, <2>4, LearnResult DEF GoodEntry
<1>10. ASSUME NEW m \in Nodes, NEW a \in Nodes
       PROVE  Heard(src, n, u, m, a)
  <2>1. /\ table[m][a] \in Entry /\ fwd[m][a] \in Flows \union {NoPort}
        /\ table[m][a].metric \in Nat
    BY <1>6, EntryFacts DEF FwdTable
  <2>2. CASE ~(m = n /\ a \in listed)
    <3>1. table'[m][a] = table[m][a] /\ fwd'[m][a] = fwd[m][a]
      BY <1>7, <1>8, <2>2
    <3> QED
      BY <2>1, <3>1 DEF Heard
  <2>3. CASE m = n /\ a \in listed
    <3> DEFINE q == r(a)
               old == table[n][a]
    <3>1. Learnt(q, old, src, u.vector[a])
      BY <1>9, <2>3
    <3>2. /\ table'[n][a] = q.entry
          /\ fwd'[n][a] = IF q.changed THEN PortFor(ports[n], n, q.nh) ELSE fwd[n][a]
      BY <1>8, <2>3
    <3>3. src # NoAddress /\ NoEntry.addr = NoAddress
      BY NodesAssumption DEF NoAddress, NoEntry
    <3> HIDE DEF q, listed
    <3>4. q.entry \in Entry /\ q.entry.metric <= old.metric
      BY <3>1 DEF Learnt
    <3>5. CASE q.changed /\ q.entry = NoEntry /\ q.nh = {}
      <4>1. fwd'[n][a] = NoPort
        BY <3>2, <3>5, PortForNone
      <4> QED
        BY <2>3, <3>2, <3>4, <3>5, <4>1 DEF Heard
    <3>6. CASE q.changed /\ q.entry # NoEntry /\ q.entry.addr = src /\ q.nh = {src}
      <4>1. fwd'[n][a] \in PortsTo(ports[n], n, src)
        BY <1>4, <1>6, <3>2, <3>6, PortForOne
      <4>2. q.entry = [addr |-> src, metric |-> u.vector[a]] /\ u.vector[a] < config.infMetric
        BY <3>1, <3>6 DEF Learnt
      <4>3. fwd'[n][a] \in Flows \union {NoPort}
        BY <1>6, <4>1 DEF PortsTo
      <4> QED
        BY <2>3, <3>2, <3>4, <4>1, <4>2, <4>3 DEF Heard
    <3>7. CASE ~q.changed /\ q.entry.addr = old.addr /\ (q.entry = NoEntry <=> old = NoEntry)
      <4>1. fwd'[n][a] = fwd[n][a]
        BY <3>2, <3>7
      <4>2. CASE q.entry = old
        BY <2>1, <2>3, <3>2, <3>4, <4>1, <4>2 DEF Heard
      <4>3. CASE q.entry # old
        <5>1. q.entry = [addr |-> src, metric |-> u.vector[a]] /\ u.vector[a] < config.infMetric
          BY <3>1, <3>7, <4>3 DEF Learnt
        <5>2. old.addr = src /\ old # NoEntry
          BY <3>3, <3>7, <5>1
        <5>3. fwd[n][a] \in PortsTo(ports[n], n, src)
          BY <5>2 DEF IInv, ForwardingFollowsTable
        <5> QED
          BY <2>1, <2>3, <3>2, <3>4, <4>1, <5>1, <5>3 DEF Heard
      <4> QED
        BY <4>2, <4>3
    <3> QED
      BY <3>1, <3>5, <3>6, <3>7 DEF Learnt
  <2> QED
    BY <2>2, <2>3
<1> QED
  BY <1>2, <1>3, <1>4, <1>10

LEMMA Receives ==
    ASSUME IInv, NEW src \in Nodes, NEW n \in Nodes, ReceiveUpdate(src, n)
    PROVE  IInv' /\ Shorter
<1> DEFINE u == Head(updates[src][n])
<1>1. UNCHANGED <<config, ports, neig>>
  BY DEF ReceiveUpdate
<1>2. /\ u \in Update /\ GoodUpdate(src, n, u)
      /\ neig[n][src] = 1
      /\ \A m, a \in Nodes : Heard(src, n, u, m, a)
  BY Hears
<1>3. updates \in [Nodes -> [Nodes -> Seq(Update)]] /\ updates[src][n] # <<>>
      /\ updates' = [updates EXCEPT ![src][n] = Tail(@)]
  BY DEF IInv, TypeOK, ReceiveUpdate
<1>4. u = updates[src][n][1] /\ updates[src][n] \in Seq(Update) /\ Len(updates[src][n]) \in Nat
  BY <1>3
<1> HIDE DEF u
<1>5. TypeOK'
  <2>1. table' \in [Nodes -> [Nodes -> Entry]]
    <3>1. /\ table' = [m \in Nodes |-> table'[m]]
          /\ \A m \in Nodes : table'[m] = [a \in Nodes |-> table'[m][a]]
      BY DEF IInv, TypeOK, ReceiveUpdate
    <3>2. \A m, a \in Nodes : table'[m][a] \in Entry
      BY <1>2 DEF Heard
    <3> QED
      BY <3>1, <3>2
  <2>2. fwd' \in [Nodes -> FwdTable]
    <3>1. /\ fwd' = [m \in Nodes |-> fwd'[m]]
          /\ \A m \in Nodes : fwd'[m] = [a \in Nodes |-> fwd'[m][a]]
      BY DEF IInv, TypeOK, FwdTable, ReceiveUpdate, RoutingUpdated
    <3>2. \A m, a \in Nodes : fwd'[m][a] \in Flows \union {NoPort}
      BY <1>2 DEF Heard
    <3> QED
      BY <3>1, <3>2 DEF FwdTable
  <2>3. updates' \in [Nodes -> [Nodes -> Seq(Update)]]
    <3>1. Tail(updates[src][n]) \in Seq(Update)
      BY <1>3, <1>4
    <3> QED
      BY <1>3, <3>1
  <2>4. scheduledUpdate' \in [Nodes -> BOOLEAN]
    BY DEF IInv, TypeOK, ReceiveUpdate
  <2> QED
    BY <1>1, <2>1, <2>2, <2>3, <2>4 DEF IInv, TypeOK
<1>6. \A m, a \in Nodes : /\ table'[m][a].metric <= table[m][a].metric
                          /\ table'[m][a].metric \in Nat /\ table[m][a].metric \in Nat
  <2> SUFFICES ASSUME NEW m \in Nodes, NEW a \in Nodes
               PROVE  /\ table'[m][a].metric <= table[m][a].metric
                      /\ table'[m][a].metric \in Nat /\ table[m][a].metric \in Nat
    OBVIOUS
  <2>1. Heard(src, n, u, m, a) /\ table'[m][a] \in Entry
    BY <1>2 DEF Heard
  <2> QED
    BY <2>1, EntryFacts, MaxIsNatural DEF Heard, Entry, Metric
<1>7. Shorter
  BY <1>6 DEF Shorter
<1>8. LinksArePorts'
  BY <1>1 DEF IInv, LinksArePorts
<1>9. ASSUME NEW m \in Nodes, NEW a \in Nodes
      PROVE  GoodEntry(m, table[m][a])'
  <2>1. Heard(src, n, u, m, a)
    BY <1>2
  <2>2. CASE table'[m][a] = table[m][a]
    BY <1>1, <2>2 DEF IInv, GoodEntry
  <2>3. CASE table'[m][a] = NoEntry
    BY <2>3 DEF GoodEntry
  <2>4. CASE /\ m = n /\ table'[m][a] = [addr |-> src, metric |-> u.vector[a]]
             /\ u.vector[a] < config.infMetric
    <3>1. u.vector[a] \in Nat /\ u.vector[a] >= 1
      BY <1>2, MaxIsNatural DEF Update, Metric, GoodUpdate
    <3>2. config.infMetric \in Nat
      BY InfMetricType, MaxIsNatural DEF IInv
    <3> QED
      BY <1>1, <1>2, <2>4, <3>1, <3>2 DEF GoodEntry
  <2> QED
    BY <2>1, <2>2, <2>3, <2>4 DEF Heard
<1>10. LinksAreDirect'
  <2> SUFFICES ASSUME config.infMetric > 1, NEW m \in Nodes, NEW d \in Nodes, neig[m][d] = 1
               PROVE  table'[m][d] = [addr |-> d, metric |-> 1]
    BY <1>1 DEF LinksAreDirect
  <2>1. LinksAreDirect
    BY DEF IInv
  <2>2. table[m][d] = [addr |-> d, metric |-> 1]
    BY <2>1 DEF LinksAreDirect
  <2>3. Heard(src, n, u, m, d)
    BY <1>2
  <2>4. CASE table'[m][d] = table[m][d]
    BY <2>2, <2>4
  <2>5. CASE table'[m][d] = NoEntry
    <3>1. table'[m][d].metric = UINT16_MAX
      BY <2>5 DEF NoEntry
    <3>2. table'[m][d].metric <= 1
      BY <1>6, <2>2
    <3> QED
      BY <3>1, <3>2, MaxIsNatural
  <2>6. CASE m = n /\ table'[m][d] = [addr |-> src, metric |-> u.vector[d]]
    <3>1. u.vector[d] <= 1 /\ u.vector[d] \in Nat /\ u.vector[d] >= 1
      <4>1. u.vector[d] <= 1
        BY <1>6, <2>2, <2>6
      <4> QED
        BY <1>2, <4>1, MaxIsNatural DEF Update, Metric, GoodUpdate
    <3>2. CASE d = src
      BY <2>6, <3>1, <3>2
    <3>3. CASE d # src
      <4>1. table[src][d].metric < u.vector[d]
        BY <1>2, <3>1, <3>3, MaxIsNatural DEF GoodUpdate
      <4>2. table[src][d].metric >= 1
        BY EntryFacts
      <4> QED
        BY <1>6, <3>1, <4>1, <4>2
    <3> QED
      BY <3>2, <3>3
  <2> QED
    BY <2>3, <2>4, <2>5, <2>6 DEF Heard
<1>11. ASSUME NEW s \in Nodes, NEW m \in Nodes, NEW i \in 1 .. Len(updates'[s][m])
       PROVE  \/ /\ ~(s = src /\ m = n)
                 /\ i \in 1 .. Len(updates[s][m]) /\ updates'[s][m][i] = updates[s][m][i]
              \/ /\ s = src /\ m = n
                 /\ i + 1 \in 1 .. Len(updates[s][m])
                 /\ updates'[s][m][i] = updates[s][m][i + 1]
  <2>1. CASE s = src /\ m = n
    <3>1. updates'[s][m] = Tail(updates[s][m])
      BY <1>3, <2>1
    <3> QED
      BY <1>3, <1>4, <2>1, <3>1
  <2>2. CASE ~(s = src /\ m = n)
    BY <1>3, <2>2
  <2> QED
    BY <2>1, <2>2
<1>12. ASSUME NEW s \in Nodes, NEW m \in Nodes, NEW i \in 1 .. Len(updates'[s][m])
       PROVE  GoodUpdate(s, m, updates[s][m][i])'
  <2> DEFINE w == updates'[s][m][i]
  <2>1. PICK j \in 1 .. Len(updates[s][m]) :
           w = updates[s][m][j] /\ (s = src /\ m = n => j > 1)
    <3>1. CASE s = src /\ m = n
      <4>1. i + 1 \in 1 .. Len(updates[s][m]) /\ w = updates[s][m][i + 1] /\ i + 1 > 1
        BY <1>11, <3>1
      <4> QED
        BY <4>1
    <3>2. CASE ~(s = src /\ m = n)
      BY <1>11, <3>2
    <3> QED
      BY <3>1, <3>2
  <2>2. w \in Update /\ GoodUpdate(s, m, w)
    <3>1. updates[s][m] \in Seq(Update)
      BY <1>3
    <3> QED
      BY <2>1, <3>1 DEF IInv
  <2> HIDE DEF w
  <2>3. ASSUME NEW a \in Nodes, table'[m][a].addr = s
        PROVE  w.vector[a] <= table'[m][a].metric
    <3>1. Heard(src, n, u, m, a)
      BY <1>2
    <3>2. CASE table'[m][a] = table[m][a]
      BY <2>2, <2>3, <3>2 DEF GoodUpdate
    <3>3. CASE table'[m][a] = NoEntry
      BY <2>3, <3>3, NodesAssumption DEF NoEntry, NoAddress
    <3>4. CASE m = n /\ table'[m][a] = [addr |-> src, metric |-> u.vector[a]]
      <4>1. s = src /\ m = n
        BY <2>3, <3>4
      <4>2. UpdatesShorten /\ 1 \in 1 .. Len(updates[s][m]) /\ j > 1
        BY <2>1, <4>1 DEF IInv
      <4>3. w.vector[a] <= u.vector[a]
        BY <1>4, <2>1, <4>1, <4>2 DEF UpdatesShorten
      <4> QED
        BY <3>4, <4>3
    <3> QED
      BY <3>1, <3>2, <3>3, <3>4 DEF Heard
  <2> QED
    BY <1>5, <1>7, <2>2, <2>3, UpdateStaysGood DEF w
<1>13. UpdatesShorten'
  <2> SUFFICES ASSUME NEW s \in Nodes, NEW m \in Nodes,
                      NEW i \in 1 .. Len(updates'[s][m]), NEW j \in 1 .. Len(updates'[s][m]),
                      i < j, NEW a \in Nodes
               PROVE  updates'[s][m][j].vector[a] <= updates'[s][m][i].vector[a]
    BY DEF UpdatesShorten
  <2>1. UpdatesShorten
    BY DEF IInv
  <2>2. CASE s = src /\ m = n
    <3>1. /\ i + 1 \in 1 .. Len(updates[s][m]) /\ j + 1 \in 1 .. Len(updates[s][m])
          /\ updates'[s][m][i] = updates[s][m][i + 1]
          /\ updates'[s][m][j] = updates[s][m][j + 1]
          /\ i + 1 < j + 1
      BY <1>11, <2>2
    <3> QED
      BY <2>1, <3>1 DEF UpdatesShorten
  <2>3. CASE ~(s = src /\ m = n)
    <3>1. /\ i \in 1 .. Len(updates[s][m]) /\ j \in 1 .. Len(updates[s][m])
          /\ updates'[s][m][i] = updates[s][m][i] /\ updates'[s][m][j] = updates[s][m][j]
      BY <1>11, <2>3
    <3> QED
      BY <2>1, <3>1 DEF UpdatesShorten
  <2> QED
    BY <2>2, <2>3
<1>14. ForwardingFollowsTable'
  <2> SUFFICES ASSUME NEW m \in Nodes, NEW a \in Nodes
               PROVE  IF table'[m][a] = NoEntry THEN fwd'[m][a] = NoPort
                      ELSE fwd'[m][a] \in PortsTo(ports[m], m, table'[m][a].addr)
    BY <1>1 DEF ForwardingFollowsTable
  <2>1. Heard(src, n, u, m, a)
    BY <1>2
  <2>2. CASE table'[m][a] = table[m][a] /\ fwd'[m][a] = fwd[m][a]
    BY <2>2 DEF IInv, ForwardingFollowsTable
  <2>3. CASE table'[m][a] = NoEntry /\ fwd'[m][a] = NoPort
    BY <2>3
  <2>4. CASE /\ m = n /\ table'[m][a] = [addr |-> src, metric |-> u.vector[a]]
             /\ fwd'[m][a] \in PortsTo(ports[n], n, src)
    <3>1. table'[m][a] # NoEntry
      BY <2>4, NodesAssumption DEF NoEntry, NoAddress
    <3> QED
      BY <2>4, <3>1
  <2> QED
    BY <2>1, <2>2, <2>3, <2>4 DEF Heard
<1>15. NextHopIsNearer'
  <2> SUFFICES ASSUME NEW m \in Nodes, NEW a \in Nodes, table'[m][a] # NoEntry,
                      table'[m][a].addr # a
               PROVE  table'[table'[m][a].addr][a].metric < table'[m][a].metric
    BY DEF NextHopIsNearer
  <2>1. Heard(src, n, u, m, a)
    BY <1>2
  <2>2. CASE table'[m][a] = table[m][a]
    <3> DEFINE hop == table[m][a].addr
    <3>1. hop \in Nodes /\ table[hop][a].metric < table[m][a].metric
      BY <2>2, EntryFacts DEF IInv, NextHopIsNearer
    <3> QED
      BY <1>6, <2>2, <3>1
  <2>3. CASE /\ m = n /\ table'[m][a] = [addr |-> src, metric |-> u.vector[a]]
             /\ u.vector[a] < config.infMetric
    <3>1. u.vector[a] \in Nat /\ u.vector[a] < UINT16_MAX
      <4>1. config.infMetric \in 1 .. UINT16_MAX /\ u.vector[a] \in Metric
        BY <1>2, InfMetricType DEF IInv, Update
      <4> QED
        BY <2>3, <4>1, MaxIsNatural DEF Metric
    <3>2. table[src][a].metric < u.vector[a]
      BY <1>2, <2>3, <3>1 DEF GoodUpdate
    <3> QED
      BY <1>6, <2>3, <3>1, <3>2
  <2> QED
    BY <2>1, <2>2, <2>3 DEF Heard
<1> QED
  BY <1>5, <1>7, <1>8, <1>9, <1>10, <1>12, <1>13, <1>14, <1>15 DEF IInv

-----------------------------------------------------------------------------
LEMMA InvNext ==
    ASSUME IInv, HopCount, [Next]_vars
    PROVE  IInv' /\ Shorter
<1>1. CASE InsertFlows
  BY <1>1, FirstFlow, SecondFlow DEF InsertFlows
<1>2. CASE \E n \in Nodes : Time2Update(n)
  BY <1>2, Sends
<1>3. CASE \E src, n \in Nodes : ReceiveUpdate(src, n)
  BY <1>3, Receives
<1>4. CASE UNCHANGED vars
  <2>1. Shorter
    BY <1>4, EntryFacts DEF Shorter, vars
  <2>2. IInv'
    BY <1>4 DEF IInv, vars, TypeOK, LinksArePorts, GoodEntry, LinksAreDirect, GoodUpdate,
                UpdatesShorten, ForwardingFollowsTable, NextHopIsNearer
  <2> QED
    BY <2>1, <2>2
<1> QED
  BY <1>1, <1>2, <1>3, <1>4 DEF Next, Done

(* The inductive invariant holds of every state of every exchange. *)
THEOREM Invariance ==
    ASSUME HopCount
    PROVE  Spec => []IInv
<1>1. Init => IInv
  BY InvInit
<1>2. IInv /\ [Next]_vars => IInv'
  BY InvNext
<1> QED
  BY <1>1, <1>2, PTL DEF Spec

(* Forwarding tables say what routing tables say, whatever the generator   *)
(* heard of (SimpleDV::processUpdate, SimpleGenerator::routingUpdated).    *)
THEOREM TablesAlwaysAgree ==
    ASSUME HopCount
    PROVE  Spec => []TablesAgree
<1>1. IInv => TablesAgree
  BY DEF IInv, TablesAgree
<1> QED
  BY <1>1, Invariance, PTL

(* Tables never loop, at no moment of the exchange: there is no count to   *)
(* infinity to wait for.                                                   *)
THEOREM NextHopIsAlwaysNearer ==
    ASSUME HopCount
    PROVE  Spec => []NextHopIsNearer
<1>1. IInv => NextHopIsNearer
  BY DEF IInv
<1> QED
  BY <1>1, Invariance, PTL

(* No step makes a known distance longer. *)
THEOREM DistancesOnlyShorten ==
    ASSUME HopCount
    PROVE  Spec => OnlyShorter
<1>1. IInv /\ [Next]_vars => [\A n, d \in Nodes : table'[n][d].metric <= table[n][d].metric]_table
  BY InvNext DEF Shorter
<1> QED
  BY <1>1, Invariance, PTL DEF Spec, OnlyShorter

-----------------------------------------------------------------------------
(* Distances are worked out without tables, over twice as many links at a  *)
(* time. What the tables say is as much if it obeys two laws of shortest   *)
(* ways: no one is farther than a neighbour is and one more, and whoever   *)
(* is away has a neighbour that is nearer.                                 *)
Lengths == [Nodes -> [Nodes -> Nat]]

Squared(c) ==
    [a \in Nodes |-> [d \in Nodes |->
        Min({c[a][b] + c[b][d] : b \in Nodes} \union {UINT16_MAX})]]

Doubled(within, w) ==
    /\ within \in [1 .. Cardinality(Nodes) -> Lengths]
    /\ within[1] = w
    /\ \A k \in 2 .. Cardinality(Nodes) : within[k] = Squared(within[k - 1])

(* w has the links, of metric 1. *)
HopLinks(w) ==
    /\ w \in Lengths
    /\ \A a, d \in Nodes : /\ w[a][d] \in {0, 1, UINT16_MAX}
                           /\ w[a][d] = 0 <=> a = d

(* T has the distances below inf. *)
NoDetour(w, T, inf) ==
    \A a, s, d \in Nodes : w[a][s] = 1 /\ 1 + T[s][d] < inf => T[a][d] <= 1 + T[s][d]

WayOn(w, T, inf) ==
    \A a, d \in Nodes : a # d /\ T[a][d] < inf =>
        \E s \in Nodes : w[a][s] = 1 /\ T[s][d] < T[a][d]

ShortestOver(w, T, inf) ==
    /\ T \in Lengths
    /\ \A a \in Nodes : T[a][a] = 0
    /\ NoDetour(w, T, inf)
    /\ WayOn(w, T, inf)

LEMMA SquaredIsLeast ==
    ASSUME NEW c \in Lengths, NEW a \in Nodes, NEW d \in Nodes
    PROVE  /\ Squared(c)[a][d] \in Nat
           /\ \A b \in Nodes : Squared(c)[a][d] <= c[a][b] + c[b][d]
           /\ \/ Squared(c)[a][d] = UINT16_MAX
              \/ \E b \in Nodes : Squared(c)[a][d] = c[a][b] + c[b][d]
<1> DEFINE X == {c[a][b] + c[b][d] : b \in Nodes} \union {UINT16_MAX}
<1>1. \A b \in Nodes : c[a][b] + c[b][d] \in Nat
  BY DEF Lengths
<1>2. X \in SUBSET Nat /\ X # {}
  BY <1>1, MaxIsNatural
<1>3. Squared(c)[a][d] = Min(X)
  BY DEF Squared
<1>4. /\ Min(X) \in X
      /\ \A x \in X : Min(X) <= x
  <2> HIDE DEF X
  <2> QED
    BY <1>2, MinOfNats
<1> QED
  BY <1>2, <1>3, <1>4

LEMMA SquaredType ==
    ASSUME NEW c \in Lengths
    PROVE  Squared(c) \in Lengths
<1>1. \A a, d \in Nodes : Squared(c)[a][d] \in Nat
  BY SquaredIsLeast
<1>2. Squared(c) = [a \in Nodes |-> Squared(c)[a]]
  BY DEF Squared
<1>3. \A a \in Nodes : Squared(c)[a] = [d \in Nodes |-> Squared(c)[a][d]]
  BY DEF Squared
<1> HIDE DEF Squared
<1> QED
  BY <1>1, <1>2, <1>3 DEF Lengths

(* No way over b is shorter than T says. *)
LEMMA Triangle ==
    ASSUME NEW w, HopLinks(w), NEW T, NEW inf \in Nat, ShortestOver(w, T, inf),
           NEW a \in Nodes, NEW b \in Nodes, NEW d \in Nodes, T[a][b] + T[b][d] < inf
    PROVE  T[a][d] <= T[a][b] + T[b][d]
<1> DEFINE Good(x) == T[x][b] + T[b][d] < inf => T[x][d] <= T[x][b] + T[b][d]
           S == {h \in Nat : \A x \in Nodes : T[x][b] <= h => Good(x)}
<1>1. \A x, y \in Nodes : T[x][y] \in Nat
  BY DEF ShortestOver, Lengths
<1>2. ASSUME NEW x \in Nodes, NEW h \in Nat, T[x][b] <= h,
             h = 0 \/ \A y \in Nodes : T[y][b] <= h - 1 => Good(y)
      PROVE  Good(x)
  <2> SUFFICES ASSUME T[x][b] + T[b][d] < inf
               PROVE  T[x][d] <= T[x][b] + T[b][d]
    OBVIOUS
  <2>1. CASE x = b
    BY <1>1, <2>1
  <2>2. CASE x # b
    <3>1. T[x][b] < inf
      BY <1>1
    <3>2. PICK s \in Nodes : w[x][s] = 1 /\ T[s][b] < T[x][b]
      BY <2>2, <3>1 DEF ShortestOver, WayOn
    <3>3. h # 0 /\ T[s][b] <= h - 1
      BY <1>1, <1>2, <3>2
    <3>4. T[s][b] + T[b][d] < inf
      BY <1>1, <3>2
    <3>5. T[s][d] <= T[s][b] + T[b][d]
      BY <1>2, <3>3, <3>4
    <3>6. 1 + T[s][d] < inf
      BY <1>1, <3>2, <3>5
    <3>7. T[x][d] <= 1 + T[s][d]
      BY <3>2, <3>6 DEF ShortestOver, NoDetour
    <3> QED
      BY <1>1, <3>2, <3>5, <3>7
  <2> QED
    BY <2>1, <2>2
<1>3. 0 \in S
  BY <1>2
<1>4. ASSUME NEW k \in 0 .. (inf - 1), k \in S PROVE k + 1 \in S
  <2>1. \A y \in Nodes : T[y][b] <= (k + 1) - 1 => Good(y)
    BY <1>4
  <2> HIDE DEF Good
  <2>2. \A x \in Nodes : T[x][b] <= k + 1 => Good(x)
    BY <1>2, <2>1
  <2> QED
    BY <2>2
<1>5. 0 .. inf \subseteq S
  <2> HIDE DEF S
  <2> QED
    BY <1>3, <1>4, UpTo
<1>6. T[a][b] \in 0 .. inf
  BY <1>1
<1>7. T[a][b] \in S
  BY <1>5, <1>6
<1>8. Good(a)
  <2> HIDE DEF Good
  <2> QED
    BY <1>1, <1>7
<1> QED
  BY <1>8

(* There are more nodes than links on a shortest way. *)
LEMMA WaysAreShort ==
    ASSUME NEW w, NEW T, NEW inf \in Nat, ShortestOver(w, T, inf),
           NEW a \in Nodes, NEW d \in Nodes, T[a][d] < inf
    PROVE  T[a][d] + 1 <= Cardinality(Nodes)
<1> DEFINE r == T[a][d]
           f == [x \in Nodes |-> T[x][d]]
           R == {T[x][d] : x \in Nodes}
           S == {i \in Nat : i <= r => r - i \in R}
<1>1. \A x, y \in Nodes : T[x][y] \in Nat
  BY DEF ShortestOver, Lengths
<1>2. 0 \in S
  BY <1>1
<1>3. ASSUME NEW i \in 0 .. (r - 1), i \in S PROVE i + 1 \in S
  <2>a. r \in Nat /\ i \in Nat /\ i <= r
    BY <1>1
  <2>b. r - i \in R
    BY <1>3, <2>a
  <2>1. PICK x \in Nodes : T[x][d] = r - i
    BY <2>b
  <2>2. x # d
    BY <1>1, <1>3, <2>1 DEF ShortestOver
  <2>3. PICK s \in Nodes : w[x][s] = 1 /\ T[s][d] < T[x][d]
    BY <1>1, <2>1, <2>2 DEF ShortestOver, WayOn
  <2>4. T[x][d] <= 1 + T[s][d]
    BY <1>1, <2>1, <2>3 DEF ShortestOver, NoDetour
  <2>5. T[s][d] = r - (i + 1)
    BY <1>1, <2>1, <2>3, <2>4
  <2> QED
    BY <2>5
<1>4. 0 .. r \subseteq S
  <2> HIDE DEF S
  <2> QED
    BY <1>1, <1>2, <1>3, UpTo
<1>5. 0 .. r \subseteq R
  <2> SUFFICES ASSUME NEW j \in 0 .. r PROVE j \in R
    OBVIOUS
  <2>1. r - j \in 0 .. r /\ r - (r - j) = j
    BY <1>1
  <2>2. r - j \in S
    BY <1>4, <2>1
  <2> HIDE DEF R
  <2> QED
    BY <2>1, <2>2
<1>6. f \in Surjection(Nodes, R)
  BY DEF Surjection
<1>7. IsFiniteSet(R) /\ Cardinality(R) <= Cardinality(Nodes)
  <2> HIDE DEF f, R
  <2> QED
    BY <1>6, NodesAssumption, FS_Surjection
<1>8. Cardinality(0 .. r) = r + 1 /\ Cardinality(0 .. r) <= Cardinality(R)
  <2>1. r \in Nat
    BY <1>1
  <2> HIDE DEF R, r
  <2> QED
    BY <1>5, <1>7, <2>1, FS_Interval, FS_Subset
<1>9. Cardinality(R) \in Nat
  BY <1>7, FS_CardinalityType
<1> QED
  BY <1>1, <1>7, <1>8, <1>9, NumberOfNodes

(* c is nowhere below T, and not above where T is at most k. *)
Below(c, T, inf) == \A a, d \in Nodes : c[a][d] < inf => T[a][d] <= c[a][d]
Above(c, T, inf, k) == \A a, d \in Nodes : T[a][d] < inf /\ T[a][d] <= k => c[a][d] <= T[a][d]

LEMMA LinksAreBetween ==
    ASSUME NEW w, HopLinks(w), NEW T, NEW inf \in 1 .. UINT16_MAX, ShortestOver(w, T, inf)
    PROVE  Below(w, T, inf) /\ Above(w, T, inf, 1)
<1>1. \A x, y \in Nodes : T[x][y] \in Nat /\ w[x][y] \in Nat
  BY DEF ShortestOver, HopLinks, Lengths
<1>2. inf \in Nat /\ inf <= UINT16_MAX /\ UINT16_MAX \in Nat
  BY MaxIsNatural
<1>3. ASSUME NEW a \in Nodes, NEW d \in Nodes, w[a][d] < inf
      PROVE  T[a][d] <= w[a][d]
  <2>1. w[a][d] = 0 \/ w[a][d] = 1
    BY <1>1, <1>2, <1>3 DEF HopLinks
  <2>2. CASE w[a][d] = 0
    BY <2>2 DEF HopLinks, ShortestOver
  <2>3. CASE w[a][d] = 1
    <3>1. T[d][d] = 0
      BY DEF ShortestOver
    <3>2. 1 + T[d][d] < inf
      BY <1>3, <2>3, <3>1
    <3> QED
      BY <2>3, <3>1, <3>2 DEF ShortestOver, NoDetour
  <2> QED
    BY <2>1, <2>2, <2>3
<1>4. ASSUME NEW a \in Nodes, NEW d \in Nodes, T[a][d] < inf, T[a][d] <= 1
      PROVE  w[a][d] <= T[a][d]
  <2>1. CASE a = d
    BY <2>1 DEF HopLinks, ShortestOver
  <2>2. CASE a # d
    <3>1. PICK s \in Nodes : w[a][s] = 1 /\ T[s][d] < T[a][d]
      BY <1>4, <2>2 DEF ShortestOver, WayOn
    <3>2. T[s][d] = 0 /\ T[a][d] = 1
      BY <1>1, <1>4, <3>1
    <3>3. s = d
      <4>1. ASSUME s # d PROVE FALSE
        <5>1. PICK x \in Nodes : T[x][d] < T[s][d]
          BY <1>2, <3>2, <4>1 DEF ShortestOver, WayOn
        <5> QED
          BY <1>1, <3>2, <5>1
      <4> QED
        BY <4>1
    <3> QED
      BY <3>1, <3>2, <3>3
  <2> QED
    BY <2>1, <2>2
<1> QED
  BY <1>3, <1>4 DEF Below, Above

LEMMA SquaredIsBetween ==
    ASSUME NEW w, HopLinks(w), NEW T, NEW inf \in 1 .. UINT16_MAX, ShortestOver(w, T, inf),
           NEW c \in Lengths, NEW k \in Nat, k >= 1, Below(c, T, inf), Above(c, T, inf, k)
    PROVE  Below(Squared(c), T, inf) /\ Above(Squared(c), T, inf, k + 1)
<1>1. \A x, y \in Nodes : T[x][y] \in Nat /\ c[x][y] \in Nat
  BY DEF ShortestOver, Lengths
<1>2. inf \in Nat /\ inf >= 1 /\ inf <= UINT16_MAX /\ UINT16_MAX \in Nat
  BY MaxIsNatural
<1>3. ASSUME NEW a \in Nodes, NEW d \in Nodes, Squared(c)[a][d] < inf
      PROVE  T[a][d] <= Squared(c)[a][d]
  <2>1. PICK b \in Nodes : Squared(c)[a][d] = c[a][b] + c[b][d]
    BY <1>2, <1>3, SquaredIsLeast
  <2>2. c[a][b] < inf /\ c[b][d] < inf
    BY <1>1, <1>2, <1>3, <2>1
  <2>3. T[a][b] <= c[a][b] /\ T[b][d] <= c[b][d]
    BY <2>2 DEF Below
  <2>4. T[a][b] + T[b][d] < inf
    BY <1>1, <1>2, <1>3, <2>1, <2>3
  <2>5. T[a][d] <= T[a][b] + T[b][d]
    BY <1>2, <2>4, Triangle
  <2> QED
    BY <1>1, <2>1, <2>3, <2>5
<1>4. ASSUME NEW a \in Nodes, NEW d \in Nodes, T[a][d] < inf, T[a][d] <= k + 1
      PROVE  Squared(c)[a][d] <= T[a][d]
  <2>1. Squared(c)[a][d] \in Nat /\ \A b \in Nodes : Squared(c)[a][d] <= c[a][b] + c[b][d]
    BY SquaredIsLeast
  <2>2. CASE T[a][d] <= k
    <3>1. c[a][d] <= T[a][d]
      BY <1>4, <2>2 DEF Above
    <3>2. T[a][a] = 0
      BY DEF ShortestOver
    <3>3. c[a][a] <= 0
      BY <1>2, <3>2 DEF Above
    <3>4. Squared(c)[a][d] <= c[a][a] + c[a][d]
      BY <2>1
    <3> QED
      BY <1>1, <2>1, <3>1, <3>3, <3>4
  <2>3. CASE T[a][d] = k + 1
    <3>1. a # d
      BY <2>3 DEF ShortestOver
    <3>2. PICK s \in Nodes : w[a][s] = 1 /\ T[s][d] < T[a][d]
      BY <1>4, <3>1 DEF ShortestOver, WayOn
    <3>3. T[s][s] = 0
      BY DEF ShortestOver
    <3>4. T[a][s] <= 1
      <4>1. 1 + T[s][s] < inf
        BY <1>2, <1>4, <2>3, <3>3
      <4>2. T[a][s] <= 1 + T[s][s]
        BY <3>2, <4>1 DEF ShortestOver, NoDetour
      <4> QED
        BY <3>3, <4>2
    <3>5. c[a][s] <= T[a][s]
      BY <1>1, <1>2, <1>4, <2>3, <3>4 DEF Above
    <3>6. c[s][d] <= T[s][d]
      BY <1>1, <1>2, <1>4, <2>3, <3>2 DEF Above
    <3>7. Squared(c)[a][d] <= c[a][s] + c[s][d]
      BY <2>1
    <3> QED
      BY <1>1, <2>1, <2>3, <3>2, <3>4, <3>5, <3>6, <3>7
  <2> QED
    BY <1>1, <1>4, <2>2, <2>3
<1> QED
  BY <1>3, <1>4 DEF Below, Above

LEMMA DoubledIsShortest ==
    ASSUME NEW w, HopLinks(w), NEW T, NEW inf \in 1 .. UINT16_MAX, ShortestOver(w, T, inf),
           NEW within, Doubled(within, w), NEW a \in Nodes, NEW d \in Nodes,
           NEW reach, reach = within[Cardinality(Nodes)]
    PROVE  T[a][d] < inf \/ reach[a][d] < inf => reach[a][d] = T[a][d]
<1> DEFINE N == Cardinality(Nodes)
           S == {i \in Nat : i + 1 <= N => Below(within[i + 1], T, inf) /\ Above(within[i + 1], T, inf, i + 1)}
<1>1. N \in Nat /\ N >= 1
  <2>1. N \in Nat
    BY NumberOfNodes
  <2>2. N # 0
    BY NodesAssumption, FS_EmptySet
  <2> QED
    BY <2>1, <2>2
<1> HIDE DEF N
<1>2. /\ within \in [1 .. N -> Lengths] /\ within[1] = w
      /\ \A k \in 2 .. N : within[k] = Squared(within[k - 1])
  BY DEF Doubled, N
<1>3. 0 \in S
  BY <1>2, LinksAreBetween
<1>4. ASSUME NEW i \in 0 .. ((N - 1) - 1), i \in S PROVE i + 1 \in S
  <2>1. i + 1 \in 1 .. N /\ i + 2 \in 2 .. N /\ i + 1 >= 1 /\ i + 1 \in Nat
    BY <1>1
  <2>2. within[i + 2] = Squared(within[i + 1])
    <3>1. within[i + 2] = Squared(within[(i + 2) - 1])
      BY <1>2, <2>1
    <3>2. (i + 2) - 1 = i + 1
      BY <2>1
    <3> QED
      BY <3>1, <3>2
  <2>3. within[i + 1] \in Lengths
    BY <1>2, <2>1
  <2>4. Below(within[i + 1], T, inf) /\ Above(within[i + 1], T, inf, i + 1)
    BY <1>1, <1>4, <2>1
  <2>5. Below(within[i + 2], T, inf) /\ Above(within[i + 2], T, inf, (i + 1) + 1)
    BY <2>1, <2>2, <2>3, <2>4, SquaredIsBetween
  <2>6. (i + 1) + 1 = i + 2
    BY <2>1
  <2> QED
    BY <2>1, <2>5, <2>6
<1>5. 0 .. (N - 1) \subseteq S
  <2> HIDE DEF S
  <2> QED
    BY <1>1, <1>3, <1>4, UpTo
<1>6. N - 1 \in S /\ (N - 1) + 1 = N
  <2> HIDE DEF S
  <2> QED
    BY <1>1, <1>5
<1>7. Below(reach, T, inf) /\ Above(reach, T, inf, N)
  BY <1>1, <1>6 DEF N
<1>8. T[a][d] \in Nat /\ reach[a][d] \in Nat
  <2>1. reach \in Lengths
    BY <1>1, <1>2 DEF N
  <2> QED
    BY <2>1 DEF ShortestOver, Lengths
<1>9. inf \in Nat
  BY MaxIsNatural
<1>10. CASE T[a][d] < inf
  <2>1. T[a][d] <= N
    <3>1. T[a][d] + 1 <= N
      BY <1>9, <1>10, WaysAreShort DEF N
    <3> QED
      BY <1>1, <1>8, <3>1
  <2>2. reach[a][d] <= T[a][d]
    BY <1>7, <1>10, <2>1 DEF Above
  <2>3. T[a][d] <= reach[a][d]
    BY <1>7, <1>8, <1>9, <1>10, <2>2 DEF Below
  <2> QED
    BY <1>8, <2>2, <2>3
<1>11. CASE reach[a][d] < inf
  <2>1. T[a][d] <= reach[a][d]
    BY <1>7, <1>11 DEF Below
  <2>2. T[a][d] < inf
    BY <1>8, <1>9, <1>11, <2>1
  <2> QED
    BY <1>10, <2>2
<1> QED
  BY <1>10, <1>11

-----------------------------------------------------------------------------
(* What a neighbour has been told. *)

(* The distance of a that src has is known to its neighbour n, as far as   *)
(* it matters, or n is still to hear of it.                                *)
Enough(src, n, a) ==
    LET m == table[src][a].metric + 1
    IN  \/ scheduledUpdate[src]
        \/ \E i \in 1 .. Len(updates[src][n]) : updates[src][n][i].vector[a] <= m
        \/ m >= config.infMetric
        \/ table[n][a].metric <= m

(* Nothing is left out: this is so of every link, and flows are those      *)
(* asked for.                                                              *)
NothingLeftOut ==
    /\ \A src, n \in Nodes : neig[src][n] # 0 => \A a \in Nodes \ {src, n} : Enough(src, n, a)
    /\ \A n \in Nodes : ports[n] \subseteq config.flows

LEMMA EnoughStays ==
    ASSUME IInv, IInv', Shorter, NEW src \in Nodes, NEW n \in Nodes, NEW a \in Nodes,
           Enough(src, n, a), UNCHANGED <<config, table[src][a]>>,
           scheduledUpdate[src] => scheduledUpdate'[src],
           \A i \in 1 .. Len(updates[src][n]) :
              \/ table'[n][a].metric <= table[src][a].metric + 1
              \/ table[src][a].metric + 1 >= config.infMetric
              \/ updates[src][n][i].vector[a] > table[src][a].metric + 1
              \/ \E j \in 1 .. Len(updates'[src][n]) : updates'[src][n][j] = updates[src][n][i]
    PROVE  Enough(src, n, a)'
<1> DEFINE m == table[src][a].metric + 1
<1>1. m \in Nat /\ table[n][a].metric \in Nat /\ table'[n][a].metric \in Nat
  <2>1. table'[n][a] \in Entry
    BY DEF IInv, TypeOK
  <2>2. table'[n][a].metric \in Nat
    BY <2>1, MaxIsNatural DEF Entry, Metric
  <2> QED
    BY <2>2, EntryFacts
<1>2. table'[n][a].metric <= table[n][a].metric
  BY DEF Shorter
<1>3. m = (table[src][a].metric + 1)'
  OBVIOUS
<1>4. CASE scheduledUpdate[src]
  BY <1>4 DEF Enough
<1>5. CASE \E i \in 1 .. Len(updates[src][n]) : updates[src][n][i].vector[a] <= m
  <2>1. PICK i \in 1 .. Len(updates[src][n]) : updates[src][n][i].vector[a] <= m
    BY <1>5
  <2>2. updates[src][n][i].vector[a] \in Nat
    <3>1. updates[src][n] \in Seq(Update)
      BY DEF IInv, TypeOK
    <3>2. updates[src][n][i] \in Update
      BY <3>1
    <3> QED
      BY <3>2, MaxIsNatural DEF Update, Metric
  <2>3. ~(updates[src][n][i].vector[a] > m)
    BY <1>1, <2>1, <2>2
  <2>4. CASE table'[n][a].metric <= m \/ m >= config.infMetric
    BY <1>3, <2>4 DEF Enough
  <2>5. CASE \E j \in 1 .. Len(updates'[src][n]) : updates'[src][n][j] = updates[src][n][i]
    BY <1>3, <2>1, <2>5 DEF Enough
  <2> QED
    BY <2>3, <2>4, <2>5
<1>6. CASE m >= config.infMetric
  BY <1>3, <1>6 DEF Enough
<1>7. CASE table[n][a].metric <= m
  <2>1. table'[n][a].metric <= m
    BY <1>1, <1>2, <1>7
  <2> QED
    BY <1>3, <2>1 DEF Enough
<1> QED
  BY <1>4, <1>5, <1>6, <1>7 DEF Enough

LEMMA NothingLeftOutInit ==
    ASSUME Init
    PROVE  NothingLeftOut
BY DEF Init, NothingLeftOut, Enough

LEMMA NewFlowLeavesNothingOut ==
    ASSUME IInv, IInv', Shorter, NothingLeftOut, NEW x \in Nodes, NEW f \in Flows,
           InsertedFlow(x, f)
    PROVE  NothingLeftOut'
<1>1. /\ f \in config.flows /\ ports' = [ports EXCEPT ![x] = @ \union {f}]
      /\ UNCHANGED <<config, updates>>
  BY DEF InsertedFlow
<1>2. \/ UNCHANGED <<neig, table, scheduledUpdate>>
      \/ /\ \A n \in Nodes \ {x} : UNCHANGED <<neig[n], table[n], scheduledUpdate[n]>>
         /\ scheduledUpdate'[x]
  BY DEF InsertedFlow, IInv, TypeOK
<1>3. \A n \in Nodes : ports'[n] \subseteq config.flows
  BY <1>1 DEF NothingLeftOut, IInv, TypeOK
<1>4. ASSUME NEW src \in Nodes, NEW n \in Nodes, neig'[src][n] # 0, NEW a \in Nodes \ {src, n}
      PROVE  Enough(src, n, a)'
  <2>1. CASE scheduledUpdate'[src]
    BY <2>1 DEF Enough
  <2>2. CASE UNCHANGED <<neig[src], table[src], scheduledUpdate[src]>>
    <3>1. neig[src][n] # 0 /\ UNCHANGED table[src][a]
      BY <1>4, <2>2
    <3>2. Enough(src, n, a)
      BY <3>1 DEF NothingLeftOut
    <3>3. \A i \in 1 .. Len(updates[src][n]) :
             \E j \in 1 .. Len(updates'[src][n]) : updates'[src][n][j] = updates[src][n][i]
      BY <1>1
    <3> QED
      BY <1>1, <2>2, <3>1, <3>2, <3>3, EnoughStays
  <2> QED
    BY <1>2, <2>1, <2>2
<1> QED
  BY <1>1, <1>3, <1>4 DEF NothingLeftOut

(* A PDU to a neighbour that has its own port takes it. *)
LEMMA OneHopReaches ==
    ASSUME NEW tab \in [Nodes -> FwdTable], NEW n \in Nodes, NEW d \in Nodes, n # d,
           tab[n][d] # NoPort, Peer(tab[n][d], n) = d
    PROVE  Reaches(tab, n, d)
<1> DEFINE N == Cardinality(Nodes)
           way == Way(tab, n, d)
           S == {i \in Nat : i + 1 <= N => way[i + 1] = d}
<1>1. N \in Nat /\ N >= 1
  <2>1. N # 0
    BY NodesAssumption, FS_EmptySet
  <2> QED
    BY <2>1, NumberOfNodes
<1>2. way[0] = n /\ \A k \in 1 .. N : way[k] = NextHop(tab, d, way[k - 1])
  BY WayIsDefined
<1> HIDE DEF N, way
<1>3. n # Nowhere
  BY NodesAssumption DEF Nowhere
<1>4. 0 \in S
  <2>1. way[1] = NextHop(tab, d, way[1 - 1])
    BY <1>1, <1>2
  <2>2. way[1] = NextHop(tab, d, n)
    BY <1>2, <2>1
  <2> QED
    BY <1>3, <2>2 DEF NextHop
<1>5. ASSUME NEW i \in 0 .. ((N - 1) - 1), i \in S PROVE i + 1 \in S
  <2>1. i + 2 \in 1 .. N /\ (i + 2) - 1 = i + 1 /\ (i + 1) + 1 = i + 2
    BY <1>1
  <2>2. way[i + 1] = d
    BY <1>1, <1>5
  <2>3. way[i + 2] = NextHop(tab, d, way[(i + 2) - 1])
    BY <1>2, <2>1
  <2>4. way[i + 2] = d
    BY <2>1, <2>2, <2>3 DEF NextHop
  <2> QED
    BY <2>1, <2>4
<1>6. 0 .. (N - 1) \subseteq S
  <2> HIDE DEF S
  <2> QED
    BY <1>1, <1>4, <1>5, UpTo
<1>7. N - 1 \in S /\ (N - 1) + 1 = N
  <2> HIDE DEF S
  <2> QED
    BY <1>1, <1>6
<1>8. way[N] = d
  BY <1>1, <1>7
<1> QED
  BY <1>8 DEF N, way, Reaches

LEMMA NeighbourReached ==
    ASSUME IInv, NEW n \in Nodes, NEW d \in Nodes, neig[n][d] # 0, config.infMetric > 1
    PROVE  Reaches(fwd, n, d)
<1>1. PortsTo(ports[n], n, d) # {} /\ neig[n][d] = 1
  BY DEF IInv, LinksArePorts
<1>2. ports[n] \in SUBSET Flows /\ \A f \in ports[n] : n \in Ends(f)
  BY DEF IInv, TypeOK, LinksArePorts
<1>3. n # d
  BY <1>1, <1>2, PeerDiffers DEF PortsTo
<1>4. table[n][d] = [addr |-> d, metric |-> 1]
  BY <1>1 DEF IInv, LinksAreDirect
<1>5. table[n][d] # NoEntry
  BY <1>4, MaxIsNatural DEF NoEntry
<1>6. fwd[n][d] \in PortsTo(ports[n], n, d)
  <2>1. fwd[n][d] \in PortsTo(ports[n], n, table[n][d].addr)
    BY <1>5 DEF IInv, ForwardingFollowsTable
  <2> QED
    BY <1>4, <2>1
<1>7. fwd[n][d] # NoPort /\ Peer(fwd[n][d], n) = d
  BY <1>2, <1>6, FlowsAssumption DEF PortsTo, NoPort
<1>8. fwd \in [Nodes -> FwdTable]
  BY DEF IInv, TypeOK
<1> QED
  BY <1>3, <1>7, <1>8, OneHopReaches

LEMMA SendingLeavesNothingOut ==
    ASSUME IInv, IInv', Shorter, NothingLeftOut, NEW x \in Nodes, Time2Update(x)
    PROVE  NothingLeftOut'
<1> DEFINE sends(d) == neig[x][d] # 0 /\ Reaches(fwd, x, d)
<1>1. UNCHANGED <<config, ports, neig, table, fwd>> /\ scheduledUpdate' = [scheduledUpdate EXCEPT ![x] = FALSE]
  BY DEF Time2Update
<1>2. updates' = [updates EXCEPT ![x] =
                     [d \in Nodes |-> IF sends(d) THEN Append(@[d], Said(x, d)) ELSE @[d]]]
  BY DEF Time2Update, Said
<1>3. updates \in [Nodes -> [Nodes -> Seq(Update)]]
  BY DEF IInv, TypeOK
<1> HIDE DEF sends
<1>4. \A src, m \in Nodes :
         updates'[src][m] = IF src = x /\ sends(m) THEN Append(updates[x][m], Said(x, m))
                            ELSE updates[src][m]
  BY <1>2, <1>3
<1>5. ASSUME NEW src \in Nodes, NEW n \in Nodes, neig'[src][n] # 0, NEW a \in Nodes \ {src, n}
      PROVE  Enough(src, n, a)'
  <2>1. Enough(src, n, a) /\ neig[src][n] # 0
    BY <1>1, <1>5 DEF NothingLeftOut
  <2>2. CASE src # x
    <3>1. scheduledUpdate[src] => scheduledUpdate'[src]
      BY <1>1, <2>2 DEF IInv, TypeOK
    <3>2. \A i \in 1 .. Len(updates[src][n]) :
             \E j \in 1 .. Len(updates'[src][n]) : updates'[src][n][j] = updates[src][n][i]
      BY <1>4, <2>2
    <3> QED
      BY <1>1, <2>1, <3>1, <3>2, EnoughStays
  <2>3. CASE src = x /\ table[x][a].metric + 1 >= config.infMetric
    BY <1>1, <2>3 DEF Enough
  <2>4. CASE src = x /\ ~(table[x][a].metric + 1 >= config.infMetric)
    <3>1. /\ config.infMetric \in Nat /\ config.infMetric <= UINT16_MAX
          /\ UINT16_MAX \in Nat
      BY InfMetricType, MaxIsNatural DEF IInv
    <3>2. /\ table[x][a].metric \in Nat /\ table[x][a].metric >= 1
          /\ table[x][a] = NoEntry <=> table[x][a].metric = UINT16_MAX
      BY EntryFacts
    <3>3. config.infMetric > 1 /\ table[x][a] # NoEntry
      BY <2>4, <3>1, <3>2
    <3>4. sends(n)
      BY <2>1, <2>4, <3>3, NeighbourReached DEF sends
    <3>5. updates'[x][n] = Append(updates[x][n], Said(x, n)) /\ updates[x][n] \in Seq(Update)
      BY <1>3, <1>4, <3>4
    <3>6. Vector(x, n)[a] = table[x][a].metric + 1
      BY <2>4, <3>3, <3>4, SaysEnough DEF sends
    <3> DEFINE j == Len(updates[x][n]) + 1
    <3>7. j \in 1 .. Len(updates'[x][n]) /\ updates'[x][n][j] = Said(x, n)
      <4>1. Said(x, n) \in Update
        BY <3>4, SaysEnough DEF sends
      <4> QED
        BY <3>5, <4>1
    <3> HIDE DEF j
    <3>8. updates'[x][n][j].vector[a] <= table[x][a].metric + 1
      BY <3>2, <3>6, <3>7 DEF Said
    <3> QED
      BY <1>1, <2>4, <3>7, <3>8 DEF Enough
  <2> QED
    BY <2>2, <2>3, <2>4
<1> QED
  BY <1>1, <1>5 DEF NothingLeftOut

(* What is heard is taken if it matters, and told if it was taken. *)
LEMMA LearnTakes ==
    ASSUME config.infMetric \in 1 .. UINT16_MAX,
           NEW old \in Entry,
           old = NoEntry \/ old.metric \in 1 .. (config.infMetric - 1),
           NEW src \in Nodes, NEW m \in 1 .. (UINT16_MAX - 1)
    PROVE  /\ m < config.infMetric => Learn(old, src, m).entry.metric <= m
           /\ Learn(old, src, m).entry # old => Learn(old, src, m).news
<1> DEFINE switched == old.addr # src /\ old.metric > m
           entry == Taken(old, src, m, switched)
           r == Learn(old, src, m)
           gone == entry.metric >= config.infMetric
<1> HIDE DEF r, entry
<1>1. UINT16_MAX \in Nat /\ config.infMetric \in Nat
  BY MaxIsNatural
<1>2. /\ r.entry = IF gone THEN NoEntry ELSE entry
      /\ r.news <=> gone \/ entry # old
  BY DEF Learn, Outcome, Bounded, r, entry
<1>3. /\ old.addr = src \/ switched => entry = [addr |-> src, metric |-> m]
      /\ ~(old.addr = src \/ switched) => entry = old
  BY DEF Taken, entry
<1>4. old.metric \in Nat
  BY <1>1 DEF Entry, Metric
<1>5. ASSUME m < config.infMetric PROVE r.entry.metric <= m
  <2>1. CASE old.addr = src \/ switched
    <3>1. entry.metric = m
      BY <1>3, <2>1
    <3> QED
      BY <1>1, <1>2, <1>5, <3>1
  <2>2. CASE ~(old.addr = src \/ switched)
    <3>1. entry = old /\ old.metric <= m
      BY <1>3, <1>4, <2>2
    <3> QED
      BY <1>1, <1>2, <1>4, <1>5, <3>1
  <2> QED
    BY <2>1, <2>2
<1>6. r.entry # old => r.news
  BY <1>2
<1> QED
  BY <1>5, <1>6 DEF r

LEMMA ReceivingTakes ==
    ASSUME IInv, NEW src \in Nodes, NEW n \in Nodes, ReceiveUpdate(src, n),
           NEW a \in Nodes, NEW u, u = Head(updates[src][n])
    PROVE  /\ a # n /\ u.vector[a] < config.infMetric => table'[n][a].metric <= u.vector[a]
           /\ table'[n][a] # table[n][a] => scheduledUpdate'[n]
<1>1. updates[src][n] \in Seq(Update) /\ updates[src][n] # <<>>
  BY DEF IInv, TypeOK, ReceiveUpdate
<1>2. u = updates[src][n][1] /\ 1 \in 1 .. Len(updates[src][n]) /\ u \in Update
  BY <1>1
<1>3. GoodUpdate(src, n, u)
  BY <1>2 DEF IInv
<1> DEFINE listed == {b \in Nodes \ {n} : u.vector[b] < UINT16_MAX}
           r(b) == Learn(table[n][b], src, u.vector[b])
           learnt == [b \in listed |-> r(b)]
<1>4. /\ table' = [table EXCEPT ![n] =
                     [b \in Nodes |-> IF b \in listed THEN learnt[b].entry ELSE @[b]]]
      /\ scheduledUpdate' = [scheduledUpdate EXCEPT ![n] =
                               @ \/ \E b \in listed : learnt[b].news]
  BY DEF ReceiveUpdate
<1>5. table \in [Nodes -> [Nodes -> Entry]] /\ scheduledUpdate \in [Nodes -> BOOLEAN]
  BY DEF IInv, TypeOK
<1>6. /\ table'[n][a] = IF a \in listed THEN r(a).entry ELSE table[n][a]
      /\ (\E b \in listed : r(b).news) => scheduledUpdate'[n]
  <2> HIDE DEF listed, r
  <2> QED
    BY <1>4, <1>5
<1>7. /\ u.vector[a] \in Nat /\ u.vector[a] >= 1 /\ u.vector[a] <= UINT16_MAX
      /\ config.infMetric \in Nat /\ config.infMetric <= UINT16_MAX /\ UINT16_MAX \in Nat
  BY <1>2, <1>3, InfMetricType, MaxIsNatural DEF Update, Metric, GoodUpdate, IInv
<1>8. CASE a \in listed
  <2>1. u.vector[a] \in 1 .. (UINT16_MAX - 1)
    BY <1>7, <1>8
  <2>2. table[n][a] \in Entry /\ GoodEntry(n, table[n][a])
    BY <1>5 DEF IInv
  <2>3. config.infMetric \in 1 .. UINT16_MAX
    BY InfMetricType DEF IInv
  <2>4. /\ u.vector[a] < config.infMetric => r(a).entry.metric <= u.vector[a]
        /\ r(a).entry # table[n][a] => r(a).news
    BY <2>1, <2>2, <2>3, LearnTakes DEF GoodEntry
  <2> HIDE DEF listed, r
  <2> QED
    BY <1>6, <1>8, <2>4
<1>9. CASE a \notin listed
  BY <1>6, <1>7, <1>9
<1> QED
  BY <1>8, <1>9

LEMMA ReceivingLeavesNothingOut ==
    ASSUME IInv, IInv', Shorter, NothingLeftOut, NEW s \in Nodes, NEW x \in Nodes,
           ReceiveUpdate(s, x)
    PROVE  NothingLeftOut'
<1> DEFINE u == Head(updates[s][x])
<1>1. /\ UNCHANGED <<config, ports, neig>>
      /\ updates[s][x] # <<>>
      /\ updates' = [updates EXCEPT ![s][x] = Tail(@)]
  BY DEF ReceiveUpdate
<1>2. \A n \in Nodes \ {x} : UNCHANGED <<table[n], scheduledUpdate[n]>>
  BY DEF ReceiveUpdate, IInv, TypeOK
<1>3. scheduledUpdate[x] => scheduledUpdate'[x]
  BY DEF ReceiveUpdate, IInv, TypeOK
<1>4. u \in Update /\ GoodUpdate(s, x, u)
  BY Hears
<1>5. updates \in [Nodes -> [Nodes -> Seq(Update)]]
  BY DEF IInv, TypeOK
<1>6. u = updates[s][x][1] /\ updates[s][x] \in Seq(Update) /\ Len(updates[s][x]) \in Nat
  BY <1>1, <1>5
<1>7. \A a \in Nodes : /\ a # x /\ u.vector[a] < config.infMetric => table'[x][a].metric <= u.vector[a]
                       /\ table'[x][a] # table[x][a] => scheduledUpdate'[x]
  BY ReceivingTakes
<1> HIDE DEF u
<1>8. ASSUME NEW src \in Nodes, NEW n \in Nodes, neig'[src][n] # 0, NEW a \in Nodes \ {src, n}
      PROVE  Enough(src, n, a)'
  <2>1. Enough(src, n, a)
    BY <1>1, <1>8 DEF NothingLeftOut
  <2>2. CASE scheduledUpdate'[src]
    BY <2>2 DEF Enough
  <2>3. CASE ~scheduledUpdate'[src]
    <3>1. UNCHANGED table[src][a] /\ (scheduledUpdate[src] => scheduledUpdate'[src])
      BY <1>2, <1>3, <1>7, <2>3
    <3>2. ASSUME NEW i \in 1 .. Len(updates[src][n])
          PROVE  \/ table'[n][a].metric <= table[src][a].metric + 1
                 \/ table[src][a].metric + 1 >= config.infMetric
                 \/ updates[src][n][i].vector[a] > table[src][a].metric + 1
                 \/ \E j \in 1 .. Len(updates'[src][n]) : updates'[src][n][j] = updates[src][n][i]
      <4>1. CASE ~(src = s /\ n = x)
        <5>1. updates'[src][n] = updates[src][n]
          BY <1>1, <1>5, <4>1
        <5> QED
          BY <5>1
      <4>2. CASE src = s /\ n = x /\ i # 1
        <5>1. updates'[src][n] = Tail(updates[src][n])
          BY <1>1, <1>5, <4>2
        <5> DEFINE j == i - 1
        <5>2. j \in 1 .. Len(updates'[src][n]) /\ updates'[src][n][j] = updates[src][n][i]
          BY <1>6, <4>2, <5>1
        <5> QED
          BY <5>2
      <4>3. CASE src = s /\ n = x /\ i = 1
        <5> DEFINE v == u.vector[a]
                   m == table[src][a].metric + 1
        <5>1. v = updates[src][n][i].vector[a]
          BY <1>6, <4>3
        <5>2. v \in Nat /\ m \in Nat /\ config.infMetric \in Nat /\ table'[n][a].metric \in Nat
          <6>1. u.vector[a] \in Metric
            BY <1>4 DEF Update
          <6>2. table'[n][a] \in Entry
            BY DEF IInv, TypeOK
          <6>3. config.infMetric \in 1 .. UINT16_MAX
            BY InfMetricType DEF IInv
          <6> QED
            BY <6>1, <6>2, <6>3, EntryFacts, MaxIsNatural DEF Metric, Entry
        <5>3. a # x /\ v < config.infMetric => table'[n][a].metric <= v
          BY <1>7, <4>3
        <5>4. a # x
          BY <4>3
        <5> HIDE DEF v
        <5> QED
          BY <5>1, <5>2, <5>3, <5>4
      <4> QED
        BY <4>1, <4>2, <4>3
    <3> QED
      BY <1>1, <2>1, <3>1, <3>2, EnoughStays
  <2> QED
    BY <2>2, <2>3
<1> QED
  BY <1>1, <1>8 DEF NothingLeftOut

LEMMA NothingLeftOutNext ==
    ASSUME IInv, IInv', Shorter, NothingLeftOut, [Next]_vars
    PROVE  NothingLeftOut'
<1>1. CASE InsertFlows
  BY <1>1, NewFlowLeavesNothingOut DEF InsertFlows
<1>2. CASE \E n \in Nodes : Time2Update(n)
  BY <1>2, SendingLeavesNothingOut
<1>3. CASE \E src, n \in Nodes : ReceiveUpdate(src, n)
  BY <1>3, ReceivingLeavesNothingOut
<1>4. CASE UNCHANGED vars
  BY <1>4 DEF NothingLeftOut, Enough, vars
<1> QED
  BY <1>1, <1>2, <1>3, <1>4 DEF Next, Done

(* In every state of every exchange, a neighbour knows of a distance or is *)
(* still to hear of it (SimpleDV::handleMessage, processUpdate).           *)
THEOREM NothingIsLeftOut ==
    ASSUME HopCount
    PROVE  Spec => []NothingLeftOut
<1>1. Init => NothingLeftOut
  BY NothingLeftOutInit
<1>2. IInv /\ IInv' /\ NothingLeftOut /\ [Next]_vars => NothingLeftOut'
  BY InvNext, NothingLeftOutNext
<1> QED
  BY <1>1, <1>2, Invariance, PTL DEF Spec

-----------------------------------------------------------------------------
(* When no event is left. *)

(* The links of the flows there are. *)
Between(a, d) == {f \in config.flows : Ends(f) = {a, d}}

Direct ==
    [a \in Nodes |-> [d \in Nodes |->
        IF a = d THEN 0 ELSE Min({LinkMetric(f) : f \in Between(a, d)} \union {UINT16_MAX})]]

(* The distances the tables have. *)
Known == [a \in Nodes |-> [d \in Nodes |-> IF a = d THEN 0 ELSE table[a][d].metric]]

LEMMA DirectLinks ==
    ASSUME HopCount, TypeOK
    PROVE  /\ HopLinks(Direct)
           /\ \A a, d \in Nodes : a # d => (Direct[a][d] = 1 <=> Between(a, d) # {})
<1>1. \A f : LinkMetric(f) = 1
  BY DEF HopCount, LinkMetric
<1>2. UINT16_MAX \in Nat /\ UINT16_MAX > 1
  BY MaxIsNatural
<1>3. ASSUME NEW a \in Nodes, NEW d \in Nodes
      PROVE  Direct[a][d] = IF a = d THEN 0 ELSE IF Between(a, d) = {} THEN UINT16_MAX ELSE 1
  <2> DEFINE X == {LinkMetric(f) : f \in Between(a, d)} \union {UINT16_MAX}
  <2>1. Direct[a][d] = IF a = d THEN 0 ELSE Min(X)
    BY DEF Direct
  <2>2. X \in SUBSET Nat /\ X # {}
    BY <1>1, <1>2
  <2>3. Between(a, d) = {} => X = {UINT16_MAX}
    OBVIOUS
  <2>4. Between(a, d) # {} => X = {1, UINT16_MAX}
    BY <1>1
  <2> HIDE DEF X
  <2>5. Min(X) \in X /\ \A x \in X : Min(X) <= x
    BY <2>2, MinOfNats
  <2>6. Between(a, d) = {} => Min(X) = UINT16_MAX
    BY <2>3, <2>5
  <2>7. Between(a, d) # {} => Min(X) = 1
    BY <1>2, <2>4, <2>5
  <2> QED
    BY <2>1, <2>6, <2>7
<1>4. Direct \in Lengths
  <2>1. /\ Direct = [a \in Nodes |-> Direct[a]]
        /\ \A a \in Nodes : Direct[a] = [d \in Nodes |-> Direct[a][d]]
    BY DEF Direct
  <2>2. \A a, d \in Nodes : Direct[a][d] \in Nat
    BY <1>2, <1>3
  <2> HIDE DEF Direct
  <2> QED
    BY <2>1, <2>2 DEF Lengths
<1> QED
  BY <1>2, <1>3, <1>4 DEF HopLinks

LEMMA DistancesAreDoubled ==
    ASSUME HopCount, TypeOK, Nodes # {}
    PROVE  \E within : Doubled(within, Direct) /\ Distances[config] = within[Cardinality(Nodes)]
<1> DEFINE N == Cardinality(Nodes)
           F == [c \in Lengths |-> Squared(c)]
           Is(within) == within = [k \in 1 .. N |-> IF k = 1 THEN Direct ELSE Squared(within[k - 1])]
<1>1. N \in Nat /\ N >= 1
  <2>1. N # 0
    BY NodesAssumption, FS_EmptySet
  <2> QED
    BY <2>1, NumberOfNodes
<1> HIDE DEF N
<1>2. Direct \in Lengths
  BY DirectLinks DEF HopLinks
<1>3. F \in [Lengths -> Lengths]
  BY SquaredType
<1>4. PICK g : Iterates(g, N - 1, Lengths, Direct, F)
  <2>1. N - 1 \in Nat
    BY <1>1
  <2> HIDE DEF F, Is
  <2> QED
    BY <1>2, <1>3, <2>1, Iteration
<1>5. /\ g \in [0 .. (N - 1) -> Lengths] /\ g[0] = Direct
      /\ \A k \in 1 .. (N - 1) : g[k] = F[g[k - 1]]
  BY <1>4 DEF Iterates
<1> DEFINE h == [k \in 1 .. N |-> g[k - 1]]
<1>6. Is(h)
  <2>1. ASSUME NEW k \in 1 .. N
        PROVE  h[k] = IF k = 1 THEN Direct ELSE Squared(h[k - 1])
    <3>1. CASE k = 1
      BY <1>1, <1>5, <3>1
    <3>2. CASE k # 1
      <4>1. k - 1 \in 1 .. (N - 1) /\ k - 1 \in 1 .. N /\ (k - 1) - 1 \in 0 .. (N - 1)
        BY <1>1, <3>2
      <4>2. h[k] = g[k - 1] /\ h[k - 1] = g[(k - 1) - 1]
        BY <4>1
      <4>3. g[k - 1] = F[g[(k - 1) - 1]] /\ g[(k - 1) - 1] \in Lengths
        <5> HIDE DEF F
        <5> QED
          BY <1>5, <4>1
      <4>4. F[g[(k - 1) - 1]] = Squared(g[(k - 1) - 1])
        BY <4>3
      <4> HIDE DEF h, F
      <4> QED
        BY <3>2, <4>2, <4>3, <4>4
    <3> QED
      BY <3>1, <3>2
  <2>2. h = [k \in 1 .. N |-> h[k]]
    OBVIOUS
  <2> HIDE DEF h
  <2> QED
    BY <2>1, <2>2
<1> DEFINE within == CHOOSE f : Is(f)
<1>7. Distances[config] = within[N]
  <2>1. Distances[config] = DistancesOver(config.flows)
    BY DEF Distances, TypeOK
  <2>2. DistancesOver(config.flows) = within[N]
    BY DEF DistancesOver, Between, Direct, Squared, N
  <2> HIDE DEF within
  <2> QED
    BY <2>1, <2>2
<1>8. Is(within)
  <2> HIDE DEF Is
  <2> QED
    BY <1>6, Zenon
<1> HIDE DEF within
<1>9. within = h
  <2> DEFINE S == {i \in Nat : i + 1 <= N => within[i + 1] = h[i + 1]}
  <2>1. \A k \in 1 .. N : within[k] = IF k = 1 THEN Direct ELSE Squared(within[k - 1])
    BY ONLY <1>8, Zenon
  <2>2. \A k \in 1 .. N : h[k] = IF k = 1 THEN Direct ELSE Squared(h[k - 1])
    <3> HIDE DEF h
    <3> QED
      BY ONLY <1>6, Zenon
  <2>3. 0 \in S
    <3>1. 1 \in 1 .. N /\ 0 + 1 = 1
      BY <1>1
    <3> HIDE DEF h
    <3>2. within[1] = Direct /\ h[1] = Direct
      BY <2>1, <2>2, <3>1
    <3> QED
      BY <3>1, <3>2
  <2>4. ASSUME NEW i \in 0 .. ((N - 1) - 1), i \in S PROVE i + 1 \in S
    <3>1. /\ i + 2 \in 1 .. N /\ i + 2 # 1 /\ (i + 2) - 1 = i + 1 /\ (i + 1) + 1 = i + 2
          /\ i + 1 <= N /\ i + 1 \in Nat
      BY <1>1
    <3> HIDE DEF h
    <3>2. within[i + 1] = h[i + 1]
      BY <2>4, <3>1
    <3>3. within[i + 2] = Squared(within[i + 1]) /\ h[i + 2] = Squared(h[i + 1])
      BY <2>1, <2>2, <3>1
    <3> QED
      BY <3>1, <3>2, <3>3
  <2>5. 0 .. (N - 1) \subseteq S
    <3> HIDE DEF S
    <3> QED
      BY <1>1, <2>3, <2>4, UpTo
  <2>6. ASSUME NEW k \in 1 .. N PROVE within[k] = h[k]
    <3>1. k - 1 \in 0 .. (N - 1) /\ (k - 1) + 1 = k
      BY <1>1
    <3>2. k - 1 \in S
      BY <2>5, <3>1
    <3> HIDE DEF h
    <3> QED
      BY <3>1, <3>2
  <2>7. within = [k \in 1 .. N |-> within[k]] /\ h = [k \in 1 .. N |-> h[k]]
    BY <1>8
  <2> HIDE DEF h
  <2> QED
    BY <2>6, <2>7
<1>10. Doubled(h, Direct)
  <2>1. h \in [1 .. N -> Lengths]
    BY <1>1, <1>5
  <2>2. h[1] = Direct /\ \A k \in 2 .. N : h[k] = Squared(h[k - 1])
    <3>1. \A k \in 1 .. N : h[k] = IF k = 1 THEN Direct ELSE Squared(h[k - 1])
      <4> HIDE DEF h
      <4> QED
        BY ONLY <1>6, Zenon
    <3> HIDE DEF h
    <3> QED
      BY <1>1, <3>1
  <2> QED
    BY <2>1, <2>2 DEF Doubled, N
<1> QED
  BY <1>7, <1>9, <1>10 DEF N

(* Links are the flows there are, once they are all up. *)
LEMMA QuietLinks ==
    ASSUME IInv, NothingLeftOut, HopCount, Quiet, NEW a \in Nodes, NEW s \in Nodes
    PROVE  neig[a][s] # 0 <=> Direct[a][s] = 1
<1>1. ports[a] \in SUBSET Flows /\ \A f \in ports[a] : a \in Ends(f)
  BY DEF IInv, TypeOK, LinksArePorts
<1>2. neig[a][s] # 0 <=> PortsTo(ports[a], a, s) # {}
  BY DEF IInv, LinksArePorts
<1>3. a = s => Direct[a][s] # 1
  BY DEF Direct
<1>4. a # s => (Direct[a][s] = 1 <=> Between(a, s) # {})
  BY DirectLinks DEF IInv
<1>5. ASSUME PortsTo(ports[a], a, s) # {}
      PROVE  a # s /\ Between(a, s) # {}
  <2>1. PICK f \in ports[a] : Peer(f, a) = s
    BY <1>5 DEF PortsTo
  <2>2. f \in Flows /\ f \in config.flows /\ a \in Ends(f)
    BY <1>1 DEF NothingLeftOut
  <2>3. a # s
    BY <2>1, <2>2, PeerDiffers
  <2>4. Ends(f) = {a, s}
    BY <2>1, <2>2, <2>3 DEF Ends, Peer
  <2> QED
    BY <2>2, <2>3, <2>4 DEF Between
<1>6. ASSUME a # s, Between(a, s) # {}
      PROVE  PortsTo(ports[a], a, s) # {}
  <2>1. PICK f \in config.flows : Ends(f) = {a, s}
    BY <1>6 DEF Between
  <2>2. f \in ports[a]
    BY <2>1 DEF Quiet, AllUp
  <2>3. Peer(f, a) = s
    BY <1>6, <2>1, <2>2, <1>1 DEF Ends, Peer
  <2> QED
    BY <2>2, <2>3 DEF PortsTo
<1> QED
  BY <1>2, <1>3, <1>4, <1>5, <1>6

(* Then the tables obey the laws of shortest ways: everyone has told its   *)
(* neighbours, and next hops are nearer.                                   *)
LEMMA KnownIsShortest ==
    ASSUME IInv, NothingLeftOut, HopCount, Quiet
    PROVE  ShortestOver(Direct, Known, config.infMetric)
<1> DEFINE inf == config.infMetric
<1>1. inf \in Nat /\ inf >= 1 /\ inf <= UINT16_MAX /\ UINT16_MAX \in Nat
  BY InfMetricType, MaxIsNatural DEF IInv
<1>2. \A a, d \in Nodes : /\ table[a][d].metric \in Nat
                          /\ Known[a][d] = IF a = d THEN 0 ELSE table[a][d].metric
  BY EntryFacts DEF Known
<1>3. Known \in Lengths
  <2>1. /\ Known = [a \in Nodes |-> Known[a]]
        /\ \A a \in Nodes : Known[a] = [d \in Nodes |-> Known[a][d]]
    BY DEF Known
  <2>2. \A a, d \in Nodes : Known[a][d] \in Nat
    BY <1>2
  <2> HIDE DEF Known
  <2> QED
    BY <2>1, <2>2 DEF Lengths
<1>4. ASSUME NEW a \in Nodes, NEW s \in Nodes, NEW d \in Nodes,
             Direct[a][s] = 1, 1 + Known[s][d] < inf
      PROVE  Known[a][d] <= 1 + Known[s][d]
  <2>1. neig[a][s] # 0 /\ neig[s][a] # 0
    <3>1. a # s
      BY <1>4 DEF Direct
    <3>2. Between(s, a) = Between(a, s)
      BY DEF Between
    <3>3. Direct[s][a] = 1
      BY <1>4, <3>1, <3>2, DirectLinks DEF IInv
    <3> QED
      BY <1>4, <3>3, QuietLinks
  <2>2. CASE a = d
    BY <1>2, <2>2
  <2>3. CASE a # d /\ s = d
    <3>1. inf > 1 /\ neig[a][d] = 1
      BY <1>1, <1>2, <1>4, <2>1, <2>3 DEF IInv, LinksArePorts
    <3>2. table[a][d] = [addr |-> d, metric |-> 1]
      BY <3>1 DEF IInv, LinksAreDirect
    <3> QED
      BY <1>2, <2>3, <3>2
  <2>4. CASE a # d /\ s # d
    <3>1. Enough(s, a, d)
      BY <2>1, <2>4 DEF NothingLeftOut
    <3>2. ~scheduledUpdate[s] /\ updates[s][a] = <<>>
      BY DEF Quiet, AllUp
    <3>3. \/ table[s][d].metric + 1 >= inf
          \/ table[a][d].metric <= table[s][d].metric + 1
      BY <3>1, <3>2 DEF Enough
    <3> QED
      BY <1>1, <1>2, <1>4, <2>4, <3>3
  <2> QED
    BY <2>2, <2>3, <2>4
<1>5. ASSUME NEW a \in Nodes, NEW d \in Nodes, a # d, Known[a][d] < inf
      PROVE  \E s \in Nodes : Direct[a][s] = 1 /\ Known[s][d] < Known[a][d]
  <2> DEFINE s == table[a][d].addr
  <2>1. table[a][d] # NoEntry
    BY <1>1, <1>2, <1>5 DEF NoEntry
  <2>2. s \in Nodes /\ neig[a][s] = 1 /\ table[a][d].metric >= 1
    BY <2>1, EntryFacts
  <2>3. Direct[a][s] = 1
    BY <2>2, QuietLinks
  <2>4. s = d \/ table[s][d].metric < table[a][d].metric
    BY <2>1 DEF IInv, NextHopIsNearer
  <2>5. Known[s][d] < Known[a][d]
    BY <1>2, <1>5, <2>2, <2>4
  <2> QED
    BY <2>2, <2>3, <2>5
<1>6. \A a \in Nodes : Known[a][a] = 0
  BY <1>2
<1> QED
  BY <1>3, <1>4, <1>5, <1>6 DEF ShortestOver, NoDetour, WayOn

LEMMA QuietKnows ==
    ASSUME IInv, NothingLeftOut, HopCount
    PROVE  DistancesKnown
<1> SUFFICES ASSUME Quiet
             PROVE  \A n \in Nodes : \A d \in Nodes \ {n} :
                       table[n][d].metric =
                           IF Distances[config][n][d] < config.infMetric
                           THEN Distances[config][n][d] ELSE UINT16_MAX
  BY DEF DistancesKnown, DistancesFound
<1> SUFFICES ASSUME NEW n \in Nodes, NEW d \in Nodes, d # n
             PROVE  table[n][d].metric =
                        IF Distances[config][n][d] < config.infMetric
                        THEN Distances[config][n][d] ELSE UINT16_MAX
  OBVIOUS
<1>1. TypeOK
  BY DEF IInv
<1>2. PICK within : Doubled(within, Direct) /\ Distances[config] = within[Cardinality(Nodes)]
  BY <1>1, DistancesAreDoubled
<1>3. HopLinks(Direct)
  BY <1>1, DirectLinks
<1>4. ShortestOver(Direct, Known, config.infMetric)
  BY KnownIsShortest
<1>5. config.infMetric \in 1 .. UINT16_MAX
  BY <1>1, InfMetricType
<1>6. \/ Known[n][d] < config.infMetric
      \/ Distances[config][n][d] < config.infMetric
      => Distances[config][n][d] = Known[n][d]
  BY <1>2, <1>3, <1>4, <1>5, DoubledIsShortest
<1>7. Known[n][d] = table[n][d].metric
  BY DEF Known
<1>8. /\ table[n][d].metric \in Nat
      /\ table[n][d].metric = UINT16_MAX \/ table[n][d].metric < config.infMetric
  BY EntryFacts
<1> HIDE DEF Quiet
<1>9. CASE table[n][d].metric < config.infMetric
  BY <1>6, <1>7, <1>9
<1>10. CASE ~(table[n][d].metric < config.infMetric)
  BY <1>6, <1>7, <1>8, <1>10
<1> QED
  BY <1>9, <1>10

(* When no event is left, every process has the distance of every other    *)
(* that is nearer than infMetric, and no entry for the rest: what SimpleDV *)
(* is for, in every network and whatever the order of its events.          *)
THEOREM DistancesAlwaysKnown ==
    ASSUME HopCount
    PROVE  Spec => []DistancesKnown
<1>1. IInv /\ NothingLeftOut => DistancesKnown
  BY QuietKnows
<1> QED
  BY <1>1, Invariance, NothingIsLeftOut, PTL
=============================================================================
