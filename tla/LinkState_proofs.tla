--------------------------- MODULE LinkState_proofs ---------------------------
(***************************************************************************)
(* Proofs about link-state routing, for every network and every metric:    *)
(* what constructTree computes, that forwarding tables follow it although  *)
(* they hear of differences only, that the number of an entry tells which  *)
(* entry it is, and, over hop counts, that flooding leaves nothing out:    *)
(* in every state what a neighbour lacks is on its way or about to be sent *)
(* (Flooded), so that when no event is left neighbours know one another's  *)
(* links and, of flows that came up together, every way is a shortest one. *)
(***************************************************************************)
EXTENDS LinkState, TLAPS, FiniteSetTheorems, WellFoundedInduction

(* Induction is stated over a set of numbers instead of a predicate, so    *)
(* that it needs no more than the least element of a set of naturals.      *)

(* A non-empty set of naturals has a least element, and Min finds it. *)
LEMMA MinOfNats ==
    ASSUME NEW T \in SUBSET Nat, T # {}
    PROVE  Min(T) \in T /\ \A x \in T : Min(T) <= x
<1>1. IsWellFoundedOn(OpToRel(<, Nat), Nat)
  BY NatLessThanWellFounded
<1>2. PICK x \in T : \A y \in T : ~(<<y, x>> \in OpToRel(<, Nat))
  BY <1>1, WFMin
<1>3. \A y \in T : x <= y
  <2> SUFFICES ASSUME NEW y \in T, y < x PROVE FALSE
    OBVIOUS
  <2>1. <<y, x>> \in OpToRel(<, Nat)
    BY DEF OpToRel
  <2> QED
    BY <2>1, <1>2
<1> QED
  BY <1>2, <1>3 DEF Min

(* Induction: a set with 0 and with the successor of each of its numbers   *)
(* up to N has all numbers up to N.                                        *)
LEMMA UpTo ==
    ASSUME NEW N \in Nat, NEW S, 0 \in S,
           \A k \in 0 .. (N - 1) : k \in S => k + 1 \in S
    PROVE  0 .. N \subseteq S
<1> DEFINE T == {k \in 0 .. N : k \notin S}
<1> SUFFICES ASSUME T # {} PROVE FALSE
  OBVIOUS
<1>1. T \in SUBSET Nat
  OBVIOUS
<1>2. /\ Min(T) \in T
      /\ \A x \in T : Min(T) <= x
  BY <1>1, MinOfNats
<1> DEFINE m == Min(T)
<1>3. m \in 0 .. N /\ m \notin S
  BY <1>2
<1>4. m # 0
  BY <1>3
<1>5. m - 1 \in 0 .. (N - 1) /\ m - 1 \notin T
  <2> HIDE DEF T
  <2> QED
    BY <1>2, <1>3, <1>4
<1>6. m - 1 \in S
  BY <1>5
<1>7. (m - 1) + 1 \in S
  BY <1>5, <1>6
<1> QED
  BY <1>3, <1>7

(* g is F iterated N times from x. *)
Iterates(g, N, X, x, F) ==
    g \in [0 .. N -> X] /\ g[0] = x /\ \A k \in 1 .. N : g[k] = F[g[k - 1]]

(* Recursion: a function can be iterated any number of times. *)
LEMMA Iteration ==
    ASSUME NEW N \in Nat, NEW X, NEW x \in X, NEW F \in [X -> X]
    PROVE  \E g : Iterates(g, N, X, x, F)
<1> DEFINE S == {n \in Nat : \E g : Iterates(g, n, X, x, F)}
<1>1. 0 \in S
  <2>1. Iterates([k \in 0 .. 0 |-> x], 0, X, x, F)
    BY DEF Iterates
  <2> QED
    BY <2>1
<1>2. ASSUME NEW n \in 0 .. (N - 1), n \in S
      PROVE  n + 1 \in S
  <2>1. PICK g : Iterates(g, n, X, x, F)
    BY <1>2
  <2> DEFINE h == [k \in 0 .. (n + 1) |-> IF k = n + 1 THEN F[g[n]] ELSE g[k]]
  <2>2. h \in [0 .. (n + 1) -> X]
    BY <2>1 DEF Iterates
  <2>3. Iterates(h, n + 1, X, x, F)
    BY <2>1, <2>2 DEF Iterates
  <2> QED
    BY <2>3
<1>3. 0 .. N \subseteq S
  <2> HIDE DEF S
  <2> QED
    BY <1>1, <1>2, UpTo
<1> QED
  BY <1>3

-----------------------------------------------------------------------------
(* The network: where a PDU goes, and what a port and a metric are. *)

(* 65535 is cited as a natural number only: the provers would otherwise    *)
(* write the metrics out one by one.                                       *)
LEMMA MaxIsNatural == UINT16_MAX \in Nat /\ UINT16_MAX > 1
  BY DEF UINT16_MAX

LEMMA NumberOfNodes == Cardinality(Nodes) \in Nat
  BY NodesAssumption, FS_CardinalityType

(* The other end of a flow is a node. *)
LEMMA PeerIsNode ==
    ASSUME NEW f \in Flows, NEW n
    PROVE  Peer(f, n) \in Nodes
  BY FlowsAssumption DEF Peer

(* Where a PDU from n to d, now at a, goes next. *)
NextHop(tab, d, a) ==
    IF a \in {d, Nowhere} THEN a
    ELSE IF tab[a][d] = NoPort THEN Nowhere
    ELSE Peer(tab[a][d], a)

(* Way is what its recursive definition says. *)
LEMMA WayIsDefined ==
    ASSUME NEW tab \in [Nodes -> FwdTable], NEW n \in Nodes, NEW d \in Nodes
    PROVE  /\ Way(tab, n, d) \in [0 .. Cardinality(Nodes) -> Nodes \union {Nowhere}]
           /\ Way(tab, n, d)[0] = n
           /\ \A k \in 1 .. Cardinality(Nodes) :
                 Way(tab, n, d)[k] = NextHop(tab, d, Way(tab, n, d)[k - 1])
<1> DEFINE N == Cardinality(Nodes)
           X == Nodes \union {Nowhere}
           F == [a \in X |-> NextHop(tab, d, a)]
           IsWay(at) == at = [k \in 0 .. N |->
                                IF k = 0 THEN n
                                ELSE LET here == at[k - 1]
                                     IN  IF here \in {d, Nowhere} THEN here
                                         ELSE IF tab[here][d] = NoPort THEN Nowhere
                                         ELSE Peer(tab[here][d], here)]
<1>1. F \in [X -> X]
  <2> SUFFICES ASSUME NEW a \in X PROVE NextHop(tab, d, a) \in X
    OBVIOUS
  <2>1. CASE a \in {d, Nowhere}
    BY <2>1 DEF NextHop
  <2>2. CASE a \in Nodes
    <3>1. tab[a][d] \in Flows \union {NoPort}
      BY <2>2 DEF FwdTable
    <3> QED
      BY <3>1, PeerIsNode DEF NextHop
  <2> QED
    BY <2>1, <2>2
<1>2. N \in Nat
  BY NumberOfNodes
<1> HIDE DEF N
<1>3. PICK g : Iterates(g, N, X, n, F)
  <2>1. n \in X
    OBVIOUS
  <2> HIDE DEF F, X, IsWay
  <2> QED
    BY <1>1, <1>2, <2>1, Iteration
<1>4. IsWay(g)
  <2>1. ASSUME NEW k \in 1 .. N PROVE g[k] = NextHop(tab, d, g[k - 1])
    <3>1. g[k - 1] \in X /\ g[k] = F[g[k - 1]]
      <4> HIDE DEF F, X
      <4> QED
        BY <1>2, <1>3 DEF Iterates
    <3> QED
      BY <3>1
  <2> HIDE DEF X, F
  <2> QED
    BY <1>2, <1>3, <2>1 DEF NextHop, Iterates
<1>5. Way(tab, n, d) = CHOOSE at : IsWay(at)
  BY DEF Way, N
<1> DEFINE way == Way(tab, n, d)
<1>6. IsWay(way)
  <2> HIDE DEF IsWay
  <2> QED
    BY <1>4, <1>5, Zenon
<1> HIDE DEF way
<1>7. way[0] = n /\ \A k \in 1 .. N : way[k] = NextHop(tab, d, way[k - 1])
  BY <1>2, <1>6 DEF NextHop
<1>8. way \in [0 .. N -> X]
  <2> DEFINE S == {k \in 0 .. N : way[k] \in X}
  <2>1. 0 \in S
    BY <1>2, <1>7
  <2>2. ASSUME NEW k \in 0 .. (N - 1), k \in S PROVE k + 1 \in S
    <3>1. way[k + 1] = NextHop(tab, d, way[k])
      BY <1>2, <1>7
    <3>2. way[k + 1] = F[way[k]]
      BY <2>2, <3>1
    <3>3. way[k + 1] \in X
      <4> HIDE DEF F, X
      <4> QED
        BY <1>1, <2>2, <3>2
    <3> QED
      BY <1>2, <3>3
  <2>3. 0 .. N \subseteq S
    <3> HIDE DEF S
    <3> QED
      BY <1>2, <2>1, <2>2, UpTo
  <2>4. way = [k \in 0 .. N |-> way[k]]
    BY <1>6
  <2> QED
    BY <2>3, <2>4
<1> QED
  BY <1>7, <1>8 DEF N, way

(* A PDU that gets where it goes crosses flows only: it is never dropped   *)
(* for want of a port on the way.                                          *)
LEMMA CrossesFlows ==
    ASSUME NEW tab \in [Nodes -> FwdTable], NEW n \in Nodes, NEW d \in Nodes,
           Reaches(tab, n, d)
    PROVE  Crossed(tab, n, d) \subseteq Flows
<1> DEFINE N == Cardinality(Nodes)
           way == Way(tab, n, d)
<1>1. /\ way \in [0 .. N -> Nodes \union {Nowhere}]
      /\ way[0] = n
      /\ \A k \in 1 .. N : way[k] = NextHop(tab, d, way[k - 1])
  BY WayIsDefined
<1>2. N \in Nat /\ way[N] = d
  BY NumberOfNodes DEF Reaches
<1>3. d # Nowhere
  BY NodesAssumption DEF Nowhere
<1>4. Crossed(tab, n, d) = {tab[a][d] : a \in {way[k] : k \in 0 .. N} \ {d, Nowhere}}
  BY DEF Crossed
<1> HIDE DEF N, way
<1>5. SUFFICES ASSUME NEW k \in 0 .. N, way[k] \notin {d, Nowhere}, tab[way[k]][d] \notin Flows
               PROVE  FALSE
  BY <1>4
<1>6. way[k] \in Nodes /\ k < N
  BY <1>1, <1>2, <1>5
<1>7. tab[way[k]][d] = NoPort
  BY <1>5, <1>6 DEF FwdTable
<1> DEFINE S == {i \in Nat : k + 1 + i <= N => way[k + 1 + i] = Nowhere}
<1>8. 0 \in S
  BY <1>1, <1>2, <1>5, <1>6, <1>7 DEF NextHop
<1>9. ASSUME NEW i \in 0 .. (N - 1), i \in S PROVE i + 1 \in S
  <2> SUFFICES ASSUME k + 1 + (i + 1) <= N PROVE way[k + 1 + (i + 1)] = Nowhere
    OBVIOUS
  <2> DEFINE j == k + 1 + (i + 1)
  <2>1. j \in 1 .. N /\ j - 1 = k + 1 + i
    BY <1>2
  <2>2. way[j - 1] = Nowhere
    <3>1. k + 1 + i <= N
      BY <1>2, <2>1
    <3> QED
      BY <1>9, <2>1, <3>1
  <2>3. way[j] = NextHop(tab, d, way[j - 1])
    BY <1>1, <2>1
  <2> QED
    BY <2>2, <2>3 DEF NextHop
<1>10. 0 .. N \subseteq S
  <2> HIDE DEF S
  <2> QED
    BY <1>2, <1>8, <1>9, UpTo
<1>11. N - k - 1 \in 0 .. N /\ k + 1 + (N - k - 1) = N
  BY <1>2, <1>6
<1>12. way[N] = Nowhere
  BY <1>2, <1>10, <1>11
<1> QED
  BY <1>2, <1>3, <1>12

(* The port for some next hops is one of those that lead to the first.     *)
LEMMA PortForHops ==
    ASSUME NEW conns \in SUBSET Flows, NEW n, NEW nh, nh # {}, PortsTo(conns, n, Min(nh)) # {}
    PROVE  PortFor(conns, n, nh) \in PortsTo(conns, n, Min(nh))
<1>1. PortsTo(conns, n, Min(nh)) \in SUBSET Nat
  BY FlowsAssumption DEF PortsTo
<1>2. Min(PortsTo(conns, n, Min(nh))) \in PortsTo(conns, n, Min(nh))
  BY <1>1, MinOfNats
<1> QED
  BY <1>2 DEF PortFor

(* No flow is for free. *)
LEMMA LinkMetricType ==
    ASSUME NEW f \in Flows
    PROVE  LinkMetric(f) \in 1 .. UINT16_MAX
<1> DEFINE reduced == (Delay[f] \div RedLinkCost) % (UINT16_MAX + 1)
<1>1. /\ MinLinkCost \in 1 .. UINT16_MAX /\ MaxLinkCost \in 1 .. UINT16_MAX
      /\ RedLinkCost \in Nat /\ RedLinkCost > 0
  BY MetricAssumption, MaxIsNatural
<1>2. reduced \in Nat
  <2>1. Delay[f] \in Nat
    BY FlowsAssumption
  <2>2. Delay[f] \div RedLinkCost \in Nat
    BY <1>1, <2>1
  <2> QED
    BY <2>2, MaxIsNatural
<1> HIDE DEF reduced
<1>3. LatMetric(f) = IF f \in Management THEN MaxLinkCost
                     ELSE IF reduced < MinLinkCost THEN MinLinkCost
                     ELSE IF reduced > MaxLinkCost THEN MaxLinkCost
                     ELSE reduced
  BY DEF LatMetric, reduced
<1>4. LatMetric(f) \in 1 .. UINT16_MAX
  BY <1>1, <1>2, <1>3, MaxIsNatural
<1> QED
  BY <1>4, MaxIsNatural DEF LinkMetric

LEMMA PortForType ==
    ASSUME NEW conns \in SUBSET Flows, NEW n, NEW nh
    PROVE  PortFor(conns, n, nh) \in Flows \union {NoPort}
<1> DEFINE hopPorts == PortsTo(conns, n, Min(nh))
<1>1. hopPorts \in SUBSET Flows
  BY DEF PortsTo
<1>2. hopPorts # {} => Min(hopPorts) \in hopPorts
  <2>1. hopPorts \in SUBSET Nat
    BY <1>1, FlowsAssumption
  <2> HIDE DEF hopPorts
  <2> QED
    BY <2>1, MinOfNats
<1>3. PortFor(conns, n, nh) = IF nh = {} THEN NoPort
                              ELSE IF hopPorts = {} THEN NoPort ELSE Min(hopPorts)
  BY DEF PortFor
<1> HIDE DEF hopPorts
<1> QED
  BY <1>1, <1>2, <1>3

LEMMA PortForNone ==
    ASSUME NEW conns, NEW n
    PROVE  PortFor(conns, n, {}) = NoPort
  BY DEF PortFor

-----------------------------------------------------------------------------

LEMMA LinksType ==
    ASSUME NEW ls \in [Nodes -> LinkEntry], NEW a \in Nodes, NEW d \in Nodes
    PROVE  ls[a].links[d] \in Nat /\ ls[a].links[d] \in 0 .. UINT16_MAX
<1>1. ls[a] \in LinkEntry
  OBVIOUS
<1>2. ls[a].links \in [Nodes -> 0 .. UINT16_MAX]
  BY <1>1 DEF LinkEntry
<1>3. ls[a].links[d] \in 0 .. UINT16_MAX
  BY <1>2
<1> QED
  BY <1>3, MaxIsNatural

-----------------------------------------------------------------------------
(* What constructTree computes. A tree keeps the nodes whose distance is   *)
(* known, and for every node the best way over these.                      *)
TreeState == [added : SUBSET Nodes, found : [Nodes -> Route]]

(* Over the links of the nodes of A, F[d] is the best route to d. *)
Best(me, ls, F, A, d) ==
    /\ \A a \in A : ls[a].links[d] # 0 => F[d].metric <= LengthBy(me, ls, F, a, d)
    /\ \/ F[d].metric = UINT16_MAX
       \/ \E a \in A : ls[a].links[d] # 0 /\ F[d].metric = LengthBy(me, ls, F, a, d)
    /\ \A h : h \in F[d].nh <=>
                \E a \in A : /\ ls[a].links[d] # 0
                             /\ LengthBy(me, ls, F, a, d) = F[d].metric
                             /\ h \in (IF a = me THEN {d} ELSE F[a].nh)

(* A node without a next hop is out of reach; hops are neighbours of me.   *)
Usable(me, ls, F) ==
    \A d \in Nodes :
        /\ F[d].metric <= UINT16_MAX
        /\ F[d].nh = {} => F[d].metric = UINT16_MAX
        /\ \A h \in F[d].nh : ls[me].links[h] # 0

(* Nodes are added in the order of their distance. *)
Nearer(me, s) ==
    \A a \in s.added \ {me} : \A d \in Nodes \ s.added : s.found[a].metric <= s.found[d].metric

GoodTree(me, ls, s) ==
    /\ s \in TreeState
    /\ me \in s.added
    /\ Usable(me, ls, s.found)
    /\ Nearer(me, s)
    /\ \A d \in Nodes \ {me} : Best(me, ls, s.found, s.added, d)

LEMMA TreeFields ==
    ASSUME NEW s \in TreeState
    PROVE  /\ s.added \in SUBSET Nodes
           /\ s.found \in [Nodes -> Route]
           /\ \A d \in Nodes : /\ s.found[d] \in Route
                               /\ s.found[d].metric \in Nat
                               /\ s.found[d].nh \in SUBSET Nodes
<1>1. s.added \in SUBSET Nodes /\ s.found \in [Nodes -> Route]
  BY DEF TreeState
<1>2. ASSUME NEW d \in Nodes PROVE s.found[d] \in Route
  BY <1>1
<1> QED
  BY <1>1, <1>2 DEF Route

LEMMA RootIsGood ==
    ASSUME NEW ls \in [Nodes -> LinkEntry], NEW me \in Nodes
    PROVE  GoodTree(me, ls, Root(me, ls)) /\ Cardinality(Root(me, ls).added) = 1
<1> DEFINE F == Root(me, ls).found
<1>1. Root(me, ls).added = {me}
  BY DEF Root
<1>2. ASSUME NEW d \in Nodes
      PROVE  /\ ls[me].links[d] = 0 => F[d].metric = UINT16_MAX /\ F[d].nh = {}
             /\ ls[me].links[d] # 0 => F[d].metric = ls[me].links[d] /\ F[d].nh = {d}
             /\ F[d] \in Route
             /\ ls[me].links[d] \in Nat /\ ls[me].links[d] <= UINT16_MAX
  <2>1. ls[me].links[d] \in Nat /\ ls[me].links[d] \in 0 .. UINT16_MAX
    BY LinksType
  <2>2. F[d] = IF ls[me].links[d] = 0 THEN NoRoute ELSE [metric |-> ls[me].links[d], nh |-> {d}]
    BY DEF Root
  <2> QED
    BY <2>1, <2>2, MaxIsNatural DEF NoRoute, Route
<1>3. Root(me, ls) \in TreeState
  <2>1. F = [d \in Nodes |-> F[d]] /\ Root(me, ls) = [added |-> {me}, found |-> F]
    BY DEF Root
  <2>2. F \in [Nodes -> Route]
    BY <1>2, <2>1
  <2> HIDE DEF F
  <2> QED
    BY <2>1, <2>2 DEF TreeState
<1> HIDE DEF F
<1>4. Usable(me, ls, F)
  BY <1>2, MaxIsNatural DEF Usable
<1>5. ASSUME NEW d \in Nodes \ {me} PROVE Best(me, ls, F, {me}, d)
  <2>1. LengthBy(me, ls, F, me, d) = ls[me].links[d]
    BY <1>2 DEF LengthBy
  <2>2. CASE ls[me].links[d] = 0
    BY <1>2, <2>1, <2>2 DEF Best
  <2>3. CASE ls[me].links[d] # 0
    BY <1>2, <2>1, <2>3 DEF Best
  <2> QED
    BY <2>2, <2>3
<1>6. Nearer(me, Root(me, ls))
  BY <1>1 DEF Nearer
<1>7. Cardinality({me}) = 1
  BY FS_Singleton
<1> QED
  BY <1>1, <1>3, <1>4, <1>5, <1>6, <1>7 DEF GoodTree, F

(* The tree t is s with the node a. *)
Extends(t, s, ls, a) ==
    /\ t \in TreeState
    /\ t.added = s.added \union {a}
    /\ \A d \in t.added : t.found[d] = s.found[d]
    /\ \A d \in Nodes \ t.added :
          LET length == s.found[a].metric + ls[a].links[d]
          IN  IF ls[a].links[d] = 0 \/ length > s.found[d].metric
              THEN t.found[d] = s.found[d]
              ELSE /\ t.found[d].metric = length
                   /\ t.found[d].nh = IF length < s.found[d].metric THEN s.found[a].nh
                                      ELSE s.found[d].nh \union s.found[a].nh

LEMMA AddExtends ==
    ASSUME NEW ls \in [Nodes -> LinkEntry], NEW s \in TreeState, NEW a \in Nodes
    PROVE  Extends(Add(ls, s, a), s, ls, a)
<1> DEFINE t == Add(ls, s, a)
           A == s.added \union {a}
           F == [d \in Nodes |-> IF d \in A THEN s.found[d] ELSE Relax(s.found, a, ls[a].links)[d]]
           length(d) == s.found[a].metric + ls[a].links[d]
<1>1. t = [added |-> A, found |-> F]
  BY DEF Add
<1>2. A \in SUBSET Nodes
  BY TreeFields
<1>3. ASSUME NEW d \in Nodes \ A
      PROVE  /\ F[d] \in Route
             /\ IF ls[a].links[d] = 0 \/ length(d) > s.found[d].metric
                THEN F[d] = s.found[d]
                ELSE /\ F[d].metric = length(d)
                     /\ F[d].nh = IF length(d) < s.found[d].metric THEN s.found[a].nh
                                  ELSE s.found[d].nh \union s.found[a].nh
  <2>1. F[d] = IF ls[a].links[d] = 0 \/ length(d) > s.found[d].metric THEN s.found[d]
               ELSE IF length(d) < s.found[d].metric
                    THEN [metric |-> length(d), nh |-> s.found[a].nh]
               ELSE [s.found[d] EXCEPT !.nh = @ \union s.found[a].nh]
    BY DEF Relax
  <2>2. /\ s.found[d] \in Route /\ s.found[d].metric \in Nat /\ s.found[d].nh \in SUBSET Nodes
        /\ s.found[a].metric \in Nat /\ s.found[a].nh \in SUBSET Nodes
    BY TreeFields
  <2>3. length(d) \in Nat
    BY <2>2, LinksType
  <2> HIDE DEF F, A
  <2>4. CASE ls[a].links[d] = 0 \/ length(d) > s.found[d].metric
    BY <2>1, <2>2, <2>4
  <2>5. CASE ls[a].links[d] # 0 /\ length(d) < s.found[d].metric
    <3>1. F[d] = [metric |-> length(d), nh |-> s.found[a].nh]
      BY <2>1, <2>2, <2>3, <2>5
    <3> QED
      BY <2>2, <2>3, <2>5, <3>1 DEF Route
  <2>6. CASE ls[a].links[d] # 0 /\ length(d) = s.found[d].metric
    <3>1. F[d] = [s.found[d] EXCEPT !.nh = @ \union s.found[a].nh]
      BY <2>1, <2>2, <2>3, <2>6
    <3> QED
      BY <2>2, <2>3, <2>6, <3>1 DEF Route
  <2> QED
    BY <2>2, <2>3, <2>4, <2>5, <2>6
<1>4. ASSUME NEW d \in A PROVE F[d] = s.found[d] /\ F[d] \in Route
  BY <1>2, <1>4, TreeFields
<1>5. F \in [Nodes -> Route]
  <2>1. ASSUME NEW d \in Nodes PROVE F[d] \in Route
    <3> HIDE DEF F, A
    <3> QED
      BY <1>3, <1>4
  <2>2. F = [d \in Nodes |-> F[d]]
    OBVIOUS
  <2> HIDE DEF F
  <2> QED
    BY <2>1, <2>2
<1> HIDE DEF F
<1>6. t \in TreeState /\ t.added = A /\ t.found = F
  BY <1>1, <1>2, <1>5 DEF TreeState
<1> HIDE DEF A, t
<1>7. t.added = s.added \union {a}
  BY <1>6 DEF A
<1>8. \A d \in t.added : t.found[d] = s.found[d]
  BY <1>4, <1>6
<1>9. \A d \in Nodes \ t.added :
         IF ls[a].links[d] = 0 \/ length(d) > s.found[d].metric
         THEN t.found[d] = s.found[d]
         ELSE /\ t.found[d].metric = length(d)
              /\ t.found[d].nh = IF length(d) < s.found[d].metric THEN s.found[a].nh
                                 ELSE s.found[d].nh \union s.found[a].nh
  BY <1>3, <1>6
<1> QED
  BY <1>6, <1>7, <1>8, <1>9 DEF Extends, t

(* Adding one of the nearest nodes keeps all that holds of a tree.         *)
LEMMA AddKeepsGood ==
    ASSUME NEW ls \in [Nodes -> LinkEntry], NEW me \in Nodes,
           NEW s, GoodTree(me, ls, s), NEW a \in Nearest(s)
    PROVE  GoodTree(me, ls, Add(ls, s, a))
<1> DEFINE t == Add(ls, s, a)
           F == s.found
           G == t.found
           length(d) == F[a].metric + ls[a].links[d]
<1>1. /\ s \in TreeState /\ me \in s.added /\ Usable(me, ls, F) /\ Nearer(me, s)
      /\ \A d \in Nodes \ {me} : Best(me, ls, F, s.added, d)
  BY DEF GoodTree
<1>2. a \in Nodes /\ a \notin s.added /\ F[a].nh # {} /\ a # me
  BY <1>1 DEF Nearest, Waiting
<1>3. /\ t \in TreeState
      /\ t.added = s.added \union {a}
      /\ \A d \in t.added : G[d] = F[d]
      /\ \A d \in Nodes \ t.added :
            IF ls[a].links[d] = 0 \/ length(d) > F[d].metric
            THEN G[d] = F[d]
            ELSE /\ G[d].metric = length(d)
                 /\ G[d].nh = IF length(d) < F[d].metric THEN F[a].nh ELSE F[d].nh \union F[a].nh
  <2>1. Extends(t, s, ls, a)
    BY <1>1, <1>2, AddExtends
  <2> HIDE DEF t
  <2> QED
    BY <2>1 DEF Extends
<1> HIDE DEF t
<1>4. \A d \in Nodes : /\ F[d].metric \in Nat /\ G[d].metric \in Nat
                       /\ F[d].nh \in SUBSET Nodes /\ G[d].nh \in SUBSET Nodes
                       /\ ls[a].links[d] \in Nat
  BY <1>1, <1>2, <1>3, TreeFields, LinksType
<1>4a. ASSUME NEW d \in Nodes, G[d] # F[d]
       PROVE  /\ d \notin t.added
              /\ length(d) <= F[d].metric /\ G[d].metric = F[a].metric + ls[a].links[d]
              /\ F[a].nh \subseteq G[d].nh
              /\ \A h \in G[d].nh : h \in F[a].nh \/ h \in F[d].nh
  <2>1. length(d) \in Nat /\ F[d].metric \in Nat /\ length(d) = F[a].metric + ls[a].links[d]
    BY <1>2, <1>4
  <2> HIDE DEF length
  <2>2. d \notin t.added
    BY <1>3, <1>4a
  <2>3. /\ ~(ls[a].links[d] = 0 \/ length(d) > F[d].metric)
        /\ G[d].metric = length(d)
        /\ G[d].nh = IF length(d) < F[d].metric THEN F[a].nh ELSE F[d].nh \union F[a].nh
    BY <1>3, <1>4a, <2>1, <2>2 DEF length
  <2> QED
    BY <2>1, <2>2, <2>3
<1>5. s.added \in SUBSET Nodes /\ t.added \in SUBSET Nodes
  BY <1>1, <1>3, TreeFields
<1>6. ASSUME NEW d \in Nodes \ s.added PROVE F[a].metric <= F[d].metric
  <2>1. CASE F[d].nh = {}
    <3>1. F[d].metric = UINT16_MAX /\ F[a].metric <= UINT16_MAX
      BY <1>1, <1>2, <2>1 DEF Usable
    <3> QED
      BY <3>1
  <2>2. CASE F[d].nh # {}
    BY <2>2 DEF Nearest, Waiting
  <2> QED
    BY <2>1, <2>2
<1>7. Usable(me, ls, G)
  <2> SUFFICES ASSUME NEW d \in Nodes
               PROVE  /\ G[d].metric <= UINT16_MAX
                      /\ G[d].nh = {} => G[d].metric = UINT16_MAX
                      /\ \A h \in G[d].nh : ls[me].links[h] # 0
    BY DEF Usable
  <2>1. /\ F[d].metric <= UINT16_MAX
        /\ F[d].nh = {} => F[d].metric = UINT16_MAX
        /\ \A h \in F[d].nh : ls[me].links[h] # 0
        /\ \A h \in F[a].nh : ls[me].links[h] # 0
    BY <1>1, <1>2 DEF Usable
  <2>2. CASE G[d] = F[d]
    BY <2>1, <2>2
  <2>3. CASE G[d] # F[d]
    BY <1>2, <1>4, <1>4a, <2>1, <2>3, MaxIsNatural
  <2> QED
    BY <2>2, <2>3
<1>8. ASSUME NEW d \in Nodes \ t.added PROVE F[a].metric <= G[d].metric
  <2>1. d \in Nodes \ s.added
    BY <1>3
  <2>2. F[a].metric <= F[d].metric
    BY <1>6, <2>1
  <2>3. CASE G[d] = F[d]
    BY <2>2, <2>3
  <2>4. CASE G[d] # F[d]
    BY <1>2, <1>4, <1>4a, <2>4
  <2> QED
    BY <2>3, <2>4
<1>9. Nearer(me, t)
  <2> SUFFICES ASSUME NEW b \in t.added \ {me}, NEW d \in Nodes \ t.added
               PROVE  G[b].metric <= G[d].metric
    BY DEF Nearer
  <2>1. G[b] = F[b] /\ b \in Nodes
    BY <1>3, <1>5
  <2>2. F[b].metric <= F[a].metric
    <3>1. CASE b = a
      BY <1>4, <2>1, <3>1
    <3>2. CASE b \in s.added \ {me}
      BY <1>1, <1>2, <3>2 DEF Nearer
    <3> QED
      BY <1>3, <3>1, <3>2
  <2> QED
    BY <1>2, <1>4, <1>8, <2>1, <2>2
<1>10. ASSUME NEW d \in Nodes \ {me} PROVE Best(me, ls, G, t.added, d)
  <2>1. Best(me, ls, F, s.added, d)
    BY <1>1
  <2>2. ASSUME NEW b \in t.added
        PROVE  /\ LengthBy(me, ls, G, b, d) = LengthBy(me, ls, F, b, d)
               /\ LengthBy(me, ls, F, b, d) \in Nat
               /\ G[b].nh = F[b].nh
    <3>1. G[b] = F[b] /\ b \in Nodes
      BY <1>3, <1>5
    <3>2. ls[b].links[d] \in Nat
      BY <3>1, LinksType
    <3> QED
      BY <1>4, <3>1, <3>2 DEF LengthBy
  <2>3. LengthBy(me, ls, F, a, d) = length(d) /\ length(d) \in Nat
    <3>1. LengthBy(me, ls, F, a, d) = ls[a].links[d] + F[a].metric
      BY <1>2 DEF LengthBy
    <3> QED
      BY <1>2, <1>4, <3>1
  <2> DEFINE by(b, h) == h \in (IF b = me THEN {d} ELSE F[b].nh)
  <2>4. /\ \A b \in s.added : ls[b].links[d] # 0 => F[d].metric <= LengthBy(me, ls, F, b, d)
        /\ \/ F[d].metric = UINT16_MAX
           \/ \E b \in s.added : ls[b].links[d] # 0 /\ F[d].metric = LengthBy(me, ls, F, b, d)
        /\ \A h : h \in F[d].nh <=>
                    \E b \in s.added : /\ ls[b].links[d] # 0
                                       /\ LengthBy(me, ls, F, b, d) = F[d].metric
                                       /\ by(b, h)
    BY <2>1 DEF Best
  <2>5. \A h : by(a, h) <=> h \in F[a].nh
    BY <1>2
  <2> HIDE DEF by, length
  (* Nothing changes for d: it is added, or not nearer by a. *)
  <2>6. CASE G[d] = F[d] /\ (ls[a].links[d] # 0 => F[d].metric < length(d))
    <3>1. \A b \in t.added : ls[b].links[d] # 0 => G[d].metric <= LengthBy(me, ls, G, b, d)
      BY <1>3, <1>4, <2>2, <2>3, <2>4, <2>6
    <3>2. \/ G[d].metric = UINT16_MAX
          \/ \E b \in t.added : ls[b].links[d] # 0 /\ G[d].metric = LengthBy(me, ls, G, b, d)
      BY <1>3, <2>2, <2>4, <2>6
    <3>3. ASSUME NEW h
          PROVE  h \in G[d].nh <=>
                    \E b \in t.added : /\ ls[b].links[d] # 0
                                       /\ LengthBy(me, ls, G, b, d) = G[d].metric
                                       /\ by(b, h)
      <4>1. ls[a].links[d] # 0 => LengthBy(me, ls, F, a, d) # F[d].metric
        BY <1>4, <2>3, <2>6
      <4> QED
        BY <1>3, <2>2, <2>4, <2>6, <4>1
    <3> QED
      BY <2>2, <3>1, <3>2, <3>3 DEF Best, by
  (* d comes nearer by a. *)
  <2>7. CASE ls[a].links[d] # 0 /\ length(d) < F[d].metric /\ G[d].metric = length(d)
             /\ G[d].nh = F[a].nh
    <3>1. \A b \in t.added : ls[b].links[d] # 0 => G[d].metric <= LengthBy(me, ls, G, b, d)
      BY <1>3, <1>4, <2>2, <2>3, <2>4, <2>7
    <3>2. \E b \in t.added : ls[b].links[d] # 0 /\ G[d].metric = LengthBy(me, ls, G, b, d)
      BY <1>3, <2>2, <2>3, <2>7
    <3>3. ASSUME NEW b \in t.added, ls[b].links[d] # 0, LengthBy(me, ls, G, b, d) = G[d].metric
          PROVE  b = a
      <4>1. LengthBy(me, ls, F, b, d) < F[d].metric
        BY <2>2, <2>7, <3>3
      <4>2. b \in s.added => F[d].metric <= LengthBy(me, ls, F, b, d)
        BY <2>4, <3>3
      <4> QED
        BY <1>3, <1>4, <2>2, <4>1, <4>2
    <3>4. ASSUME NEW h
          PROVE  h \in G[d].nh <=>
                    \E b \in t.added : /\ ls[b].links[d] # 0
                                       /\ LengthBy(me, ls, G, b, d) = G[d].metric
                                       /\ by(b, h)
      BY <1>3, <2>2, <2>3, <2>5, <2>7, <3>3
    <3> QED
      BY <2>2, <3>1, <3>2, <3>4 DEF Best, by
  (* a is one more way to d, as short as those known. *)
  <2>8. CASE ls[a].links[d] # 0 /\ length(d) = F[d].metric /\ G[d].metric = length(d)
             /\ G[d].nh = F[d].nh \union F[a].nh
    <3>1. \A b \in t.added : ls[b].links[d] # 0 => G[d].metric <= LengthBy(me, ls, G, b, d)
      BY <1>3, <1>4, <2>2, <2>3, <2>4, <2>8
    <3>2. \E b \in t.added : ls[b].links[d] # 0 /\ G[d].metric = LengthBy(me, ls, G, b, d)
      BY <1>3, <2>2, <2>3, <2>8
    <3>3. ASSUME NEW h
          PROVE  h \in G[d].nh <=>
                    \E b \in t.added : /\ ls[b].links[d] # 0
                                       /\ LengthBy(me, ls, G, b, d) = G[d].metric
                                       /\ by(b, h)
      <4>1. h \in G[d].nh <=> h \in F[d].nh \/ by(a, h)
        BY <2>5, <2>8
      <4>2. (\E b \in t.added : /\ ls[b].links[d] # 0
                                /\ LengthBy(me, ls, G, b, d) = G[d].metric
                                /\ by(b, h))
            <=> \/ \E b \in s.added : /\ ls[b].links[d] # 0
                                      /\ LengthBy(me, ls, F, b, d) = F[d].metric
                                      /\ by(b, h)
                \/ by(a, h)
        BY <1>3, <2>2, <2>3, <2>8
      <4> QED
        BY <2>4, <4>1, <4>2
    <3> QED
      BY <2>2, <3>1, <3>2, <3>3 DEF Best, by
  <2>9. d \in t.added => G[d] = F[d] /\ (ls[a].links[d] # 0 => F[d].metric < length(d))
    <3> SUFFICES ASSUME d \in t.added
                 PROVE  G[d] = F[d] /\ (ls[a].links[d] # 0 => F[d].metric < length(d))
      OBVIOUS
    <3>1. F[d].metric <= F[a].metric
      <4>1. CASE d = a
        BY <1>4, <4>1
      <4>2. CASE d \in s.added \ {me}
        BY <1>1, <1>2, <4>2 DEF Nearer
      <4> QED
        BY <1>3, <4>1, <4>2
    <3>2. ls[a].links[d] # 0 => F[d].metric < length(d)
      BY <1>2, <1>4, <3>1 DEF length
    <3> QED
      BY <1>3, <3>2
  <2>10. d \notin t.added =>
            IF ls[a].links[d] = 0 \/ length(d) > F[d].metric
            THEN G[d] = F[d]
            ELSE /\ G[d].metric = length(d)
                 /\ G[d].nh = IF length(d) < F[d].metric THEN F[a].nh ELSE F[d].nh \union F[a].nh
    BY <1>3 DEF length
  <2> QED
    BY <1>4, <2>3, <2>6, <2>7, <2>8, <2>9, <2>10
<1>11. me \in t.added
  BY <1>1, <1>3
<1> QED
  BY <1>3, <1>7, <1>9, <1>10, <1>11 DEF GoodTree, t

LEMMA AddIsOneMore ==
    ASSUME NEW ls \in [Nodes -> LinkEntry], NEW s \in TreeState, NEW a \in Nearest(s)
    PROVE  Cardinality(Add(ls, s, a).added) = Cardinality(s.added) + 1
<1>1. a \in Nodes /\ a \notin s.added
  BY DEF Nearest, Waiting
<1>2. Add(ls, s, a).added = s.added \union {a}
  BY <1>1, AddExtends DEF Extends
<1>3. IsFiniteSet(s.added)
  BY TreeFields, NodesAssumption, FS_Subset
<1> QED
  BY <1>1, <1>2, <1>3, FS_AddElement

LEMMA GrownType ==
    ASSUME NEW ls \in [Nodes -> LinkEntry], NEW T \in SUBSET TreeState
    PROVE  Grown(ls, T) \in SUBSET TreeState
<1> SUFFICES ASSUME NEW s \in T, NEW t \in IF Waiting(s) = {} THEN {s}
                                            ELSE {Add(ls, s, a) : a \in Nearest(s)}
             PROVE  t \in TreeState
  BY DEF Grown
<1>1. CASE t = s
  BY <1>1
<1>2. CASE \E a \in Nearest(s) : t = Add(ls, s, a)
  <2>1. PICK a \in Nearest(s) : t = Add(ls, s, a)
    BY <1>2
  <2>2. a \in Nodes
    BY DEF Nearest, Waiting
  <2> QED
    BY <2>1, <2>2, AddExtends DEF Extends
<1> QED
  BY <1>1, <1>2

(* A step grows every tree of T, if only by itself. *)
LEMMA GrownTrees ==
    ASSUME NEW ls \in [Nodes -> LinkEntry], NEW T \in SUBSET TreeState
    PROVE  /\ T # {} => Grown(ls, T) # {}
           /\ \A t \in Grown(ls, T) :
                 \E s \in T : \/ t = s /\ Waiting(s) = {}
                              \/ \E a \in Nearest(s) : t = Add(ls, s, a)
<1>1. ASSUME NEW s \in T PROVE Waiting(s) # {} => Nearest(s) # {}
  <2> SUFFICES ASSUME Waiting(s) # {} PROVE Nearest(s) # {}
    OBVIOUS
  <2> DEFINE M == {s.found[d].metric : d \in Waiting(s)}
  <2>1. \A d \in Waiting(s) : s.found[d].metric \in Nat
    BY TreeFields DEF Waiting
  <2>2. M \in SUBSET Nat /\ M # {}
    BY <2>1
  <2>3. Min(M) \in M /\ \A x \in M : Min(M) <= x
    <3> HIDE DEF M
    <3> QED
      BY <2>2, MinOfNats
  <2>4. PICK a \in Waiting(s) : s.found[a].metric = Min(M)
    BY <2>3
  <2>5. a \in Nearest(s)
    BY <2>3, <2>4 DEF Nearest
  <2> QED
    BY <2>5
<1>2. T # {} => Grown(ls, T) # {}
  <2> SUFFICES ASSUME NEW s \in T PROVE Grown(ls, T) # {}
    OBVIOUS
  <2>1. CASE Waiting(s) = {}
    BY <2>1 DEF Grown
  <2>2. CASE Waiting(s) # {}
    <3>1. PICK a \in Nearest(s) : TRUE
      BY <1>1, <2>2
    <3>2. Add(ls, s, a) \in Grown(ls, T)
      BY <2>2 DEF Grown
    <3> QED
      BY <3>2
  <2> QED
    BY <2>1, <2>2
<1>3. ASSUME NEW t \in Grown(ls, T)
      PROVE  \E s \in T : \/ t = s /\ Waiting(s) = {}
                          \/ \E a \in Nearest(s) : t = Add(ls, s, a)
  <2>1. PICK s \in T : t \in IF Waiting(s) = {} THEN {s} ELSE {Add(ls, s, a) : a \in Nearest(s)}
    BY DEF Grown
  <2>2. CASE Waiting(s) = {}
    BY <2>1, <2>2
  <2>3. CASE Waiting(s) # {}
    BY <2>1, <2>3
  <2> QED
    BY <2>2, <2>3
<1> QED
  BY <1>2, <1>3

(* When nobody waits, links of nodes left out lead nowhere: the best way   *)
(* over the nodes of the tree is the best way.                             *)
LEMMA FinishedSolves ==
    ASSUME NEW ls \in [Nodes -> LinkEntry], NEW me \in Nodes,
           NEW s, GoodTree(me, ls, s), Waiting(s) = {}
    PROVE  Solves(me, ls, s.found)
<1> DEFINE F == s.found
<1>1. /\ s \in TreeState /\ me \in s.added /\ Usable(me, ls, F)
      /\ \A d \in Nodes \ {me} : Best(me, ls, F, s.added, d)
  BY DEF GoodTree
<1>2. /\ F \in [Nodes -> Route] /\ s.added \in SUBSET Nodes
      /\ \A d \in Nodes : F[d] \in Route /\ F[d].metric \in Nat /\ F[d].nh \in SUBSET Nodes
  BY <1>1, TreeFields
<1> SUFFICES ASSUME NEW d \in Nodes \ {me}
             PROVE  LET into == {a \in Nodes : ls[a].links[d] # 0}
                        best == Min({LengthBy(me, ls, F, a, d) : a \in into} \union {UINT16_MAX})
                        hops == UNION {IF a = me THEN {d} ELSE F[a].nh :
                                         a \in {b \in into : LengthBy(me, ls, F, b, d) = best}}
                    IN  F[d] = [metric |-> best, nh |-> hops]
  BY DEF Solves
<1> DEFINE into == {a \in Nodes : ls[a].links[d] # 0}
           L(a) == LengthBy(me, ls, F, a, d)
           T == {L(a) : a \in into} \union {UINT16_MAX}
           best == Min(T)
           by(a) == IF a = me THEN {d} ELSE F[a].nh
           hops == UNION {by(a) : a \in {b \in into : L(b) = best}}
<1>3. \A a \in Nodes : ls[a].links[d] \in Nat /\ L(a) \in Nat
  <2> SUFFICES ASSUME NEW a \in Nodes PROVE ls[a].links[d] \in Nat /\ L(a) \in Nat
    OBVIOUS
  <2>1. ls[a].links[d] \in Nat
    BY LinksType
  <2> QED
    BY <1>2, <2>1 DEF LengthBy
<1>4. F[d].metric <= UINT16_MAX
  BY <1>1 DEF Usable
<1>5. ASSUME NEW a \in into, a \notin s.added
      PROVE  L(a) > UINT16_MAX
  <2>1. F[a].metric = UINT16_MAX
    BY <1>1, <1>5 DEF Usable, Waiting
  <2>2. L(a) = ls[a].links[d] + UINT16_MAX
    BY <1>1, <1>5, <2>1 DEF LengthBy
  <2>3. ls[a].links[d] \in Nat /\ ls[a].links[d] # 0
    BY <1>3
  <2> QED
    BY <2>2, <2>3, MaxIsNatural
<1>6. /\ \A a \in s.added : ls[a].links[d] # 0 => F[d].metric <= L(a)
      /\ \/ F[d].metric = UINT16_MAX
         \/ \E a \in s.added : ls[a].links[d] # 0 /\ F[d].metric = L(a)
      /\ \A h : h \in F[d].nh <=>
                  \E a \in s.added : ls[a].links[d] # 0 /\ L(a) = F[d].metric /\ h \in by(a)
  <2>1. Best(me, ls, F, s.added, d)
    BY <1>1
  <2> QED
    BY <2>1 DEF Best
<1> HIDE DEF L, F
<1>7. \A x \in T : F[d].metric <= x
  BY <1>2, <1>3, <1>4, <1>5, <1>6, MaxIsNatural
<1>8. F[d].metric \in T
  BY <1>2, <1>6
<1>9. T \in SUBSET Nat /\ T # {}
  BY <1>3, MaxIsNatural
<1> HIDE DEF T
<1>10. best \in T /\ \A x \in T : best <= x
  BY <1>9, MinOfNats
<1> HIDE DEF best
<1>11. F[d].metric = best
  <2>1. best <= F[d].metric /\ F[d].metric <= best
    BY <1>7, <1>8, <1>10
  <2>2. best \in Nat /\ F[d].metric \in Nat
    BY <1>8, <1>9, <1>10
  <2> QED
    BY <2>1, <2>2
<1> HIDE DEF by
<1>12. F[d].nh = hops
  <2>1. ASSUME NEW h PROVE h \in F[d].nh <=> h \in hops
    <3>1. ASSUME h \in F[d].nh PROVE h \in hops
      <4>1. PICK a \in s.added : ls[a].links[d] # 0 /\ L(a) = F[d].metric /\ h \in by(a)
        BY <1>6, <3>1
      <4>2. a \in Nodes
        BY <1>2
      <4> QED
        BY <1>11, <4>1, <4>2
    <3>2. ASSUME h \in hops PROVE h \in F[d].nh
      <4>1. PICK a \in into : L(a) = best /\ h \in by(a)
        BY <3>2
      <4>2. a \in s.added
        BY <1>2, <1>3, <1>4, <1>5, <1>11, <4>1, MaxIsNatural
      <4> QED
        BY <1>6, <1>11, <4>1, <4>2
    <3> QED
      BY <3>1, <3>2
  <2> HIDE DEF hops
  <2>2. \A h : h \in F[d].nh <=> h \in hops
    BY <2>1
  <2> QED
    BY <2>2
<1>13. F[d] \in Route
  BY <1>2
<1>14. F[d] = [metric |-> F[d].metric, nh |-> F[d].nh]
  BY <1>13 DEF Route
<1>15. F[d] = [metric |-> best, nh |-> hops]
  <2> HIDE DEF hops
  <2> QED
    BY <1>11, <1>12, <1>14
<1> QED
  BY <1>15 DEF best, T, by, L, F

(* After as many steps as there are nodes every tree is finished.          *)
LEMMA TreesAreFinished ==
    ASSUME NEW ls \in [Nodes -> LinkEntry], NEW me \in Nodes
    PROVE  /\ Trees(me, ls) # {}
           /\ \A s \in Trees(me, ls) : GoodTree(me, ls, s) /\ Waiting(s) = {}
<1> DEFINE N == Cardinality(Nodes)
           X == SUBSET TreeState
           root == Root(me, ls)
           F == [T \in X |-> Grown(ls, T)]
           AreTrees(at) == at = [k \in 0 .. N |-> IF k = 0 THEN {root} ELSE Grown(ls, at[k - 1])]
<1>1. root \in TreeState /\ GoodTree(me, ls, root) /\ Cardinality(root.added) = 1
  BY RootIsGood DEF GoodTree
<1> HIDE DEF root
<1>2. N \in Nat
  BY NumberOfNodes
<1> HIDE DEF N
<1>3. F \in [X -> X]
  BY GrownType
<1>4. PICK g : Iterates(g, N, X, {root}, F)
  <2>1. {root} \in X
    BY <1>1
  <2> HIDE DEF F, X, AreTrees
  <2> QED
    BY <1>2, <1>3, <2>1, Iteration
<1>5. AreTrees(g)
  <2>1. ASSUME NEW k \in 1 .. N PROVE g[k] = Grown(ls, g[k - 1])
    <3>1. g[k - 1] \in X /\ g[k] = F[g[k - 1]]
      <4> HIDE DEF F, X
      <4> QED
        BY <1>2, <1>4 DEF Iterates
    <3> QED
      BY <3>1
  <2> HIDE DEF X, F
  <2> QED
    BY <1>2, <1>4, <2>1 DEF Iterates
<1> DEFINE trees == CHOOSE at : AreTrees(at)
<1>6. Trees(me, ls) = trees[N]
  BY DEF Trees, N, root
<1>7. AreTrees(trees)
  <2> HIDE DEF AreTrees
  <2> QED
    BY <1>5, Zenon
<1> HIDE DEF trees
<1>8. trees[0] = {root} /\ \A k \in 1 .. N : trees[k] = Grown(ls, trees[k - 1])
  <2>1. trees = [k \in 0 .. N |-> IF k = 0 THEN {root} ELSE Grown(ls, trees[k - 1])]
    BY <1>7
  <2>2. \A k \in 0 .. N : trees[k] = IF k = 0 THEN {root} ELSE Grown(ls, trees[k - 1])
    BY ONLY <2>1, Zenon
  <2>3. 0 \in 0 .. N /\ \A k \in 1 .. N : k \in 0 .. N /\ k # 0
    BY <1>2
  <2> QED
    BY <2>2, <2>3, Zenon
<1> HIDE DEF AreTrees, F
<1> DEFINE Fine(k) ==
              /\ trees[k] \in SUBSET TreeState /\ trees[k] # {}
              /\ \A s \in trees[k] : /\ GoodTree(me, ls, s)
                                     /\ Waiting(s) = {} \/ Cardinality(s.added) = k + 1
           S == {k \in 0 .. N : Fine(k)}
<1>9. 0 \in S
  BY <1>1, <1>2, <1>8
<1>10. ASSUME NEW k \in 0 .. (N - 1), k \in S PROVE k + 1 \in S
  <2>1. Fine(k)
    BY <1>10
  <2>2. trees[k + 1] = Grown(ls, trees[k])
    <3>1. k + 1 \in 1 .. N /\ (k + 1) - 1 = k
      BY <1>2
    <3>2. trees[k + 1] = Grown(ls, trees[(k + 1) - 1])
      BY <1>8, <3>1, Zenon
    <3> QED
      BY <3>1, <3>2
  <2>3. trees[k + 1] \in SUBSET TreeState
    BY <2>1, <2>2, GrownType
  <2>4. trees[k + 1] # {}
    BY <2>1, <2>2, GrownTrees
  <2>5. ASSUME NEW t \in trees[k + 1]
        PROVE  GoodTree(me, ls, t) /\ (Waiting(t) = {} \/ Cardinality(t.added) = (k + 1) + 1)
    <3>1. PICK s \in trees[k] : \/ t = s /\ Waiting(s) = {}
                                \/ \E a \in Nearest(s) : t = Add(ls, s, a)
      <4>1. \A u \in Grown(ls, trees[k]) :
               \E s \in trees[k] : \/ u = s /\ Waiting(s) = {}
                                   \/ \E a \in Nearest(s) : u = Add(ls, s, a)
        BY <2>1, GrownTrees
      <4> QED
        BY <2>2, <4>1
    <3>2. GoodTree(me, ls, s) /\ s \in TreeState /\ (Waiting(s) = {} \/ Cardinality(s.added) = k + 1)
      BY <2>1
    <3>3. CASE t = s /\ Waiting(s) = {}
      BY <3>2, <3>3
    <3>4. CASE \E a \in Nearest(s) : t = Add(ls, s, a)
      <4>1. PICK a \in Nearest(s) : t = Add(ls, s, a)
        BY <3>4
      <4>2. GoodTree(me, ls, t)
        BY <3>2, <4>1, AddKeepsGood
      <4>3. Cardinality(t.added) = Cardinality(s.added) + 1
        BY <3>2, <4>1, AddIsOneMore
      <4>4. Waiting(s) # {}
        BY <4>1 DEF Nearest
      <4> QED
        BY <3>2, <4>2, <4>3, <4>4
    <3> QED
      BY <3>1, <3>3, <3>4
  <2>6. Fine(k + 1)
    BY <2>3, <2>4, <2>5
  <2>7. k + 1 \in 0 .. N
    BY <1>2
  <2> HIDE DEF Fine
  <2> QED
    BY <2>6, <2>7
<1>11. 0 .. N \subseteq S
  <2> HIDE DEF S
  <2> QED
    BY <1>2, <1>9, <1>10, UpTo
<1>12. Fine(N)
  <2> HIDE DEF Fine
  <2> QED
    BY <1>2, <1>11
<1>13. ASSUME NEW s \in trees[N] PROVE Waiting(s) = {}
  <2>1. GoodTree(me, ls, s) /\ (Waiting(s) = {} \/ Cardinality(s.added) = N + 1)
    BY <1>12
  <2>2. s.added \in SUBSET Nodes
    BY <2>1, TreeFields DEF GoodTree
  <2>3. Cardinality(s.added) <= N
    BY <2>2, NodesAssumption, FS_Subset DEF N
  <2>4. Cardinality(s.added) \in Nat
    BY <2>2, NodesAssumption, FS_Subset, FS_CardinalityType
  <2> QED
    BY <1>2, <2>1, <2>3, <2>4
<1> QED
  BY <1>6, <1>12, <1>13

(* Routes that solve the equations of shortest ways, over neighbours. *)
Shortest(me, ls, routes) ==
    /\ routes \in [Nodes -> Route]
    /\ Usable(me, ls, routes)
    /\ Solves(me, ls, routes)

(* Whatever the links, and in whatever order nodes as near as one another  *)
(* are taken, constructTree finds all the shortest ways (SimpleLS.cc:111). *)
THEOREM TreeIsShortest ==
    ASSUME NEW ls \in [Nodes -> LinkEntry], NEW me \in Nodes
    PROVE  Shortest(me, ls, ConstructTree(me, ls))
<1>1. PICK s \in Trees(me, ls) : ConstructTree(me, ls) = s.found
  BY TreesAreFinished DEF ConstructTree
<1>2. GoodTree(me, ls, s) /\ Waiting(s) = {}
  BY TreesAreFinished
<1>3. Solves(me, ls, s.found)
  BY <1>2, FinishedSolves
<1>4. s.found \in [Nodes -> Route] /\ Usable(me, ls, s.found)
  BY <1>2, TreeFields DEF GoodTree
<1> QED
  BY <1>1, <1>3, <1>4 DEF Shortest

-----------------------------------------------------------------------------
(* Each forwarding entry is a port to the first of the hops of its route.  *)
Follows(n, itsPorts, routes, entries) ==
    \A d \in Nodes :
        IF routes[d].nh = {} THEN entries[d] = NoPort
        ELSE entries[d] \in PortsTo(itsPorts, n, Min(routes[d].nh))

(* The own entry of n is the last it numbered, and tells of links it has.  *)
OwnLinks(n) ==
    /\ netState[n][n].sId <= secId[n]
    /\ \A d \in Nodes : netState[n][n].links[d] # 0 => PortsTo(ports[n], n, d) # {}

Current(n) ==
    /\ Shortest(n, netState[n], table[n])
    /\ Follows(n, ports[n], table[n], fwd[n])

IInv ==
    /\ TypeOK
    /\ OneEntryPerNumber
    /\ \A n \in Nodes : OwnLinks(n) /\ Current(n)

LEMMA EntriesType ==
    ASSUME TypeOK, NEW n \in Nodes
    PROVE  /\ netState[n] \in [Nodes -> LinkEntry]
           /\ table[n] \in [Nodes -> Route]
           /\ fwd[n] \in FwdTable
           /\ ports[n] \in SUBSET Flows
           /\ secId[n] \in Nat
           /\ \A m \in Nodes : netState[n][m].sId \in Nat
<1>1. netState[n] \in [Nodes -> LinkEntry]
  BY DEF TypeOK
<1>2. ASSUME NEW m \in Nodes PROVE netState[n][m].sId \in Nat
  <2>1. netState[n][m] \in LinkEntry
    BY <1>1
  <2> QED
    BY <2>1 DEF LinkEntry
<1> QED
  BY <1>1, <1>2 DEF TypeOK

(* The routes are told to the generator as differences to those it knows,  *)
(* and its table follows them all.                                         *)
LEMMA RecomputeFollows ==
    ASSUME TypeOK, NEW n \in Nodes, Follows(n, ports[n], table[n], fwd[n]),
           NEW known \in [Nodes -> LinkEntry],
           NEW itsPorts \in SUBSET Flows, ports[n] \subseteq itsPorts,
           \A d \in Nodes : known[n].links[d] # 0 => PortsTo(itsPorts, n, d) # {},
           Recompute(n, known, itsPorts)
    PROVE  /\ Shortest(n, known, table'[n]) /\ Follows(n, itsPorts, table'[n], fwd'[n])
           /\ \A m \in Nodes \ {n} : table'[m] = table[m] /\ fwd'[m] = fwd[m]
           /\ table' \in [Nodes -> [Nodes -> Route]]
           /\ fwd' \in [Nodes -> FwdTable]
<1> DEFINE routes == ConstructTree(n, known)
           changed == Changed(table[n], routes)
           entries == RoutingUpdated(fwd[n], itsPorts, n, changed, [d \in Nodes |-> routes[d].nh])
<1>1. Shortest(n, known, routes)
  BY TreeIsShortest
<1>2. table' = [table EXCEPT ![n] = routes] /\ fwd' = [fwd EXCEPT ![n] = entries]
  BY DEF Recompute
<1> HIDE DEF routes
<1>3. routes \in [Nodes -> Route] /\ table[n] \in [Nodes -> Route] /\ fwd[n] \in FwdTable
  BY <1>1, EntriesType DEF Shortest
<1>4. ASSUME NEW d \in Nodes
      PROVE  /\ d \in changed => entries[d] = PortFor(itsPorts, n, routes[d].nh)
             /\ d \notin changed => entries[d] = fwd[n][d] /\ routes[d] = table[n][d]
             /\ entries[d] \in Flows \union {NoPort}
  <2>1. /\ d \in changed => entries[d] = PortFor(itsPorts, n, routes[d].nh)
        /\ d \notin changed => entries[d] = fwd[n][d] /\ routes[d] = table[n][d]
    BY DEF RoutingUpdated, Changed
  <2>2. PortFor(itsPorts, n, routes[d].nh) \in Flows \union {NoPort}
    BY PortForType
  <2>3. fwd[n][d] \in Flows \union {NoPort}
    BY <1>3 DEF FwdTable
  <2> QED
    BY <2>1, <2>2, <2>3
<1>5. entries \in FwdTable
  <2>1. entries = [d \in Nodes |-> entries[d]]
    BY DEF RoutingUpdated
  <2> HIDE DEF entries
  <2> QED
    BY <1>4, <2>1 DEF FwdTable
<1> HIDE DEF entries, changed
<1>6. Follows(n, itsPorts, routes, entries)
  <2> SUFFICES ASSUME NEW d \in Nodes
               PROVE  IF routes[d].nh = {} THEN entries[d] = NoPort
                      ELSE entries[d] \in PortsTo(itsPorts, n, Min(routes[d].nh))
    BY DEF Follows
  <2>1. CASE d \notin changed
    <3>1. IF table[n][d].nh = {} THEN fwd[n][d] = NoPort
          ELSE fwd[n][d] \in PortsTo(ports[n], n, Min(table[n][d].nh))
      BY DEF Follows
    <3>2. \A h : PortsTo(ports[n], n, h) \subseteq PortsTo(itsPorts, n, h)
      BY DEF PortsTo
    <3> QED
      BY <1>4, <2>1, <3>1, <3>2
  <2>2. CASE d \in changed /\ routes[d].nh = {}
    BY <1>4, <2>2, PortForNone
  <2>3. CASE d \in changed /\ routes[d].nh # {}
    <3>1. routes[d].nh \in SUBSET Nat /\ routes[d].nh \in SUBSET Nodes
      <4>1. routes[d] \in Route
        BY <1>3
      <4> QED
        BY <4>1, NodesAssumption DEF Route
    <3>2. Min(routes[d].nh) \in routes[d].nh
      BY <2>3, <3>1, MinOfNats
    <3>3. known[n].links[Min(routes[d].nh)] # 0
      BY <1>1, <3>2 DEF Shortest, Usable
    <3>4. PortsTo(itsPorts, n, Min(routes[d].nh)) # {}
      BY <3>1, <3>2, <3>3
    <3>5. PortFor(itsPorts, n, routes[d].nh) \in PortsTo(itsPorts, n, Min(routes[d].nh))
      BY <2>3, <3>4, PortForHops
    <3> QED
      BY <1>4, <2>3, <3>5
  <2> QED
    BY <2>1, <2>2, <2>3
<1>7. table \in [Nodes -> [Nodes -> Route]] /\ fwd \in [Nodes -> FwdTable]
  BY DEF TypeOK
<1> QED
  BY <1>1, <1>2, <1>3, <1>5, <1>6, <1>7

LEMMA InvInit ==
    ASSUME Init
    PROVE  IInv
<1>1. NoEntry \in LinkEntry /\ NoRoute \in Route
  BY MaxIsNatural DEF NoEntry, NoRoute, LinkEntry, Route
<1>2. TypeOK
  BY <1>1 DEF Init, TypeOK, FwdTable
<1>3. OneEntryPerNumber
  BY DEF Init, OneEntryPerNumber, Agrees
<1>4. ASSUME NEW n \in Nodes PROVE OwnLinks(n) /\ Current(n)
  <2>1. /\ netState[n] = [m \in Nodes |-> NoEntry] /\ secId[n] = 1
        /\ table[n] = [d \in Nodes |-> NoRoute] /\ fwd[n] = [d \in Nodes |-> NoPort]
    BY DEF Init
  <2>2. \A m, d \in Nodes : netState[n][m].sId = 0 /\ netState[n][m].links[d] = 0
    BY <2>1 DEF NoEntry
  <2>3. \A d \in Nodes : table[n][d].metric = UINT16_MAX /\ table[n][d].nh = {}
    BY <2>1 DEF NoRoute
  <2>4. OwnLinks(n)
    BY <2>1, <2>2 DEF OwnLinks
  <2>5. Follows(n, ports[n], table[n], fwd[n])
    BY <2>1, <2>3 DEF Follows
  <2>6. Usable(n, netState[n], table[n])
    BY <2>3, MaxIsNatural DEF Usable
  <2>7. Solves(n, netState[n], table[n])
    <3> SUFFICES ASSUME NEW d \in Nodes \ {n}
                 PROVE  LET into == {a \in Nodes : netState[n][a].links[d] # 0}
                            best == Min({LengthBy(n, netState[n], table[n], a, d) : a \in into}
                                        \union {UINT16_MAX})
                            hops == UNION {IF a = n THEN {d} ELSE table[n][a].nh :
                                       a \in {b \in into :
                                           LengthBy(n, netState[n], table[n], b, d) = best}}
                        IN  table[n][d] = [metric |-> best, nh |-> hops]
      BY DEF Solves
    <3> DEFINE into == {a \in Nodes : netState[n][a].links[d] # 0}
               T == {LengthBy(n, netState[n], table[n], a, d) : a \in into} \union {UINT16_MAX}
               hops == UNION {IF a = n THEN {d} ELSE table[n][a].nh :
                              a \in {b \in into :
                                      LengthBy(n, netState[n], table[n], b, d) = Min(T)}}
    <3>1. into = {}
      BY <2>2
    <3>2. T = {UINT16_MAX}
      BY <3>1
    <3> HIDE DEF T
    <3>3. Min(T) = UINT16_MAX
      BY <3>2, MaxIsNatural, MinOfNats
    <3>4. hops = {}
      BY <3>1
    <3>5. table[n][d] = [metric |-> Min(T), nh |-> {}]
      BY <2>1, <3>3 DEF NoRoute
    <3> HIDE DEF into
    <3> QED
      BY <3>4, <3>5 DEF T, into
  <2> QED
    BY <1>2, <2>4, <2>5, <2>6, <2>7, EntriesType DEF Current, Shortest
<1> QED
  BY <1>2, <1>3, <1>4 DEF IInv

(* No process goes back to an older entry. *)
Newer == \A n, m \in Nodes : netState'[n][m].sId >= netState[n][m].sId

LEMMA InsertKeeps ==
    ASSUME IInv, NEW n \in Nodes, NEW f \in Flows, InsertedFlow(n, f)
    PROVE  IInv' /\ Newer
<1> DEFINE d == Peer(f, n)
           entry == InsertLink(netState[n][n], secId[n] + 1, d, LinkMetric(f))
           known == [netState[n] EXCEPT ![n] = entry]
<1>1. /\ TypeOK /\ OneEntryPerNumber
      /\ \A m \in Nodes : OwnLinks(m) /\ Current(m)
  BY DEF IInv
<1>2. /\ ports' = [ports EXCEPT ![n] = @ \union {f}]
      /\ config' = config /\ updates' = updates
  BY DEF InsertedFlow
<1>3. /\ ports' \in [Nodes -> SUBSET Flows]
      /\ \A m \in Nodes : ports[m] \subseteq ports'[m] /\ (m # n => ports'[m] = ports[m])
      /\ ports'[n] = ports[n] \union {f}
  BY <1>1, <1>2 DEF TypeOK
<1>4. \A h, m : PortsTo(ports[m], m, h) \subseteq PortsTo(ports[m] \union {f}, m, h)
  BY DEF PortsTo
<1>5. d \in Nodes /\ f \in PortsTo(ports'[n], n, d)
  BY <1>3, PeerIsNode DEF PortsTo
<1>6. CASE ~NewLink(ports[n], n, f)
  <2>1. UNCHANGED <<secId, netState, lastChanges, scheduledUpdate, table, fwd>>
    BY <1>6 DEF InsertedFlow
  <2>2. TypeOK'
    BY <1>1, <1>2, <1>3, <2>1 DEF TypeOK
  <2>3. OneEntryPerNumber'
    BY <1>1, <1>2, <2>1 DEF OneEntryPerNumber, Agrees
  <2>4. ASSUME NEW m \in Nodes PROVE OwnLinks(m)' /\ Current(m)'
    <3>1. OwnLinks(m) /\ Shortest(m, netState[m], table[m])
          /\ Follows(m, ports[m], table[m], fwd[m])
      BY <1>1 DEF Current
    <3>2. \A h : PortsTo(ports[m], m, h) \subseteq PortsTo(ports'[m], m, h)
      BY <1>3, <1>4
    <3>3. OwnLinks(m)'
      BY <2>1, <3>1, <3>2 DEF OwnLinks
    <3>4. Follows(m, ports'[m], table[m], fwd[m])
      BY <3>1, <3>2 DEF Follows
    <3> QED
      BY <2>1, <3>1, <3>3, <3>4 DEF Current
  <2>5. Newer
    BY <1>1, <2>1, EntriesType DEF Newer
  <2> QED
    BY <2>2, <2>3, <2>4, <2>5 DEF IInv
<1>7. CASE NewLink(ports[n], n, f)
  <2>1. /\ secId' = [secId EXCEPT ![n] = @ + 1]
        /\ netState' = [netState EXCEPT ![n] = known]
        /\ lastChanges' = [lastChanges EXCEPT ![n] = @ \union {n}]
        /\ scheduledUpdate' = [scheduledUpdate EXCEPT ![n] = TRUE]
        /\ Recompute(n, known, ports'[n])
    BY <1>7 DEF InsertedFlow, NextId
  <2>2. /\ netState[n] \in [Nodes -> LinkEntry] /\ secId[n] \in Nat
        /\ netState[n][n] \in LinkEntry /\ netState[n][n].sId \in Nat
        /\ netState[n][n].links \in [Nodes -> 0 .. UINT16_MAX]
    <3>1. netState[n] \in [Nodes -> LinkEntry] /\ secId[n] \in Nat
      BY <1>1, EntriesType
    <3> QED
      BY <3>1 DEF LinkEntry
  <2>3. LinkMetric(f) \in 0 .. UINT16_MAX
    BY LinkMetricType, MaxIsNatural
  <2>4. /\ entry \in LinkEntry /\ entry.sId = secId[n] + 1
        /\ \A h \in Nodes : h # d => entry.links[h] = netState[n][n].links[h]
    <3> DEFINE links == [netState[n][n].links EXCEPT ![d] = LinkMetric(f)]
    <3>1. links \in [Nodes -> 0 .. UINT16_MAX]
      BY <2>2, <2>3
    <3>2. \A h \in Nodes : h # d => links[h] = netState[n][n].links[h]
      BY <2>2
    <3>3. entry = [sId |-> secId[n] + 1, links |-> links]
      BY DEF InsertLink
    <3> HIDE DEF links, entry
    <3> QED
      BY <2>2, <3>1, <3>2, <3>3 DEF LinkEntry
  <2> HIDE DEF entry
  <2>5. /\ known \in [Nodes -> LinkEntry] /\ known[n] = entry
        /\ \A m \in Nodes \ {n} : known[m] = netState[n][m]
    BY <2>2, <2>4
  <2> HIDE DEF known
  <2>6. \A h \in Nodes : known[n].links[h] # 0 => PortsTo(ports'[n], n, h) # {}
    <3> SUFFICES ASSUME NEW h \in Nodes, known[n].links[h] # 0
                 PROVE  PortsTo(ports'[n], n, h) # {}
      OBVIOUS
    <3>1. CASE h = d
      BY <1>5, <3>1
    <3>2. CASE h # d
      BY <1>1, <1>3, <1>4, <2>4, <2>5, <3>2 DEF OwnLinks
    <3> QED
      BY <3>1, <3>2
  <2>7. /\ Shortest(n, known, table'[n]) /\ Follows(n, ports'[n], table'[n], fwd'[n])
        /\ \A m \in Nodes \ {n} : table'[m] = table[m] /\ fwd'[m] = fwd[m]
        /\ table' \in [Nodes -> [Nodes -> Route]]
        /\ fwd' \in [Nodes -> FwdTable]
    <3>1. Follows(n, ports[n], table[n], fwd[n])
      BY <1>1 DEF Current
    <3> QED
      BY <1>1, <1>3, <2>1, <2>5, <2>6, <3>1, RecomputeFollows
  <2>8. /\ netState' \in [Nodes -> [Nodes -> LinkEntry]]
        /\ netState'[n] = known
        /\ \A m \in Nodes \ {n} : netState'[m] = netState[m]
        /\ secId' \in [Nodes -> Nat] /\ secId'[n] = secId[n] + 1
        /\ \A m \in Nodes \ {n} : secId'[m] = secId[m]
    <3>1. netState \in [Nodes -> [Nodes -> LinkEntry]] /\ secId \in [Nodes -> Nat]
      BY <1>1 DEF TypeOK
    <3>2. netState' = [netState EXCEPT ![n] = known] /\ secId' = [secId EXCEPT ![n] = @ + 1]
      BY <2>1
    <3>3. /\ netState' \in [Nodes -> [Nodes -> LinkEntry]]
          /\ netState'[n] = known
          /\ \A m \in Nodes \ {n} : netState'[m] = netState[m]
      BY <2>5, <3>1, <3>2
    <3> QED
      BY <3>1, <3>2, <3>3
  <2>9. TypeOK'
    <3>1. lastChanges' \in [Nodes -> SUBSET Nodes] /\ scheduledUpdate' \in [Nodes -> BOOLEAN]
      BY <1>1, <2>1 DEF TypeOK
    <3> QED
      BY <1>1, <1>2, <1>3, <2>7, <2>8, <3>1 DEF TypeOK
  <2>10. /\ \A m \in Nodes : netState'[m][m].sId >= netState[m][m].sId
         /\ \A m \in Nodes : netState'[m][m] # netState[m][m]
                                => netState'[m][m].sId > netState[m][m].sId
    <3>1. netState'[n][n].sId > netState[n][n].sId
      BY <1>1, <2>2, <2>4, <2>5, <2>8 DEF OwnLinks
    <3>2. \A m \in Nodes \ {n} : netState'[m][m] = netState[m][m]
      BY <2>8
    <3>3. \A m \in Nodes : netState[m][m].sId \in Nat /\ netState'[m][m].sId \in Nat
      <4>1. ASSUME NEW m \in Nodes PROVE netState[m][m] \in LinkEntry /\ netState'[m][m] \in LinkEntry
        BY <1>1, <2>8 DEF TypeOK
      <4> QED
        BY <4>1 DEF LinkEntry
    <3> QED
      BY <3>1, <3>2, <3>3
  <2>11. ASSUME NEW m \in Nodes, NEW e, Agrees(e, m), e.sId \in Nat PROVE Agrees(e, m)'
    <3>1. netState[m][m].sId \in Nat /\ netState'[m][m].sId \in Nat
      <4>1. netState[m][m] \in LinkEntry /\ netState'[m][m] \in LinkEntry
        BY <1>1, <2>8 DEF TypeOK
      <4> QED
        BY <4>1 DEF LinkEntry
    <3> QED
      BY <2>10, <2>11, <3>1 DEF Agrees
  <2>12. OneEntryPerNumber'
    <3>1. ASSUME NEW b, NEW m \in Nodes, b \in Nodes PROVE Agrees(netState[b][m], m)'
      <4>1. CASE b = n /\ m = n
        BY <4>1 DEF Agrees
      <4>2. CASE ~(b = n /\ m = n)
        <5>1. netState'[b][m] = netState[b][m]
          BY <2>5, <2>8, <3>1, <4>2
        <5>2. Agrees(netState[b][m], m) /\ netState[b][m].sId \in Nat
          BY <1>1, <3>1, EntriesType DEF OneEntryPerNumber
        <5>3. netState[b][m].sId < netState'[m][m].sId \/ netState[b][m] = netState'[m][m]
          BY <2>10, <5>2, <2>11 DEF Agrees
        <5> QED
          BY <5>1, <5>3 DEF Agrees
      <4> QED
        BY <4>1, <4>2
    <3>2. ASSUME NEW u \in updates, NEW m \in DOMAIN u.entries
          PROVE  /\ u.entries[m].sId < netState'[m][m].sId \/ u.entries[m] = netState'[m][m]
      <4>1. m \in Nodes /\ u.entries[m] \in LinkEntry /\ Agrees(u.entries[m], m)
        BY <1>1 DEF TypeOK, OneEntryPerNumber
      <4>2. u.entries[m].sId \in Nat
        BY <4>1 DEF LinkEntry
      <4> QED
        BY <2>11, <4>1, <4>2 DEF Agrees
    <3>3. \A b, m \in Nodes : Agrees(netState[b][m], m)'
      BY <3>1
    <3>4. \A u \in updates' : \A m \in DOMAIN u.entries :
             u.entries[m].sId < netState'[m][m].sId \/ u.entries[m] = netState'[m][m]
      BY <1>2, <3>2
    <3> QED
      BY <3>3, <3>4 DEF OneEntryPerNumber, Agrees
  <2>13. ASSUME NEW m \in Nodes PROVE OwnLinks(m)' /\ Current(m)'
    <3>1. CASE m = n
      <4>1. OwnLinks(m)'
        BY <2>2, <2>4, <2>5, <2>6, <2>8, <3>1 DEF OwnLinks
      <4> QED
        BY <2>7, <2>8, <3>1, <4>1 DEF Current
    <3>2. CASE m # n
      <4>1. OwnLinks(m) /\ Current(m)
        BY <1>1
      <4> QED
        BY <1>3, <2>7, <2>8, <3>2, <4>1 DEF OwnLinks, Current
    <3> QED
      BY <3>1, <3>2
  <2>14. Newer
    <3> SUFFICES ASSUME NEW b \in Nodes, NEW m \in Nodes
                 PROVE  netState'[b][m].sId >= netState[b][m].sId
      BY DEF Newer
    <3>1. CASE b = n /\ m = n
      BY <2>10, <3>1
    <3>2. CASE ~(b = n /\ m = n)
      <4>1. netState'[b][m] = netState[b][m] /\ netState[b][m].sId \in Nat
        BY <1>1, <2>5, <2>8, <3>2, EntriesType
      <4> QED
        BY <4>1
    <3> QED
      BY <3>1, <3>2
  <2> QED
    BY <2>9, <2>12, <2>13, <2>14 DEF IInv
<1> QED
  BY <1>6, <1>7

LEMMA SendKeeps ==
    ASSUME IInv, NEW n \in Nodes, Time2Update(n)
    PROVE  IInv' /\ Newer
<1>1. /\ TypeOK /\ OneEntryPerNumber
      /\ \A m \in Nodes : OwnLinks(m) /\ Current(m)
  BY DEF IInv
<1>2. /\ updates' = updates \union UpdatesOf(n)
      /\ lastChanges' = [lastChanges EXCEPT ![n] = {}]
      /\ scheduledUpdate' = [scheduledUpdate EXCEPT ![n] = FALSE]
      /\ UNCHANGED <<config, ports, secId, netState, table, fwd>>
  BY DEF Time2Update
<1>3. ASSUME NEW u \in UpdatesOf(n)
      PROVE  /\ {u.src, u.dst} \subseteq Nodes /\ u.over \subseteq Flows
             /\ DOMAIN u.entries \subseteq Nodes
             /\ \A m \in DOMAIN u.entries : u.entries[m] \in LinkEntry /\ Agrees(u.entries[m], m)
  <2>1. PICK d \in Neighbours(n) :
           /\ Reaches(fwd, n, d)
           /\ u = [src |-> n, dst |-> d, over |-> Crossed(fwd, n, d),
                   entries |-> [m \in lastChanges[n] |-> netState[n][m]]]
    BY DEF UpdatesOf
  <2>2. d \in Nodes
    BY DEF Neighbours
  <2>3. u.over \subseteq Flows
    BY <1>1, <2>1, <2>2, CrossesFlows DEF TypeOK
  <2>4. lastChanges[n] \subseteq Nodes
    BY <1>1 DEF TypeOK
  <2>5. DOMAIN u.entries = lastChanges[n] /\ \A m \in lastChanges[n] : u.entries[m] = netState[n][m]
    BY <2>1
  <2>6. \A m \in Nodes : netState[n][m] \in LinkEntry /\ Agrees(netState[n][m], m)
    BY <1>1, EntriesType DEF OneEntryPerNumber
  <2> QED
    BY <2>1, <2>2, <2>3, <2>4, <2>5, <2>6
<1>4. TypeOK'
  <2>1. lastChanges' \in [Nodes -> SUBSET Nodes] /\ scheduledUpdate' \in [Nodes -> BOOLEAN]
    BY <1>1, <1>2 DEF TypeOK
  <2>2. \A u \in updates' :
          /\ {u.src, u.dst} \subseteq Nodes /\ u.over \subseteq Flows
          /\ DOMAIN u.entries \subseteq Nodes
          /\ \A m \in DOMAIN u.entries : u.entries[m] \in LinkEntry
    BY <1>1, <1>2, <1>3 DEF TypeOK
  <2> QED
    BY <1>1, <1>2, <2>1, <2>2 DEF TypeOK
<1>5. OneEntryPerNumber'
  <2>1. \A u \in updates' : \A m \in DOMAIN u.entries : Agrees(u.entries[m], m)
    BY <1>1, <1>2, <1>3 DEF OneEntryPerNumber
  <2> QED
    BY <1>1, <1>2, <2>1 DEF OneEntryPerNumber, Agrees
<1>6. ASSUME NEW m \in Nodes PROVE OwnLinks(m)' /\ Current(m)'
  <2>1. OwnLinks(m) /\ Current(m)
    BY <1>1
  <2> QED
    BY <1>2, <2>1 DEF OwnLinks, Current
<1>7. Newer
  BY <1>1, <1>2, EntriesType DEF Newer
<1> QED
  BY <1>4, <1>5, <1>6, <1>7 DEF IInv

(* An update never says anything new of its receiver, so that what the     *)
(* entries in flight are compared with stays.                              *)
LEMMA ReceiveKeeps ==
    ASSUME IInv, NEW u \in updates, ReceiveUpdate(u)
    PROVE  IInv' /\ Newer
<1> DEFINE n == u.dst
           new == News(netState[n], u.entries)
           known == [m \in Nodes |-> IF m \in new THEN u.entries[m] ELSE netState[n][m]]
           pending == ToPassOn(n, new)
<1>1. /\ TypeOK /\ OneEntryPerNumber
      /\ \A m \in Nodes : OwnLinks(m) /\ Current(m)
  BY DEF IInv
<1>2. /\ updates' = updates \ {u}
      /\ netState' = [netState EXCEPT ![n] = known]
      /\ lastChanges' = [lastChanges EXCEPT ![n] = pending]
      /\ IF pending # {}
         THEN /\ scheduledUpdate' = [scheduledUpdate EXCEPT ![n] = TRUE]
              /\ Recompute(n, known, ports[n])
         ELSE UNCHANGED <<scheduledUpdate, table, fwd>>
      /\ UNCHANGED <<config, ports, secId>>
  BY DEF ReceiveUpdate
<1>3. /\ n \in Nodes /\ DOMAIN u.entries \subseteq Nodes
      /\ \A m \in DOMAIN u.entries : u.entries[m] \in LinkEntry /\ Agrees(u.entries[m], m)
  BY <1>1 DEF TypeOK, OneEntryPerNumber
<1>4. new \subseteq DOMAIN u.entries /\ \A m \in new : netState[n][m].sId < u.entries[m].sId
  BY DEF News
<1>5. \A b, m \in Nodes : netState[b][m] \in LinkEntry /\ netState[b][m].sId \in Nat
  <2>1. \A b, m \in Nodes : netState[b][m] \in LinkEntry
    BY <1>1 DEF TypeOK
  <2> QED
    BY <2>1 DEF LinkEntry
<1>6. n \notin new
  <2> SUFFICES ASSUME n \in new PROVE FALSE
    OBVIOUS
  <2>1. netState[n][n].sId < u.entries[n].sId /\ u.entries[n] \in LinkEntry
        /\ Agrees(u.entries[n], n)
    BY <1>3, <1>4
  <2>2. u.entries[n].sId \in Nat /\ netState[n][n].sId \in Nat
    BY <1>3, <1>5, <2>1 DEF LinkEntry
  <2> QED
    BY <2>1, <2>2 DEF Agrees
<1> HIDE DEF n, new
<1>7. /\ known \in [Nodes -> LinkEntry]
      /\ \A m \in new : known[m] = u.entries[m]
      /\ \A m \in Nodes \ new : known[m] = netState[n][m]
  BY <1>3, <1>4, <1>5
<1> HIDE DEF known
<1>8. /\ netState' \in [Nodes -> [Nodes -> LinkEntry]]
      /\ netState'[n] = known
      /\ \A m \in Nodes \ {n} : netState'[m] = netState[m]
  <2>1. netState \in [Nodes -> [Nodes -> LinkEntry]]
    BY <1>1 DEF TypeOK
  <2>2. netState' = [netState EXCEPT ![n] = known]
    BY <1>2
  <2> QED
    BY <1>3, <1>7, <2>1, <2>2
<1>9. \A m \in Nodes : netState'[m][m] = netState[m][m]
  BY <1>3, <1>6, <1>7, <1>8
<1>10. /\ Shortest(n, known, table'[n]) /\ Follows(n, ports[n], table'[n], fwd'[n])
       /\ \A m \in Nodes \ {n} : table'[m] = table[m] /\ fwd'[m] = fwd[m]
       /\ table' \in [Nodes -> [Nodes -> Route]]
       /\ fwd' \in [Nodes -> FwdTable]
       /\ scheduledUpdate' \in [Nodes -> BOOLEAN]
  <2>1. Shortest(n, netState[n], table[n]) /\ Follows(n, ports[n], table[n], fwd[n])
    BY <1>1, <1>3 DEF Current
  <2>2. CASE pending # {}
    <3>1. Recompute(n, known, ports[n]) /\ scheduledUpdate' = [scheduledUpdate EXCEPT ![n] = TRUE]
      BY <1>2, <2>2
    <3>2. \A d \in Nodes : known[n].links[d] # 0 => PortsTo(ports[n], n, d) # {}
      BY <1>1, <1>3, <1>6, <1>7 DEF OwnLinks
    <3>3. scheduledUpdate' \in [Nodes -> BOOLEAN]
      BY <1>1, <3>1 DEF TypeOK
    <3>4. ports[n] \in SUBSET Flows
      BY <1>1, <1>3, EntriesType
    <3> QED
      BY <1>1, <1>3, <1>7, <2>1, <3>1, <3>2, <3>3, <3>4, RecomputeFollows
  <2>3. CASE pending = {}
    <3>1. UNCHANGED <<scheduledUpdate, table, fwd>>
      BY <1>2, <2>3
    <3>2. new = {}
      BY <2>3 DEF ToPassOn
    <3>3. known = netState[n]
      <4>1. netState[n] \in [Nodes -> LinkEntry]
        BY <1>1, <1>3, EntriesType
      <4> QED
        BY <1>7, <3>2, <4>1
    <3> QED
      BY <1>1, <2>1, <3>1, <3>3 DEF TypeOK
  <2> QED
    BY <2>2, <2>3
<1>11. TypeOK'
  <2>1. pending \subseteq Nodes
    BY <1>1, <1>3, <1>4 DEF ToPassOn, TypeOK
  <2> HIDE DEF pending
  <2>2. lastChanges' \in [Nodes -> SUBSET Nodes]
    BY <1>1, <1>2, <2>1 DEF TypeOK
  <2> QED
    BY <1>1, <1>2, <1>8, <1>10, <2>2 DEF TypeOK
<1>12. OneEntryPerNumber'
  <2>1. ASSUME NEW b \in Nodes, NEW m \in Nodes
        PROVE  netState'[b][m].sId < netState'[m][m].sId \/ netState'[b][m] = netState'[m][m]
    <3>1. netState'[b][m] = netState[b][m] \/ (m \in new /\ netState'[b][m] = u.entries[m])
      BY <1>7, <1>8
    <3>2. Agrees(netState[b][m], m)
      BY <1>1 DEF OneEntryPerNumber
    <3>3. m \in new => Agrees(u.entries[m], m)
      BY <1>3, <1>4
    <3> QED
      BY <1>9, <3>1, <3>2, <3>3 DEF Agrees
  <2>2. ASSUME NEW v \in updates', NEW m \in DOMAIN v.entries
        PROVE  v.entries[m].sId < netState'[m][m].sId \/ v.entries[m] = netState'[m][m]
    <3>1. v \in updates
      BY <1>2
    <3>2. m \in Nodes /\ Agrees(v.entries[m], m)
      BY <1>1, <3>1 DEF TypeOK, OneEntryPerNumber
    <3> QED
      BY <1>9, <3>2 DEF Agrees
  <2> QED
    BY <2>1, <2>2 DEF OneEntryPerNumber, Agrees
<1>13. ASSUME NEW m \in Nodes PROVE OwnLinks(m)' /\ Current(m)'
  <2>1. OwnLinks(m) /\ Current(m)
    BY <1>1
  <2>2. OwnLinks(m)'
    BY <1>2, <1>9, <2>1 DEF OwnLinks
  <2>3. CASE m = n
    BY <1>2, <1>8, <1>10, <2>2, <2>3 DEF Current
  <2>4. CASE m # n
    BY <1>2, <1>8, <1>10, <2>1, <2>2, <2>4 DEF Current
  <2> QED
    BY <2>3, <2>4
<1>14. Newer
  <2> SUFFICES ASSUME NEW b \in Nodes, NEW m \in Nodes
               PROVE  netState'[b][m].sId >= netState[b][m].sId
    BY DEF Newer
  <2>1. CASE b = n /\ m \in new
    <3>1. netState[n][m].sId < u.entries[m].sId /\ u.entries[m] \in LinkEntry
          /\ netState'[b][m] = u.entries[m]
      BY <1>3, <1>4, <1>7, <1>8, <2>1
    <3>2. u.entries[m].sId \in Nat /\ netState[n][m].sId \in Nat
      BY <1>3, <1>5, <3>1 DEF LinkEntry
    <3> QED
      BY <2>1, <3>1, <3>2
  <2>2. CASE ~(b = n /\ m \in new)
    <3>1. netState'[b][m] = netState[b][m] /\ netState[b][m].sId \in Nat
      BY <1>5, <1>7, <1>8, <2>2
    <3> QED
      BY <3>1
  <2> QED
    BY <2>1, <2>2
<1> QED
  BY <1>11, <1>12, <1>13, <1>14 DEF IInv

LEMMA InvNext ==
    ASSUME IInv, [Next]_vars
    PROVE  IInv' /\ Newer
<1>1. CASE InsertFlows
  BY <1>1, InsertKeeps DEF InsertFlows
<1>2. CASE \E n \in Nodes : Time2Update(n)
  BY <1>2, SendKeeps
<1>3. CASE \E u \in updates : ReceiveUpdate(u)
  BY <1>3, ReceiveKeeps
<1>4. CASE UNCHANGED vars
  <2>1. TypeOK /\ OneEntryPerNumber /\ \A n \in Nodes : OwnLinks(n) /\ Current(n)
    BY DEF IInv
  <2>2. Newer
    BY <1>4, <2>1, EntriesType DEF Newer, vars
  <2>3. TypeOK' /\ OneEntryPerNumber'
    BY <1>4, <2>1 DEF TypeOK, OneEntryPerNumber, Agrees, vars
  <2>4. \A n \in Nodes : OwnLinks(n)' /\ Current(n)'
    BY <1>4, <2>1 DEF OwnLinks, Current, vars
  <2> QED
    BY <2>2, <2>3, <2>4 DEF IInv
<1> QED
  BY <1>1, <1>2, <1>3, <1>4 DEF Next, Done

-----------------------------------------------------------------------------
(* The inductive invariant holds of every state of every flooding. *)
THEOREM Invariance == Spec => []IInv
<1>1. Init => IInv
  BY InvInit
<1>2. IInv /\ [Next]_vars => IInv'
  BY InvNext
<1> QED
  BY <1>1, <1>2, PTL DEF Spec

(* Wherever the entry of a process is, its number says which of the        *)
(* entries of that process it is: processUpdate compares sId only.         *)
THEOREM EntriesAlwaysAgree == Spec => []EntriesAgree
<1>1. IInv => EntriesAgree
  BY DEF IInv, EntriesAgree
<1> QED
  BY <1>1, Invariance, PTL

(* Between any two events every process has the shortest ways over the     *)
(* links it knows, and its forwarding table leads along them, although it  *)
(* is told of differences only (getChanges, routingUpdated).               *)
THEOREM ForwardingIsAlwaysCurrent == Spec => []ForwardingIsCurrent
<1>1. IInv => ForwardingIsCurrent
  <2> SUFFICES ASSUME IInv, NEW n \in Nodes
               PROVE  /\ Solves(n, netState[n], table[n])
                      /\ \A d \in Nodes \ {n} :
                            IF table[n][d].nh = {} THEN fwd[n][d] = NoPort
                            ELSE fwd[n][d] \in PortsTo(ports[n], n, Min(table[n][d].nh))
    BY DEF ForwardingIsCurrent
  <2>1. Current(n)
    BY DEF IInv
  <2> QED
    BY <2>1 DEF Current, Shortest, Follows
<1> QED
  BY <1>1, Invariance, PTL

(* No process goes back to an older entry, in whatever order updates come. *)
THEOREM EntriesNeverOlder == Spec => NeverOlder
<1>1. IInv /\ [Next]_vars => [\A n, m \in Nodes : netState'[n][m].sId >= netState[n][m].sId]_netState
  BY InvNext DEF Newer
<1> QED
  BY <1>1, Invariance, PTL DEF Spec, NeverOlder

-----------------------------------------------------------------------------
(* Distances are worked out without tables, over twice as many links at a  *)
(* time. What the tables say is as much if it obeys two laws of shortest   *)
(* ways: no one is farther than a neighbour is and one more, and whoever   *)
(* is away has a neighbour that is nearer.                                 *)
Lengths == [Nodes -> [Nodes -> Nat]]

Squared(c) ==
    [a \in Nodes |-> [d \in Nodes |->
        Min({c[a][b] + c[b][d] : b \in Nodes} \union {UINT16_MAX})]]

Doubled(within, w) ==
    /\ within \in [1 .. Cardinality(Nodes) -> Lengths]
    /\ within[1] = w
    /\ \A k \in 2 .. Cardinality(Nodes) : within[k] = Squared(within[k - 1])

(* w has the links, of metric 1. *)
HopLinks(w) ==
    /\ w \in Lengths
    /\ \A a, d \in Nodes : /\ w[a][d] \in {0, 1, UINT16_MAX}
                           /\ w[a][d] = 0 <=> a = d

(* T has the distances below inf. *)
NoDetour(w, T, inf) ==
    \A a, s, d \in Nodes : w[a][s] = 1 /\ 1 + T[s][d] < inf => T[a][d] <= 1 + T[s][d]

WayOn(w, T, inf) ==
    \A a, d \in Nodes : a # d /\ T[a][d] < inf =>
        \E s \in Nodes : w[a][s] = 1 /\ T[s][d] < T[a][d]

ShortestOver(w, T, inf) ==
    /\ T \in Lengths
    /\ \A a \in Nodes : T[a][a] = 0
    /\ NoDetour(w, T, inf)
    /\ WayOn(w, T, inf)

LEMMA SquaredIsLeast ==
    ASSUME NEW c \in Lengths, NEW a \in Nodes, NEW d \in Nodes
    PROVE  /\ Squared(c)[a][d] \in Nat
           /\ \A b \in Nodes : Squared(c)[a][d] <= c[a][b] + c[b][d]
           /\ \/ Squared(c)[a][d] = UINT16_MAX
              \/ \E b \in Nodes : Squared(c)[a][d] = c[a][b] + c[b][d]
<1> DEFINE X == {c[a][b] + c[b][d] : b \in Nodes} \union {UINT16_MAX}
<1>1. \A b \in Nodes : c[a][b] + c[b][d] \in Nat
  BY DEF Lengths
<1>2. X \in SUBSET Nat /\ X # {}
  BY <1>1, MaxIsNatural
<1>3. Squared(c)[a][d] = Min(X)
  BY DEF Squared
<1>4. /\ Min(X) \in X
      /\ \A x \in X : Min(X) <= x
  <2> HIDE DEF X
  <2> QED
    BY <1>2, MinOfNats
<1> QED
  BY <1>2, <1>3, <1>4

LEMMA SquaredType ==
    ASSUME NEW c \in Lengths
    PROVE  Squared(c) \in Lengths
<1>1. \A a, d \in Nodes : Squared(c)[a][d] \in Nat
  BY SquaredIsLeast
<1>2. Squared(c) = [a \in Nodes |-> Squared(c)[a]]
  BY DEF Squared
<1>3. \A a \in Nodes : Squared(c)[a] = [d \in Nodes |-> Squared(c)[a][d]]
  BY DEF Squared
<1> HIDE DEF Squared
<1> QED
  BY <1>1, <1>2, <1>3 DEF Lengths

(* No way over b is shorter than T says. *)
LEMMA Triangle ==
    ASSUME NEW w, HopLinks(w), NEW T, NEW inf \in Nat, ShortestOver(w, T, inf),
           NEW a \in Nodes, NEW b \in Nodes, NEW d \in Nodes, T[a][b] + T[b][d] < inf
    PROVE  T[a][d] <= T[a][b] + T[b][d]
<1> DEFINE Good(x) == T[x][b] + T[b][d] < inf => T[x][d] <= T[x][b] + T[b][d]
           S == {h \in Nat : \A x \in Nodes : T[x][b] <= h => Good(x)}
<1>1. \A x, y \in Nodes : T[x][y] \in Nat
  BY DEF ShortestOver, Lengths
<1>2. ASSUME NEW x \in Nodes, NEW h \in Nat, T[x][b] <= h,
             h = 0 \/ \A y \in Nodes : T[y][b] <= h - 1 => Good(y)
      PROVE  Good(x)
  <2> SUFFICES ASSUME T[x][b] + T[b][d] < inf
               PROVE  T[x][d] <= T[x][b] + T[b][d]
    OBVIOUS
  <2>1. CASE x = b
    BY <1>1, <2>1
  <2>2. CASE x # b
    <3>1. T[x][b] < inf
      BY <1>1
    <3>2. PICK s \in Nodes : w[x][s] = 1 /\ T[s][b] < T[x][b]
      BY <2>2, <3>1 DEF ShortestOver, WayOn
    <3>3. h # 0 /\ T[s][b] <= h - 1
      BY <1>1, <1>2, <3>2
    <3>4. T[s][b] + T[b][d] < inf
      BY <1>1, <3>2
    <3>5. T[s][d] <= T[s][b] + T[b][d]
      BY <1>2, <3>3, <3>4
    <3>6. 1 + T[s][d] < inf
      BY <1>1, <3>2, <3>5
    <3>7. T[x][d] <= 1 + T[s][d]
      BY <3>2, <3>6 DEF ShortestOver, NoDetour
    <3> QED
      BY <1>1, <3>2, <3>5, <3>7
  <2> QED
    BY <2>1, <2>2
<1>3. 0 \in S
  BY <1>2
<1>4. ASSUME NEW k \in 0 .. (inf - 1), k \in S PROVE k + 1 \in S
  <2>1. \A y \in Nodes : T[y][b] <= (k + 1) - 1 => Good(y)
    BY <1>4
  <2> HIDE DEF Good
  <2>2. \A x \in Nodes : T[x][b] <= k + 1 => Good(x)
    BY <1>2, <2>1
  <2> QED
    BY <2>2
<1>5. 0 .. inf \subseteq S
  <2> HIDE DEF S
  <2> QED
    BY <1>3, <1>4, UpTo
<1>6. T[a][b] \in 0 .. inf
  BY <1>1
<1>7. T[a][b] \in S
  BY <1>5, <1>6
<1>8. Good(a)
  <2> HIDE DEF Good
  <2> QED
    BY <1>1, <1>7
<1> QED
  BY <1>8

(* There are more nodes than links on a shortest way. *)
LEMMA WaysAreShort ==
    ASSUME NEW w, NEW T, NEW inf \in Nat, ShortestOver(w, T, inf),
           NEW a \in Nodes, NEW d \in Nodes, T[a][d] < inf
    PROVE  T[a][d] + 1 <= Cardinality(Nodes)
<1> DEFINE r == T[a][d]
           f == [x \in Nodes |-> T[x][d]]
           R == {T[x][d] : x \in Nodes}
           S == {i \in Nat : i <= r => r - i \in R}
<1>1. \A x, y \in Nodes : T[x][y] \in Nat
  BY DEF ShortestOver, Lengths
<1>2. 0 \in S
  BY <1>1
<1>3. ASSUME NEW i \in 0 .. (r - 1), i \in S PROVE i + 1 \in S
  <2>a. r \in Nat /\ i \in Nat /\ i <= r
    BY <1>1
  <2>b. r - i \in R
    BY <1>3, <2>a
  <2>1. PICK x \in Nodes : T[x][d] = r - i
    BY <2>b
  <2>2. x # d
    BY <1>1, <1>3, <2>1 DEF ShortestOver
  <2>3. PICK s \in Nodes : w[x][s] = 1 /\ T[s][d] < T[x][d]
    BY <1>1, <2>1, <2>2 DEF ShortestOver, WayOn
  <2>4. T[x][d] <= 1 + T[s][d]
    BY <1>1, <2>1, <2>3 DEF ShortestOver, NoDetour
  <2>5. T[s][d] = r - (i + 1)
    BY <1>1, <2>1, <2>3, <2>4
  <2> QED
    BY <2>5
<1>4. 0 .. r \subseteq S
  <2> HIDE DEF S
  <2> QED
    BY <1>1, <1>2, <1>3, UpTo
<1>5. 0 .. r \subseteq R
  <2> SUFFICES ASSUME NEW j \in 0 .. r PROVE j \in R
    OBVIOUS
  <2>1. r - j \in 0 .. r /\ r - (r - j) = j
    BY <1>1
  <2>2. r - j \in S
    BY <1>4, <2>1
  <2> HIDE DEF R
  <2> QED
    BY <2>1, <2>2
<1>6. f \in Surjection(Nodes, R)
  BY DEF Surjection
<1>7. IsFiniteSet(R) /\ Cardinality(R) <= Cardinality(Nodes)
  <2> HIDE DEF f, R
  <2> QED
    BY <1>6, NodesAssumption, FS_Surjection
<1>8. Cardinality(0 .. r) = r + 1 /\ Cardinality(0 .. r) <= Cardinality(R)
  <2>1. r \in Nat
    BY <1>1
  <2> HIDE DEF R, r
  <2> QED
    BY <1>5, <1>7, <2>1, FS_Interval, FS_Subset
<1>9. Cardinality(R) \in Nat
  BY <1>7, FS_CardinalityType
<1> QED
  BY <1>1, <1>7, <1>8, <1>9, NumberOfNodes

(* c is nowhere below T, and not above where T is at most k. *)
Below(c, T, inf) == \A a, d \in Nodes : c[a][d] < inf => T[a][d] <= c[a][d]
Above(c, T, inf, k) == \A a, d \in Nodes : T[a][d] < inf /\ T[a][d] <= k => c[a][d] <= T[a][d]

LEMMA LinksAreBetween ==
    ASSUME NEW w, HopLinks(w), NEW T, NEW inf \in 1 .. UINT16_MAX, ShortestOver(w, T, inf)
    PROVE  Below(w, T, inf) /\ Above(w, T, inf, 1)
<1>1. \A x, y \in Nodes : T[x][y] \in Nat /\ w[x][y] \in Nat
  BY DEF ShortestOver, HopLinks, Lengths
<1>2. inf \in Nat /\ inf <= UINT16_MAX /\ UINT16_MAX \in Nat
  BY MaxIsNatural
<1>3. ASSUME NEW a \in Nodes, NEW d \in Nodes, w[a][d] < inf
      PROVE  T[a][d] <= w[a][d]
  <2>1. w[a][d] = 0 \/ w[a][d] = 1
    BY <1>1, <1>2, <1>3 DEF HopLinks
  <2>2. CASE w[a][d] = 0
    BY <2>2 DEF HopLinks, ShortestOver
  <2>3. CASE w[a][d] = 1
    <3>1. T[d][d] = 0
      BY DEF ShortestOver
    <3>2. 1 + T[d][d] < inf
      BY <1>3, <2>3, <3>1
    <3> QED
      BY <2>3, <3>1, <3>2 DEF ShortestOver, NoDetour
  <2> QED
    BY <2>1, <2>2, <2>3
<1>4. ASSUME NEW a \in Nodes, NEW d \in Nodes, T[a][d] < inf, T[a][d] <= 1
      PROVE  w[a][d] <= T[a][d]
  <2>1. CASE a = d
    BY <2>1 DEF HopLinks, ShortestOver
  <2>2. CASE a # d
    <3>1. PICK s \in Nodes : w[a][s] = 1 /\ T[s][d] < T[a][d]
      BY <1>4, <2>2 DEF ShortestOver, WayOn
    <3>2. T[s][d] = 0 /\ T[a][d] = 1
      BY <1>1, <1>4, <3>1
    <3>3. s = d
      <4>1. ASSUME s # d PROVE FALSE
        <5>1. PICK x \in Nodes : T[x][d] < T[s][d]
          BY <1>2, <3>2, <4>1 DEF ShortestOver, WayOn
        <5> QED
          BY <1>1, <3>2, <5>1
      <4> QED
        BY <4>1
    <3> QED
      BY <3>1, <3>2, <3>3
  <2> QED
    BY <2>1, <2>2
<1> QED
  BY <1>3, <1>4 DEF Below, Above

LEMMA SquaredIsBetween ==
    ASSUME NEW w, HopLinks(w), NEW T, NEW inf \in 1 .. UINT16_MAX, ShortestOver(w, T, inf),
           NEW c \in Lengths, NEW k \in Nat, k >= 1, Below(c, T, inf), Above(c, T, inf, k)
    PROVE  Below(Squared(c), T, inf) /\ Above(Squared(c), T, inf, k + 1)
<1>1. \A x, y \in Nodes : T[x][y] \in Nat /\ c[x][y] \in Nat
  BY DEF ShortestOver, Lengths
<1>2. inf \in Nat /\ inf >= 1 /\ inf <= UINT16_MAX /\ UINT16_MAX \in Nat
  BY MaxIsNatural
<1>3. ASSUME NEW a \in Nodes, NEW d \in Nodes, Squared(c)[a][d] < inf
      PROVE  T[a][d] <= Squared(c)[a][d]
  <2>1. PICK b \in Nodes : Squared(c)[a][d] = c[a][b] + c[b][d]
    BY <1>2, <1>3, SquaredIsLeast
  <2>2. c[a][b] < inf /\ c[b][d] < inf
    BY <1>1, <1>2, <1>3, <2>1
  <2>3. T[a][b] <= c[a][b] /\ T[b][d] <= c[b][d]
    BY <2>2 DEF Below
  <2>4. T[a][b] + T[b][d] < inf
    BY <1>1, <1>2, <1>3, <2>1, <2>3
  <2>5. T[a][d] <= T[a][b] + T[b][d]
    BY <1>2, <2>4, Triangle
  <2> QED
    BY <1>1, <2>1, <2>3, <2>5
<1>4. ASSUME NEW a \in Nodes, NEW d \in Nodes, T[a][d] < inf, T[a][d] <= k + 1
      PROVE  Squared(c)[a][d] <= T[a][d]
  <2>1. Squared(c)[a][d] \in Nat /\ \A b \in Nodes : Squared(c)[a][d] <= c[a][b] + c[b][d]
    BY SquaredIsLeast
  <2>2. CASE T[a][d] <= k
    <3>1. c[a][d] <= T[a][d]
      BY <1>4, <2>2 DEF Above
    <3>2. T[a][a] = 0
      BY DEF ShortestOver
    <3>3. c[a][a] <= 0
      BY <1>2, <3>2 DEF Above
    <3>4. Squared(c)[a][d] <= c[a][a] + c[a][d]
      BY <2>1
    <3> QED
      BY <1>1, <2>1, <3>1, <3>3, <3>4
  <2>3. CASE T[a][d] = k + 1
    <3>1. a # d
      BY <2>3 DEF ShortestOver
    <3>2. PICK s \in Nodes : w[a][s] = 1 /\ T[s][d] < T[a][d]
      BY <1>4, <3>1 DEF ShortestOver, WayOn
    <3>3. T[s][s] = 0
      BY DEF ShortestOver
    <3>4. T[a][s] <= 1
      <4>1. 1 + T[s][s] < inf
        BY <1>2, <1>4, <2>3, <3>3
      <4>2. T[a][s] <= 1 + T[s][s]
        BY <3>2, <4>1 DEF ShortestOver, NoDetour
      <4> QED
        BY <3>3, <4>2
    <3>5. c[a][s] <= T[a][s]
      BY <1>1, <1>2, <1>4, <2>3, <3>4 DEF Above
    <3>6. c[s][d] <= T[s][d]
      BY <1>1, <1>2, <1>4, <2>3, <3>2 DEF Above
    <3>7. Squared(c)[a][d] <= c[a][s] + c[s][d]
      BY <2>1
    <3> QED
      BY <1>1, <2>1, <2>3, <3>2, <3>4, <3>5, <3>6, <3>7
  <2> QED
    BY <1>1, <1>4, <2>2, <2>3
<1> QED
  BY <1>3, <1>4 DEF Below, Above

LEMMA DoubledIsShortest ==
    ASSUME NEW w, HopLinks(w), NEW T, NEW inf \in 1 .. UINT16_MAX, ShortestOver(w, T, inf),
           NEW within, Doubled(within, w), NEW a \in Nodes, NEW d \in Nodes,
           NEW reach, reach = within[Cardinality(Nodes)]
    PROVE  T[a][d] < inf \/ reach[a][d] < inf => reach[a][d] = T[a][d]
<1> DEFINE N == Cardinality(Nodes)
           S == {i \in Nat : i + 1 <= N => Below(within[i + 1], T, inf) /\ Above(within[i + 1], T, inf, i + 1)}
<1>1. N \in Nat /\ N >= 1
  <2>1. N \in Nat
    BY NumberOfNodes
  <2>2. N # 0
    BY NodesAssumption, FS_EmptySet
  <2> QED
    BY <2>1, <2>2
<1> HIDE DEF N
<1>2. /\ within \in [1 .. N -> Lengths] /\ within[1] = w
      /\ \A k \in 2 .. N : within[k] = Squared(within[k - 1])
  BY DEF Doubled, N
<1>3. 0 \in S
  BY <1>2, LinksAreBetween
<1>4. ASSUME NEW i \in 0 .. ((N - 1) - 1), i \in S PROVE i + 1 \in S
  <2>1. i + 1 \in 1 .. N /\ i + 2 \in 2 .. N /\ i + 1 >= 1 /\ i + 1 \in Nat
    BY <1>1
  <2>2. within[i + 2] = Squared(within[i + 1])
    <3>1. within[i + 2] = Squared(within[(i + 2) - 1])
      BY <1>2, <2>1
    <3>2. (i + 2) - 1 = i + 1
      BY <2>1
    <3> QED
      BY <3>1, <3>2
  <2>3. within[i + 1] \in Lengths
    BY <1>2, <2>1
  <2>4. Below(within[i + 1], T, inf) /\ Above(within[i + 1], T, inf, i + 1)
    BY <1>1, <1>4, <2>1
  <2>5. Below(within[i + 2], T, inf) /\ Above(within[i + 2], T, inf, (i + 1) + 1)
    BY <2>1, <2>2, <2>3, <2>4, SquaredIsBetween
  <2>6. (i + 1) + 1 = i + 2
    BY <2>1
  <2> QED
    BY <2>1, <2>5, <2>6
<1>5. 0 .. (N - 1) \subseteq S
  <2> HIDE DEF S
  <2> QED
    BY <1>1, <1>3, <1>4, UpTo
<1>6. N - 1 \in S /\ (N - 1) + 1 = N
  <2> HIDE DEF S
  <2> QED
    BY <1>1, <1>5
<1>7. Below(reach, T, inf) /\ Above(reach, T, inf, N)
  BY <1>1, <1>6 DEF N
<1>8. T[a][d] \in Nat /\ reach[a][d] \in Nat
  <2>1. reach \in Lengths
    BY <1>1, <1>2 DEF N
  <2> QED
    BY <2>1 DEF ShortestOver, Lengths
<1>9. inf \in Nat
  BY MaxIsNatural
<1>10. CASE T[a][d] < inf
  <2>1. T[a][d] <= N
    <3>1. T[a][d] + 1 <= N
      BY <1>9, <1>10, WaysAreShort DEF N
    <3> QED
      BY <1>1, <1>8, <3>1
  <2>2. reach[a][d] <= T[a][d]
    BY <1>7, <1>10, <2>1 DEF Above
  <2>3. T[a][d] <= reach[a][d]
    BY <1>7, <1>8, <1>9, <1>10, <2>2 DEF Below
  <2> QED
    BY <1>8, <2>2, <2>3
<1>11. CASE reach[a][d] < inf
  <2>1. T[a][d] <= reach[a][d]
    BY <1>7, <1>11 DEF Below
  <2>2. T[a][d] < inf
    BY <1>8, <1>9, <1>11, <2>1
  <2> QED
    BY <1>10, <2>2
<1> QED
  BY <1>10, <1>11

(* The links ls, of metric 0 from a process to itself. *)
Direct(ls) ==
    [a \in Nodes |-> [d \in Nodes |->
        IF a = d THEN 0 ELSE IF ls[a].links[d] = 0 THEN UINT16_MAX ELSE ls[a].links[d]]]

LEMMA DistancesAreDoubled ==
    ASSUME NEW ls, Direct(ls) \in Lengths, Nodes # {}
    PROVE  \E within : /\ Doubled(within, Direct(ls))
                       /\ Distances(ls) = within[Cardinality(Nodes)]
<1> DEFINE N == Cardinality(Nodes)
           F == [c \in Lengths |-> Squared(c)]
           Is(within) == within = [k \in 1 .. N |-> IF k = 1 THEN Direct(ls) ELSE Squared(within[k - 1])]
<1>1. N \in Nat /\ N >= 1
  <2>1. N # 0
    BY NodesAssumption, FS_EmptySet
  <2> QED
    BY <2>1, NumberOfNodes
<1> HIDE DEF N
<1>2. Direct(ls) \in Lengths
  OBVIOUS
<1>3. F \in [Lengths -> Lengths]
  BY SquaredType
<1>4. PICK g : Iterates(g, N - 1, Lengths, Direct(ls), F)
  <2>1. N - 1 \in Nat
    BY <1>1
  <2> HIDE DEF F, Is
  <2> QED
    BY <1>2, <1>3, <2>1, Iteration
<1>5. /\ g \in [0 .. (N - 1) -> Lengths] /\ g[0] = Direct(ls)
      /\ \A k \in 1 .. (N - 1) : g[k] = F[g[k - 1]]
  BY <1>4 DEF Iterates
<1> DEFINE h == [k \in 1 .. N |-> g[k - 1]]
<1>6. Is(h)
  <2>1. ASSUME NEW k \in 1 .. N
        PROVE  h[k] = IF k = 1 THEN Direct(ls) ELSE Squared(h[k - 1])
    <3>1. CASE k = 1
      BY <1>1, <1>5, <3>1
    <3>2. CASE k # 1
      <4>1. k - 1 \in 1 .. (N - 1) /\ k - 1 \in 1 .. N /\ (k - 1) - 1 \in 0 .. (N - 1)
        BY <1>1, <3>2
      <4>2. h[k] = g[k - 1] /\ h[k - 1] = g[(k - 1) - 1]
        BY <4>1
      <4>3. g[k - 1] = F[g[(k - 1) - 1]] /\ g[(k - 1) - 1] \in Lengths
        <5> HIDE DEF F
        <5> QED
          BY <1>5, <4>1
      <4>4. F[g[(k - 1) - 1]] = Squared(g[(k - 1) - 1])
        BY <4>3
      <4> HIDE DEF h, F
      <4> QED
        BY <3>2, <4>2, <4>3, <4>4
    <3> QED
      BY <3>1, <3>2
  <2>2. h = [k \in 1 .. N |-> h[k]]
    OBVIOUS
  <2> HIDE DEF h
  <2> QED
    BY <2>1, <2>2
<1> DEFINE within == CHOOSE f : Is(f)
<1>7. Distances(ls) = within[N]
  BY DEF Distances, Direct, Squared, N
<1>8. Is(within)
  <2> HIDE DEF Is
  <2> QED
    BY <1>6, Zenon
<1> HIDE DEF within
<1>9. within = h
  <2> DEFINE S == {i \in Nat : i + 1 <= N => within[i + 1] = h[i + 1]}
  <2>1. \A k \in 1 .. N : within[k] = IF k = 1 THEN Direct(ls) ELSE Squared(within[k - 1])
    BY ONLY <1>8, Zenon
  <2>2. \A k \in 1 .. N : h[k] = IF k = 1 THEN Direct(ls) ELSE Squared(h[k - 1])
    <3> HIDE DEF h
    <3> QED
      BY ONLY <1>6, Zenon
  <2>3. 0 \in S
    <3>1. 1 \in 1 .. N /\ 0 + 1 = 1
      BY <1>1
    <3> HIDE DEF h
    <3>2. within[1] = Direct(ls) /\ h[1] = Direct(ls)
      BY <2>1, <2>2, <3>1
    <3> QED
      BY <3>1, <3>2
  <2>4. ASSUME NEW i \in 0 .. ((N - 1) - 1), i \in S PROVE i + 1 \in S
    <3>1. /\ i + 2 \in 1 .. N /\ i + 2 # 1 /\ (i + 2) - 1 = i + 1 /\ (i + 1) + 1 = i + 2
          /\ i + 1 <= N /\ i + 1 \in Nat
      BY <1>1
    <3> HIDE DEF h
    <3>2. within[i + 1] = h[i + 1]
      BY <2>4, <3>1
    <3>3. within[i + 2] = Squared(within[i + 1]) /\ h[i + 2] = Squared(h[i + 1])
      BY <2>1, <2>2, <3>1
    <3> QED
      BY <3>1, <3>2, <3>3
  <2>5. 0 .. (N - 1) \subseteq S
    <3> HIDE DEF S
    <3> QED
      BY <1>1, <2>3, <2>4, UpTo
  <2>6. ASSUME NEW k \in 1 .. N PROVE within[k] = h[k]
    <3>1. k - 1 \in 0 .. (N - 1) /\ (k - 1) + 1 = k
      BY <1>1
    <3>2. k - 1 \in S
      BY <2>5, <3>1
    <3> HIDE DEF h
    <3> QED
      BY <3>1, <3>2
  <2>7. within = [k \in 1 .. N |-> within[k]] /\ h = [k \in 1 .. N |-> h[k]]
    BY <1>8
  <2> HIDE DEF h
  <2> QED
    BY <2>6, <2>7
<1>10. Doubled(h, Direct(ls))
  <2>1. h \in [1 .. N -> Lengths]
    BY <1>1, <1>5
  <2>2. h[1] = Direct(ls) /\ \A k \in 2 .. N : h[k] = Squared(h[k - 1])
    <3>1. \A k \in 1 .. N : h[k] = IF k = 1 THEN Direct(ls) ELSE Squared(h[k - 1])
      <4> HIDE DEF h
      <4> QED
        BY ONLY <1>6, Zenon
    <3> HIDE DEF h
    <3> QED
      BY <1>1, <3>1
  <2> QED
    BY <2>1, <2>2 DEF Doubled, N
<1> QED
  BY <1>7, <1>9, <1>10 DEF N

-----------------------------------------------------------------------------
(* What a neighbour has been told, over hop counts. *)
HopCount == Generator = "SimpleGenerator"

(* A process has ports to flows that end there, and its own entry has a    *)
(* link, of metric 1, to whomever they lead to.                            *)
LinksArePorts ==
    \A n \in Nodes :
        /\ ports[n] \subseteq config.flows
        /\ \A f \in ports[n] : n \in Ends(f)
        /\ \A d \in Nodes :
              netState[n][n].links[d] = IF PortsTo(ports[n], n, d) = {} THEN 0 ELSE 1

ChangesAreScheduled == \A n \in Nodes : lastChanges[n] # {} => scheduledUpdate[n]

(* The entry of m that n has is known to its neighbour p, or a newer one,  *)
(* or p is still to hear of it.                                            *)
Passed(n, p, m) ==
    \/ m \in lastChanges[n]
    \/ netState[n][m].sId <= netState[p][m].sId
    \/ \E u \in updates : /\ u.dst = p /\ m \in DOMAIN u.entries
                          /\ netState[n][m].sId <= u.entries[m].sId

(* This is so of the own entry of n, and of the others' when the flows     *)
(* came up together: what n knew before it met p, p need not hear.         *)
NothingLeftOut ==
    \A n, p \in Nodes : PortsTo(ports[n], n, p) # {} =>
        \A m \in Nodes : m = n \/ config.together => Passed(n, p, m)

NobodyToldYet ==
    config.together /\ ~AllUp =>
        updates = {} /\ \A n, m \in Nodes : n # m => netState[n][m].sId = 0

Flooded == LinksArePorts /\ ChangesAreScheduled /\ NothingLeftOut /\ NobodyToldYet

LEMMA HopCountLinks ==
    ASSUME HopCount, NEW known, NEW n, NEW f, f \notin known
    PROVE  /\ LinkMetric(f) = 1
           /\ NewLink(known, n, f) <=> PortsTo(known, n, Peer(f, n)) = {}
  BY DEF HopCount, LinkMetric, NewLink, PortsTo

LEMMA PeerDiffers ==
    ASSUME NEW f \in Flows, NEW n \in Ends(f)
    PROVE  n \in Nodes /\ Peer(f, n) \in Nodes /\ Peer(f, n) # n
  BY FlowsAssumption DEF Ends, Peer

LEMMA Numbers ==
    ASSUME IInv
    PROVE  /\ \A n, m \in Nodes : netState[n][m].sId \in Nat
           /\ \A u \in updates : /\ u.dst \in Nodes /\ DOMAIN u.entries \subseteq Nodes
                                 /\ \A m \in DOMAIN u.entries : u.entries[m].sId \in Nat
<1>1. TypeOK
  BY DEF IInv
<1>2. \A n, m \in Nodes : netState[n][m].sId \in Nat
  BY <1>1, EntriesType
<1>3. ASSUME NEW u \in updates
      PROVE  /\ u.dst \in Nodes /\ DOMAIN u.entries \subseteq Nodes
             /\ \A m \in DOMAIN u.entries : u.entries[m].sId \in Nat
  BY <1>1 DEF TypeOK, LinkEntry
<1> QED
  BY <1>2, <1>3

LEMMA FloodedInit ==
    ASSUME Init
    PROVE  Flooded
<1>1. \A n, m \in Nodes : netState[n][m] = NoEntry /\ ports[n] = {} /\ lastChanges[n] = {}
  BY DEF Init
<1>2. \A n, d \in Nodes : netState[n][n].links[d] = 0 /\ PortsTo(ports[n], n, d) = {}
  BY <1>1 DEF NoEntry, PortsTo
<1>3. LinksArePorts
  BY <1>1, <1>2 DEF LinksArePorts
<1>4. ChangesAreScheduled /\ NothingLeftOut
  BY <1>1, <1>2 DEF ChangesAreScheduled, NothingLeftOut
<1>5. NobodyToldYet
  BY <1>1 DEF NobodyToldYet, NoEntry, Init
<1> QED
  BY <1>3, <1>4, <1>5 DEF Flooded

(* Passed stays so while numbers grow and updates stay. *)
LEMMA PassedStays ==
    ASSUME IInv, IInv', Newer, NEW n \in Nodes, NEW p \in Nodes, NEW m \in Nodes,
           Passed(n, p, m),
           netState'[n][m].sId = netState[n][m].sId,
           m \in lastChanges[n] => m \in lastChanges'[n],
           \A u \in updates : u.dst = p /\ m \in DOMAIN u.entries =>
              u \in updates' \/ u.entries[m].sId <= netState'[p][m].sId
    PROVE  Passed(n, p, m)'
<1>1. /\ netState[n][m].sId \in Nat /\ netState[p][m].sId \in Nat /\ netState'[p][m].sId \in Nat
      /\ \A u \in updates : m \in DOMAIN u.entries => u.entries[m].sId \in Nat
  BY Numbers DEF IInv, TypeOK, LinkEntry
<1>2. netState[p][m].sId <= netState'[p][m].sId
  BY DEF Newer
<1>3. CASE m \in lastChanges[n]
  BY <1>3 DEF Passed
<1>4. CASE netState[n][m].sId <= netState[p][m].sId
  <2>1. netState'[n][m].sId <= netState'[p][m].sId
    BY <1>1, <1>2, <1>4
  <2> QED
    BY <2>1 DEF Passed
<1>5. CASE \E u \in updates : /\ u.dst = p /\ m \in DOMAIN u.entries
                              /\ netState[n][m].sId <= u.entries[m].sId
  <2>1. PICK u \in updates : /\ u.dst = p /\ m \in DOMAIN u.entries
                             /\ netState[n][m].sId <= u.entries[m].sId
    BY <1>5
  <2>2. CASE u \in updates'
    BY <2>1, <2>2 DEF Passed
  <2>3. CASE u.entries[m].sId <= netState'[p][m].sId
    <3>1. netState'[n][m].sId <= netState'[p][m].sId
      BY <1>1, <2>1, <2>3
    <3> QED
      BY <3>1 DEF Passed
  <2> QED
    BY <2>1, <2>2, <2>3
<1> QED
  BY <1>3, <1>4, <1>5 DEF Passed

LEMMA InsertFloods ==
    ASSUME IInv, IInv', Newer, HopCount, Flooded, NEW x \in Nodes, NEW f \in Flows,
           InsertedFlow(x, f)
    PROVE  Flooded'
<1> DEFINE d == Peer(f, x)
<1>1. /\ f \in config.flows /\ x \in Ends(f) /\ f \notin ports[x]
      /\ ports' = [ports EXCEPT ![x] = @ \union {f}]
      /\ UNCHANGED <<config, updates>>
  BY DEF InsertedFlow
<1>2. ports \in [Nodes -> SUBSET Flows] /\ netState \in [Nodes -> [Nodes -> LinkEntry]]
      /\ lastChanges \in [Nodes -> SUBSET Nodes] /\ scheduledUpdate \in [Nodes -> BOOLEAN]
  BY DEF IInv, TypeOK
<1>3. \A n \in Nodes : ports'[n] = IF n = x THEN ports[x] \union {f} ELSE ports[n]
  BY <1>1, <1>2
<1>4. d \in Nodes /\ d # x
  BY <1>1, PeerDiffers
<1>5. ~AllUp
  BY <1>1 DEF AllUp
<1>6. \A n, h \in Nodes :
         PortsTo(ports'[n], n, h) =
             PortsTo(ports[n], n, h) \union (IF n = x /\ h = d THEN {f} ELSE {})
  BY <1>3 DEF PortsTo
<1>7. \A n \in Nodes : ports'[n] \subseteq config.flows /\ \A g \in ports'[n] : n \in Ends(g)
  BY <1>1, <1>3 DEF Flooded, LinksArePorts
<1>8. config.together => updates = {} /\ \A n, m \in Nodes : n # m => netState[n][m].sId = 0
  BY <1>5 DEF Flooded, NobodyToldYet
<1>9. CASE ~NewLink(ports[x], x, f)
  <2>1. UNCHANGED <<netState, lastChanges, scheduledUpdate>>
    BY <1>9 DEF InsertedFlow
  <2>2. PortsTo(ports[x], x, d) # {}
    BY <1>1, <1>9, HopCountLinks
  <2>3. \A n, h \in Nodes : PortsTo(ports'[n], n, h) = {} <=> PortsTo(ports[n], n, h) = {}
    BY <1>6, <2>2
  <2>4. LinksArePorts'
    BY <1>1, <1>7, <2>1, <2>3 DEF Flooded, LinksArePorts
  <2>5. ChangesAreScheduled'
    BY <2>1 DEF Flooded, ChangesAreScheduled
  <2>p. \A n, p, m \in Nodes : Passed(n, p, m) => Passed(n, p, m)'
    BY <1>1, <2>1 DEF Passed
  <2>6. NothingLeftOut'
    BY <1>1, <2>3, <2>p DEF Flooded, NothingLeftOut
  <2>7. NobodyToldYet'
    BY <1>1, <1>8, <2>1 DEF NobodyToldYet
  <2> QED
    BY <2>4, <2>5, <2>6, <2>7 DEF Flooded
<1>10. CASE NewLink(ports[x], x, f)
  <2>1. PortsTo(ports[x], x, d) = {} /\ LinkMetric(f) = 1
    BY <1>1, <1>10, HopCountLinks
  <2> DEFINE entry == InsertLink(netState[x][x], NextId(secId[x]), d, 1)
  <2>2. /\ netState' = [netState EXCEPT ![x] = [netState[x] EXCEPT ![x] = entry]]
        /\ lastChanges' = [lastChanges EXCEPT ![x] = @ \union {x}]
        /\ scheduledUpdate' = [scheduledUpdate EXCEPT ![x] = TRUE]
    BY <1>10, <2>1 DEF InsertedFlow
  <2>3. \A h \in Nodes : entry.links[h] = IF h = d THEN 1 ELSE netState[x][x].links[h]
    <3>1. netState[x][x].links \in [Nodes -> 0 .. UINT16_MAX]
      BY <1>2 DEF LinkEntry
    <3> QED
      BY <3>1 DEF InsertLink
  <2> HIDE DEF entry
  <2>4. \A n, m \in Nodes : netState'[n][m] = IF n = x /\ m = x THEN entry ELSE netState[n][m]
    BY <1>2, <2>2
  <2>5. \A n \in Nodes : /\ lastChanges'[n] = lastChanges[n] \union (IF n = x THEN {x} ELSE {})
                         /\ scheduledUpdate[n] => scheduledUpdate'[n]
    BY <1>2, <2>2
  <2>6. LinksArePorts'
    <3>1. ASSUME NEW n \in Nodes, NEW h \in Nodes
          PROVE  netState'[n][n].links[h] = IF PortsTo(ports'[n], n, h) = {} THEN 0 ELSE 1
      <4>1. netState[n][n].links[h] = IF PortsTo(ports[n], n, h) = {} THEN 0 ELSE 1
        BY DEF Flooded, LinksArePorts
      <4> QED
        BY <1>6, <2>3, <2>4, <4>1
    <3> QED
      BY <1>1, <1>7, <3>1 DEF LinksArePorts
  <2>7. ChangesAreScheduled'
    BY <1>2, <2>2, <2>5 DEF Flooded, ChangesAreScheduled
  <2>8. ASSUME NEW n \in Nodes, NEW p \in Nodes, PortsTo(ports'[n], n, p) # {},
               NEW m \in Nodes, m = n \/ config.together
        PROVE  Passed(n, p, m)'
    <3>1. CASE n = x /\ m = x
      BY <2>5, <3>1 DEF Passed
    <3>2. CASE n # x
      <4>1. Passed(n, p, m)
        BY <1>6, <2>8, <3>2 DEF Flooded, NothingLeftOut
      <4>2. netState'[n][m].sId = netState[n][m].sId /\ lastChanges[n] \subseteq lastChanges'[n]
        BY <2>4, <2>5, <3>2
      <4> QED
        BY <1>1, <4>1, <4>2, PassedStays
    <3>3. CASE n = x /\ m # x
      <4>1. netState'[n][m].sId = 0
        BY <1>8, <2>4, <2>8, <3>3
      <4>2. netState'[p][m].sId \in Nat
        BY DEF IInv, TypeOK, LinkEntry
      <4> QED
        BY <4>1, <4>2 DEF Passed
    <3> QED
      BY <3>1, <3>2, <3>3
  <2>9. NothingLeftOut'
    BY <1>1, <2>8 DEF NothingLeftOut
  <2>10. NobodyToldYet'
    BY <1>1, <1>8, <2>4 DEF NobodyToldYet
  <2> QED
    BY <2>6, <2>7, <2>9, <2>10 DEF Flooded
<1> QED
  BY <1>9, <1>10

(* A PDU to a neighbour that has its own port takes it. *)
LEMMA OneHopReaches ==
    ASSUME NEW tab \in [Nodes -> FwdTable], NEW n \in Nodes, NEW d \in Nodes, n # d,
           tab[n][d] # NoPort, Peer(tab[n][d], n) = d
    PROVE  Reaches(tab, n, d)
<1> DEFINE N == Cardinality(Nodes)
           way == Way(tab, n, d)
           S == {i \in Nat : i + 1 <= N => way[i + 1] = d}
<1>1. N \in Nat /\ N >= 1
  <2>1. N # 0
    BY NodesAssumption, FS_EmptySet
  <2> QED
    BY <2>1, NumberOfNodes
<1>2. way[0] = n /\ \A k \in 1 .. N : way[k] = NextHop(tab, d, way[k - 1])
  BY WayIsDefined
<1> HIDE DEF N, way
<1>3. n # Nowhere
  BY NodesAssumption DEF Nowhere
<1>4. 0 \in S
  <2>1. way[1] = NextHop(tab, d, way[1 - 1])
    BY <1>1, <1>2
  <2>2. way[1] = NextHop(tab, d, n)
    BY <1>2, <2>1
  <2> QED
    BY <1>3, <2>2 DEF NextHop
<1>5. ASSUME NEW i \in 0 .. ((N - 1) - 1), i \in S PROVE i + 1 \in S
  <2>1. i + 2 \in 1 .. N /\ (i + 2) - 1 = i + 1 /\ (i + 1) + 1 = i + 2
    BY <1>1
  <2>2. way[i + 1] = d
    BY <1>1, <1>5
  <2>3. way[i + 2] = NextHop(tab, d, way[(i + 2) - 1])
    BY <1>2, <2>1
  <2>4. way[i + 2] = d
    BY <2>1, <2>2, <2>3 DEF NextHop
  <2> QED
    BY <2>1, <2>4
<1>6. 0 .. (N - 1) \subseteq S
  <2> HIDE DEF S
  <2> QED
    BY <1>1, <1>4, <1>5, UpTo
<1>7. N - 1 \in S /\ (N - 1) + 1 = N
  <2> HIDE DEF S
  <2> QED
    BY <1>1, <1>6
<1>8. way[N] = d
  BY <1>1, <1>7
<1> QED
  BY <1>8 DEF N, way, Reaches

(* The routes of a process are the best over all the links it knows. *)
LEMMA RoutesAreBest ==
    ASSUME NEW n \in Nodes, IInv, NEW d \in Nodes \ {n}
    PROVE  Best(n, netState[n], table[n], Nodes, d)
<1> DEFINE ls == netState[n]
           F == table[n]
           into == {a \in Nodes : ls[a].links[d] # 0}
           X == {LengthBy(n, ls, F, a, d) : a \in into} \union {UINT16_MAX}
           hops == UNION {IF a = n THEN {d} ELSE F[a].nh :
                            a \in {b \in into : LengthBy(n, ls, F, b, d) = Min(X)}}
<1>1. F[d] = [metric |-> Min(X), nh |-> hops]
  BY DEF IInv, Current, Shortest, Solves
<1>2. ls \in [Nodes -> LinkEntry] /\ F \in [Nodes -> Route]
  BY EntriesType DEF IInv
<1>3. \A a \in Nodes : LengthBy(n, ls, F, a, d) \in Nat
  <2> SUFFICES ASSUME NEW a \in Nodes PROVE LengthBy(n, ls, F, a, d) \in Nat
    OBVIOUS
  <2>1. ls[a].links[d] \in Nat
    BY <1>2, LinksType
  <2>2. F[a].metric \in Nat
    BY <1>2 DEF Route
  <2> HIDE DEF ls, F
  <2> QED
    BY <2>1, <2>2 DEF LengthBy
<1>4. X \in SUBSET Nat /\ X # {}
  BY <1>3, MaxIsNatural
<1>5. Min(X) \in X /\ \A y \in X : Min(X) <= y
  <2> HIDE DEF X
  <2> QED
    BY <1>4, MinOfNats
<1>6. F[d].metric = Min(X) /\ F[d].nh = hops
  BY <1>1
<1> SUFFICES Best(n, ls, F, Nodes, d)
  OBVIOUS
<1> HIDE DEF F, ls
<1>7. \A a \in Nodes : ls[a].links[d] # 0 => F[d].metric <= LengthBy(n, ls, F, a, d)
  BY <1>5, <1>6
<1>8. \/ F[d].metric = UINT16_MAX
      \/ \E a \in Nodes : ls[a].links[d] # 0 /\ F[d].metric = LengthBy(n, ls, F, a, d)
  <2>1. Min(X) = UINT16_MAX \/ \E a \in into : Min(X) = LengthBy(n, ls, F, a, d)
    BY <1>5
  <2> QED
    BY <1>6, <2>1
<1>9. ASSUME NEW h
      PROVE  h \in F[d].nh <=>
                \E a \in Nodes : /\ ls[a].links[d] # 0
                                 /\ LengthBy(n, ls, F, a, d) = F[d].metric
                                 /\ h \in (IF a = n THEN {d} ELSE F[a].nh)
  <2>1. h \in F[d].nh <=> h \in hops
    BY <1>6
  <2>2. F[d].metric = Min(X)
    BY <1>6
  <2> HIDE DEF X
  <2>3. h \in hops <=>
           \E a \in into : /\ LengthBy(n, ls, F, a, d) = Min(X)
                           /\ h \in (IF a = n THEN {d} ELSE F[a].nh)
    OBVIOUS
  <2> HIDE DEF hops
  <2> QED
    BY <2>1, <2>2, <2>3
<1> QED
  BY <1>7, <1>8, <1>9 DEF Best

(* So a neighbour, which is one link away, is reached directly. *)
LEMMA NeighbourReached ==
    ASSUME IInv, Flooded, NEW n \in Nodes, NEW p \in Nodes, PortsTo(ports[n], n, p) # {}
    PROVE  Reaches(fwd, n, p)
<1> DEFINE ls == netState[n]
           F == table[n]
<1>1. /\ ports[n] \in SUBSET Flows /\ \A f \in ports[n] : n \in Ends(f)
      /\ ls[n].links[p] = 1
  BY DEF IInv, TypeOK, Flooded, LinksArePorts
<1>2. n # p
  BY <1>1, PeerDiffers DEF PortsTo
<1>3. Best(n, ls, F, Nodes, p)
  BY <1>2, RoutesAreBest
<1>4. ls \in [Nodes -> LinkEntry] /\ F \in [Nodes -> Route]
  BY EntriesType DEF IInv
<1>5. \A a, d \in Nodes : ls[a].links[d] \in Nat /\ F[a].metric \in Nat /\ F[a].nh \in SUBSET Nodes
  <2> SUFFICES ASSUME NEW a \in Nodes, NEW d \in Nodes
               PROVE  ls[a].links[d] \in Nat /\ F[a].metric \in Nat /\ F[a].nh \in SUBSET Nodes
    OBVIOUS
  <2>1. F[a] \in Route
    BY <1>4
  <2> QED
    BY <1>4, <2>1, LinksType DEF Route
<1>6. ASSUME NEW a \in Nodes, a # n PROVE F[a].metric >= 1
  <2>1. Best(n, ls, F, Nodes, a)
    BY <1>6, RoutesAreBest
  <2> HIDE DEF ls, F
  <2>2. \/ F[a].metric = UINT16_MAX
        \/ \E b \in Nodes : ls[b].links[a] # 0 /\ F[a].metric = LengthBy(n, ls, F, b, a)
    BY <2>1 DEF Best
  <2>3. ASSUME NEW b \in Nodes, ls[b].links[a] # 0 PROVE LengthBy(n, ls, F, b, a) >= 1
    BY <1>5, <2>3 DEF LengthBy
  <2> QED
    BY <1>5, <2>2, <2>3, MaxIsNatural
<1>7. LengthBy(n, ls, F, n, p) = 1
  BY <1>1 DEF LengthBy
<1>8. \A a \in Nodes : a # n /\ ls[a].links[p] # 0 => LengthBy(n, ls, F, a, p) >= 2
  <2> SUFFICES ASSUME NEW a \in Nodes, a # n, ls[a].links[p] # 0
               PROVE  LengthBy(n, ls, F, a, p) >= 2
    OBVIOUS
  <2> HIDE DEF ls, F
  <2> QED
    BY <1>5, <1>6 DEF LengthBy
<1> HIDE DEF ls, F
<1>9. F[p].metric <= 1
  BY <1>1, <1>3, <1>7 DEF Best
<1>10. F[p].metric = 1
  BY <1>2, <1>5, <1>6, <1>9
<1>11. F[p].nh = {p}
  <2>1. ASSUME NEW h PROVE h \in F[p].nh <=> h = p
    <3>1. h \in F[p].nh <=>
             \E a \in Nodes : /\ ls[a].links[p] # 0
                              /\ LengthBy(n, ls, F, a, p) = F[p].metric
                              /\ h \in (IF a = n THEN {p} ELSE F[a].nh)
      BY <1>3 DEF Best
    <3> QED
      BY <1>1, <1>7, <1>8, <1>10, <3>1
  <2> QED
    BY <2>1
<1>12. fwd[n][p] \in PortsTo(ports[n], n, p)
  <2>1. fwd[n][p] \in PortsTo(ports[n], n, Min(F[p].nh))
    BY <1>11 DEF IInv, Current, Follows, F
  <2>2. {p} \in SUBSET Nat /\ {p} # {}
    BY NodesAssumption
  <2>3. Min({p}) = p
    BY <2>2, MinOfNats
  <2> QED
    BY <1>11, <2>1, <2>3
<1>13. fwd[n][p] # NoPort /\ Peer(fwd[n][p], n) = p
  BY <1>1, <1>12, FlowsAssumption DEF PortsTo, NoPort
<1>14. fwd \in [Nodes -> FwdTable]
  BY DEF IInv, TypeOK
<1> QED
  BY <1>2, <1>13, <1>14, OneHopReaches

LEMMA SendFloods ==
    ASSUME IInv, IInv', Newer, Flooded, NEW x \in Nodes, Time2Update(x)
    PROVE  Flooded'
<1>1. /\ updates' = updates \union UpdatesOf(x)
      /\ lastChanges' = [lastChanges EXCEPT ![x] = {}]
      /\ scheduledUpdate' = [scheduledUpdate EXCEPT ![x] = FALSE]
      /\ UNCHANGED <<config, ports, secId, netState, table, fwd>>
      /\ config.together => AllUp
  BY DEF Time2Update
<1>2. lastChanges \in [Nodes -> SUBSET Nodes] /\ scheduledUpdate \in [Nodes -> BOOLEAN]
  BY DEF IInv, TypeOK
<1>3. \A n \in Nodes : /\ lastChanges'[n] = IF n = x THEN {} ELSE lastChanges[n]
                       /\ n # x => scheduledUpdate'[n] = scheduledUpdate[n]
  BY <1>1, <1>2
<1>4. LinksArePorts'
  BY <1>1 DEF Flooded, LinksArePorts
<1>5. ChangesAreScheduled'
  BY <1>3 DEF Flooded, ChangesAreScheduled
<1>6. AllUp' <=> AllUp
  BY <1>1 DEF AllUp
<1>7. NobodyToldYet'
  BY <1>1, <1>6 DEF NobodyToldYet
<1>8. ASSUME NEW n \in Nodes, NEW p \in Nodes, PortsTo(ports'[n], n, p) # {},
             NEW m \in Nodes, m = n \/ config'.together
      PROVE  Passed(n, p, m)'
  <2>1. Passed(n, p, m) /\ PortsTo(ports[n], n, p) # {}
    BY <1>1, <1>8 DEF Flooded, NothingLeftOut
  <2>2. CASE n = x /\ m \in lastChanges[x]
    <3> DEFINE u == [src |-> x, dst |-> p, over |-> Crossed(fwd, x, p),
                     entries |-> [i \in lastChanges[x] |-> netState[x][i]]]
    <3>1. p \in Neighbours(x) /\ Reaches(fwd, x, p)
      BY <2>1, <2>2, NeighbourReached DEF Neighbours
    <3>2. u \in updates'
      BY <1>1, <3>1 DEF UpdatesOf
    <3>3. u.dst = p /\ m \in DOMAIN u.entries /\ u.entries[m] = netState'[x][m]
      BY <1>1, <2>2
    <3>4. netState'[x][m].sId \in Nat
      BY <1>1, Numbers
    <3>5. netState'[x][m].sId <= u.entries[m].sId
      BY <3>3, <3>4
    <3> HIDE DEF u
    <3> QED
      BY <2>2, <3>2, <3>3, <3>5 DEF Passed
  <2>3. CASE ~(n = x /\ m \in lastChanges[x])
    <3>1. m \in lastChanges[n] => m \in lastChanges'[n]
      BY <1>3, <2>3
    <3>2. netState'[n][m].sId = netState[n][m].sId /\ updates \subseteq updates'
      BY <1>1
    <3> QED
      BY <2>1, <3>1, <3>2, PassedStays
  <2> QED
    BY <2>2, <2>3
<1>9. NothingLeftOut'
  BY <1>1, <1>8 DEF NothingLeftOut
<1> QED
  BY <1>4, <1>5, <1>7, <1>9 DEF Flooded

LEMMA ReceiveFloods ==
    ASSUME IInv, IInv', Newer, Flooded, NEW u \in updates, ReceiveUpdate(u)
    PROVE  Flooded'
<1> DEFINE x == u.dst
           new == News(netState[x], u.entries)
           known == [m \in Nodes |-> IF m \in new THEN u.entries[m] ELSE netState[x][m]]
           pending == ToPassOn(x, new)
<1>1. /\ updates' = updates \ {u}
      /\ netState' = [netState EXCEPT ![x] = known]
      /\ lastChanges' = [lastChanges EXCEPT ![x] = pending]
      /\ pending # {} => scheduledUpdate' = [scheduledUpdate EXCEPT ![x] = TRUE]
      /\ pending = {} => scheduledUpdate' = scheduledUpdate
      /\ UNCHANGED <<config, ports, secId>>
  BY DEF ReceiveUpdate
<1>2. /\ netState \in [Nodes -> [Nodes -> LinkEntry]] /\ lastChanges \in [Nodes -> SUBSET Nodes]
      /\ scheduledUpdate \in [Nodes -> BOOLEAN]
  BY DEF IInv, TypeOK
<1>3. /\ x \in Nodes /\ DOMAIN u.entries \subseteq Nodes
      /\ \A m \in DOMAIN u.entries : u.entries[m].sId \in Nat
      /\ \A n, m \in Nodes : netState[n][m].sId \in Nat
  BY Numbers
<1>4. \A m : m \in new <=> m \in DOMAIN u.entries /\ netState[x][m].sId < u.entries[m].sId
  BY DEF News
<1>5. pending = lastChanges[x] \union new
  BY DEF ToPassOn
<1>6. x \notin new
  <2>1. x \in DOMAIN u.entries => Agrees(u.entries[x], x)
    BY DEF IInv, OneEntryPerNumber
  <2> HIDE DEF x, new
  <2> QED
    BY <1>3, <1>4, <2>1 DEF Agrees
<1> HIDE DEF x, new, pending
<1>7. \A n, m \in Nodes :
         netState'[n][m] = IF n = x /\ m \in new THEN u.entries[m] ELSE netState[n][m]
  BY <1>1, <1>2, <1>3
<1>8. \A n \in Nodes : /\ lastChanges'[n] = IF n = x THEN pending ELSE lastChanges[n]
                       /\ lastChanges[n] \subseteq lastChanges'[n]
  BY <1>1, <1>2, <1>5
<1>9. LinksArePorts'
  <2>1. \A n \in Nodes : netState'[n][n] = netState[n][n]
    BY <1>6, <1>7
  <2>2. ports' = ports /\ config' = config
    BY <1>1
  <2>3. ASSUME NEW n \in Nodes, NEW d \in Nodes
        PROVE  netState'[n][n].links[d] = IF PortsTo(ports[n], n, d) = {} THEN 0 ELSE 1
    <3>1. netState[n][n].links[d] = IF PortsTo(ports[n], n, d) = {} THEN 0 ELSE 1
      BY DEF Flooded, LinksArePorts
    <3>2. netState'[n][n].links[d] = netState[n][n].links[d]
      BY <2>1
    <3> QED
      BY ONLY <3>1, <3>2
  <2>4. \A n \in Nodes : ports[n] \subseteq config.flows /\ \A f \in ports[n] : n \in Ends(f)
    BY DEF Flooded, LinksArePorts
  <2> QED
    BY ONLY <2>2, <2>3, <2>4 DEF LinksArePorts
<1>10. ChangesAreScheduled'
  BY <1>1, <1>2, <1>8 DEF Flooded, ChangesAreScheduled
<1>11. NobodyToldYet'
  <2>1. config.together => AllUp
    BY DEF Flooded, NobodyToldYet
  <2>2. AllUp' <=> AllUp
    BY <1>1 DEF AllUp
  <2> QED
    BY <1>1, <2>1, <2>2 DEF NobodyToldYet
<1>12. ASSUME NEW n \in Nodes, NEW p \in Nodes, PortsTo(ports'[n], n, p) # {},
              NEW m \in Nodes, m = n \/ config'.together
       PROVE  Passed(n, p, m)'
  <2>1. Passed(n, p, m) /\ n # p
    <3>1. PortsTo(ports[n], n, p) # {}
      BY <1>1, <1>12
    <3>2. n # p
      BY <3>1, PeerDiffers DEF PortsTo, Flooded, LinksArePorts, IInv, TypeOK
    <3> QED
      BY <1>1, <1>12, <3>1, <3>2 DEF Flooded, NothingLeftOut
  <2>2. CASE n = x /\ m \in new
    BY <1>5, <1>8, <2>2 DEF Passed
  <2>3. CASE ~(n = x /\ m \in new)
    <3>1. netState'[n][m].sId = netState[n][m].sId /\ lastChanges[n] \subseteq lastChanges'[n]
      BY <1>7, <1>8, <2>3
    <3>2. ASSUME NEW v \in updates, v.dst = p, m \in DOMAIN v.entries
          PROVE  v \in updates' \/ v.entries[m].sId <= netState'[p][m].sId
      <4>1. CASE v # u
        BY <1>1, <4>1
      <4>2. CASE v = u
        <5>1. p = x
          BY <3>2, <4>2 DEF x
        <5> QED
          BY <1>3, <1>4, <1>7, <3>2, <4>2, <5>1
      <4> QED
        BY <4>1, <4>2
    <3> QED
      BY <2>1, <3>1, <3>2, PassedStays
  <2> QED
    BY <2>2, <2>3
<1>13. NothingLeftOut'
  BY <1>12 DEF NothingLeftOut
<1> QED
  BY <1>9, <1>10, <1>11, <1>13 DEF Flooded

LEMMA FloodedNext ==
    ASSUME IInv, IInv', Newer, HopCount, Flooded, [Next]_vars
    PROVE  Flooded'
<1>1. CASE InsertFlows
  BY <1>1, InsertFloods DEF InsertFlows
<1>2. CASE \E n \in Nodes : Time2Update(n)
  BY <1>2, SendFloods
<1>3. CASE \E u \in updates : ReceiveUpdate(u)
  BY <1>3, ReceiveFloods
<1>4. CASE UNCHANGED vars
  <2>1. UNCHANGED <<config, ports, netState, lastChanges, scheduledUpdate, updates>>
    BY <1>4 DEF vars
  <2>2. LinksArePorts' /\ ChangesAreScheduled'
    BY <2>1 DEF Flooded, LinksArePorts, ChangesAreScheduled
  <2>3. \A n, p, m \in Nodes : Passed(n, p, m) => Passed(n, p, m)'
    BY <2>1 DEF Passed
  <2>4. NothingLeftOut'
    BY <2>1, <2>3 DEF Flooded, NothingLeftOut
  <2>5. AllUp' <=> AllUp
    BY <2>1 DEF AllUp
  <2>6. NobodyToldYet'
    BY <2>1, <2>5 DEF Flooded, NobodyToldYet
  <2> QED
    BY <2>2, <2>4, <2>6 DEF Flooded
<1> QED
  BY <1>1, <1>2, <1>3, <1>4 DEF Next, Done

(* In every state of every flooding, a neighbour knows of an entry or is   *)
(* still to hear of it (SimpleLS::handleMessage, processUpdate).           *)
THEOREM NothingIsLeftOut ==
    ASSUME HopCount
    PROVE  Spec => []Flooded
<1>1. Init => Flooded
  BY FloodedInit
<1>2. IInv /\ IInv' /\ Flooded /\ [Next]_vars => Flooded'
  BY InvNext, FloodedNext
<1> QED
  BY <1>1, <1>2, Invariance, PTL DEF Spec

-----------------------------------------------------------------------------
(* What the processes know once no event is left.                          *)
Adjacent(n, p) == PortsTo(ports[n], n, p) # {}

Settled == IInv /\ Flooded /\ HopCount /\ Quiet

LEMMA AdjacentBothWays ==
    ASSUME Settled, NEW n \in Nodes, NEW p \in Nodes
    PROVE  /\ Adjacent(n, p) => Adjacent(p, n) /\ n # p
           /\ Adjacent(n, p) <=> n # p /\ \E f \in config.flows : Ends(f) = {n, p}
<1>1. /\ \A m \in Nodes : ports[m] \subseteq config.flows /\ \A f \in ports[m] : m \in Ends(f)
      /\ \A f \in config.flows : \A m \in Ends(f) : f \in ports[m]
  BY DEF Settled, Flooded, LinksArePorts, Quiet, AllUp
<1>2. config.flows \subseteq Flows
  BY FlowsAssumption DEF Settled, IInv, TypeOK
<1>3. ASSUME NEW a \in Nodes, NEW b \in Nodes, NEW f \in PortsTo(ports[a], a, b)
      PROVE  a # b /\ f \in config.flows /\ Ends(f) = {a, b} /\ f \in PortsTo(ports[b], b, a)
  <2>1. f \in ports[a] /\ Peer(f, a) = b
    BY <1>3 DEF PortsTo
  <2>2. f \in config.flows /\ f \in Flows /\ a \in Ends(f)
    BY <1>1, <1>2, <2>1
  <2>3. a # b /\ Ends(f) = {a, b} /\ Peer(f, b) = a
    BY <2>1, <2>2, FlowsAssumption DEF Peer, Ends
  <2>4. f \in ports[b]
    BY <1>1, <2>2, <2>3
  <2> QED
    BY <2>2, <2>3, <2>4 DEF PortsTo
<1>4. ASSUME NEW f \in config.flows, Ends(f) = {n, p}, n # p
      PROVE  f \in PortsTo(ports[n], n, p)
  <2>1. f \in ports[n]
    BY <1>1, <1>4
  <2>2. Peer(f, n) = p
    BY <1>4 DEF Peer, Ends
  <2> QED
    BY <2>1, <2>2 DEF PortsTo
<1> QED
  BY <1>3, <1>4 DEF Adjacent

LEMMA LinksThereAre ==
    ASSUME Settled, NEW n \in Nodes, NEW p \in Nodes
    PROVE  /\ Topology[n].links[p] = IF Adjacent(n, p) THEN 1 ELSE 0
           /\ netState[n][n].links[p] = IF Adjacent(n, p) THEN 1 ELSE 0
<1> DEFINE between == {f \in config.flows : Ends(f) = {n, p}}
<1>1. Topology[n].links[p] = IF between = {} THEN 0 ELSE Min({LinkMetric(f) : f \in between})
  BY DEF Topology
<1>2. \A f \in between : LinkMetric(f) = 1
  BY DEF Settled, HopCount, LinkMetric
<1>3. config.flows \subseteq Flows
  BY FlowsAssumption DEF Settled, IInv, TypeOK
<1>4. ASSUME n = p, NEW f \in config.flows, Ends(f) = {n, p}
      PROVE  FALSE
  <2>1. f \in Flows /\ Initiator[f] # Responder[f]
    BY <1>3, FlowsAssumption
  <2>2. Initiator[f] = n /\ Responder[f] = n
    BY <1>4 DEF Ends
  <2> QED
    BY <2>1, <2>2
<1>5. between # {} <=> Adjacent(n, p)
  BY <1>4, AdjacentBothWays
<1>6. Min({1}) = 1
  BY MinOfNats
<1>7. between # {} => {LinkMetric(f) : f \in between} = {1}
  BY <1>2
<1>8. Topology[n].links[p] = IF Adjacent(n, p) THEN 1 ELSE 0
  <2> HIDE DEF between
  <2> QED
    BY <1>1, <1>5, <1>6, <1>7
<1>9. netState[n][n].links[p] = IF Adjacent(n, p) THEN 1 ELSE 0
  BY DEF Settled, Flooded, LinksArePorts, Adjacent
<1> QED
  BY <1>8, <1>9

LEMMA OwnIsTopology ==
    ASSUME Settled, NEW n \in Nodes
    PROVE  netState[n][n].links = Topology[n].links
<1>1. netState[n][n] \in LinkEntry
  BY EntriesType DEF Settled, IInv
<1>2. netState[n][n].links \in [Nodes -> 0 .. UINT16_MAX]
  BY <1>1 DEF LinkEntry
<1>3. Topology[n].links = [d \in Nodes |-> Topology[n].links[d]]
  BY DEF Topology
<1>4. \A d \in Nodes : netState[n][n].links[d] = Topology[n].links[d]
  BY LinksThereAre
<1> QED
  BY ONLY <1>2, <1>3, <1>4

(* No newer entry is left to be passed on. *)
LEMMA NeighbourHasIt ==
    ASSUME Settled, NEW n \in Nodes, NEW p \in Nodes, Adjacent(n, p),
           NEW m \in Nodes, m = n \/ config.together
    PROVE  netState[n][m].sId <= netState[p][m].sId
<1>1. updates = {} /\ lastChanges[n] = {}
  BY DEF Settled, Quiet, Flooded, ChangesAreScheduled
<1>2. Passed(n, p, m)
  BY DEF Settled, Flooded, NothingLeftOut, Adjacent
<1> QED
  BY <1>1, <1>2 DEF Passed

LEMMA SameNumberSameEntry ==
    ASSUME Settled, NEW n \in Nodes, NEW m \in Nodes, netState[m][m].sId <= netState[n][m].sId
    PROVE  netState[n][m] = netState[m][m]
<1>1. Agrees(netState[n][m], m)
  BY DEF Settled, IInv, OneEntryPerNumber
<1>2. netState[n][m].sId \in Nat /\ netState[m][m].sId \in Nat
  BY Numbers DEF Settled
<1> QED
  BY <1>1, <1>2 DEF Agrees

LEMMA NeighboursAreKnown ==
    ASSUME Settled
    PROVE  NeighboursKnown
<1> SUFFICES ASSUME NEW n \in Nodes, NEW m \in Neighbours(n)
             PROVE  netState[n][m].links = Topology[m].links
  BY DEF NeighboursKnown
<1>1. m \in Nodes /\ Adjacent(n, m)
  BY DEF Neighbours, Adjacent
<1>2. Adjacent(m, n)
  BY <1>1, AdjacentBothWays
<1>3. netState[m][m].sId <= netState[n][m].sId
  BY <1>1, <1>2, NeighbourHasIt
<1>4. netState[n][m] = netState[m][m]
  BY <1>1, <1>3, SameNumberSameEntry
<1> QED
  BY <1>1, <1>4, OwnIsTopology

(* What the flows that came up together have led to. *)
SettledTogether == Settled /\ config.together

Far(n, d) == IF n = d THEN 0 ELSE table[n][d].metric

Knows(n, c) == \A m \in Nodes : netState[n][m].sId = netState[c][m].sId

LEMMA FarIsLength ==
    ASSUME Settled, NEW n \in Nodes, NEW d \in Nodes
    PROVE  Far(n, d) \in Nat
<1>1. table[n] \in [Nodes -> Route]
  BY EntriesType DEF Settled, IInv
<1>2. table[n][d] \in Route
  BY <1>1
<1> QED
  BY <1>2 DEF Far, Route

LEMMA KnowsLinks ==
    ASSUME Settled, NEW n \in Nodes, NEW c \in Nodes, Knows(n, c), NEW d \in Nodes
    PROVE  netState[n][c].links[d] = IF Adjacent(c, d) THEN 1 ELSE 0
<1>1. netState[c][c].sId \in Nat /\ netState[n][c].sId = netState[c][c].sId
  BY Numbers DEF Settled, Knows
<1>2. netState[n][c] = netState[c][c]
  BY <1>1, SameNumberSameEntry
<1> QED
  BY <1>2, LinksThereAre

LEMMA KnowsNext ==
    ASSUME SettledTogether, NEW n \in Nodes, NEW c \in Nodes, NEW d \in Nodes,
           Knows(n, c), Adjacent(c, d)
    PROVE  Knows(n, d)
<1>1. Settled /\ config.together
  BY DEF SettledTogether
<1>2. Adjacent(d, c)
  BY <1>1, AdjacentBothWays
<1>3. ASSUME NEW m \in Nodes PROVE netState[n][m].sId = netState[d][m].sId
  <2>1. netState[c][m].sId <= netState[d][m].sId /\ netState[d][m].sId <= netState[c][m].sId
    BY <1>1, <1>2, NeighbourHasIt
  <2>2. netState[c][m].sId \in Nat /\ netState[d][m].sId \in Nat
    BY <1>1, Numbers DEF Settled
  <2>3. netState[n][m].sId = netState[c][m].sId
    BY DEF Knows
  <2> QED
    BY <2>1, <2>2, <2>3
<1> QED
  BY <1>3 DEF Knows

(* A last link in reach: the lengths a process has of the ways over it. *)
LEMMA LengthIsFar ==
    ASSUME NEW n \in Nodes, NEW c \in Nodes, NEW d \in Nodes
    PROVE  LengthBy(n, netState[n], table[n], c, d) = netState[n][c].links[d] + Far(n, c)
  BY DEF LengthBy, Far

(* Every length a process has is that of a way, of which the process knows *)
(* the nodes as they know themselves, and the last is a neighbour.         *)
LEMMA RoutesAreWays ==
    ASSUME SettledTogether, NEW n \in Nodes, NEW d \in Nodes, Far(n, d) < UINT16_MAX
    PROVE  /\ Knows(n, d)
           /\ n # d => \E c \in Nodes : Adjacent(c, d) /\ Far(n, c) + 1 = Far(n, d)
<1> DEFINE Good(x) ==
             /\ Knows(n, x)
             /\ n # x => \E c \in Nodes : Adjacent(c, x) /\ Far(n, c) + 1 = Far(n, x)
           S == {h \in Nat : \A x \in Nodes : Far(n, x) <= h /\ Far(n, x) < UINT16_MAX => Good(x)}
<1>1. Settled
  BY DEF SettledTogether
<1>2. \A x \in Nodes : Far(n, x) \in Nat
  BY <1>1, FarIsLength
<1>3. Good(n)
  BY DEF Knows
<1>4. ASSUME NEW x \in Nodes, x # n, Far(n, x) < UINT16_MAX,
             NEW h \in Nat, Far(n, x) <= h,
             h = 0 \/ \A y \in Nodes : Far(n, y) <= h - 1 /\ Far(n, y) < UINT16_MAX => Good(y)
      PROVE  Good(x)
  <2>1. table[n][x].metric = Far(n, x)
    BY <1>4 DEF Far
  <2>2. Best(n, netState[n], table[n], Nodes, x)
    BY <1>1, <1>4, RoutesAreBest DEF Settled
  <2>3. PICK c \in Nodes : /\ netState[n][c].links[x] # 0
                          /\ Far(n, x) = LengthBy(n, netState[n], table[n], c, x)
    BY <1>2, <1>4, <2>1, <2>2 DEF Best
  <2>4. netState[n][c].links[x] \in Nat
    BY <1>1, EntriesType, LinksType DEF Settled, IInv
  <2>5. Far(n, x) = netState[n][c].links[x] + Far(n, c)
    BY <2>3, LengthIsFar
  <2>6. Far(n, c) < Far(n, x) /\ Far(n, c) < UINT16_MAX
    BY <1>2, <1>4, <2>3, <2>4, <2>5, MaxIsNatural
  <2>7. h # 0 /\ Far(n, c) <= h - 1
    BY <1>2, <1>4, <2>6
  <2>8. Good(c)
    BY <1>4, <2>6, <2>7
  <2>9. Knows(n, c)
    BY <2>8
  <2>10. netState[n][c].links[x] = IF Adjacent(c, x) THEN 1 ELSE 0
    BY <1>1, <2>9, KnowsLinks
  <2>11. Adjacent(c, x) /\ Far(n, c) + 1 = Far(n, x)
    BY <1>2, <2>3, <2>5, <2>10
  <2>12. Knows(n, x)
    BY <2>9, <2>11, KnowsNext
  <2> QED
    BY <2>11, <2>12
<1>5. 0 \in S
  <2> HIDE DEF Good
  <2>1. \A x \in Nodes : Far(n, x) <= 0 /\ Far(n, x) < UINT16_MAX => Good(x)
    BY <1>3, <1>4
  <2> QED
    BY <2>1
<1>6. ASSUME NEW k \in 0 .. (UINT16_MAX - 1), k \in S PROVE k + 1 \in S
  <2>1. k + 1 \in Nat /\ (k + 1) - 1 = k
    BY MaxIsNatural
  <2> HIDE DEF Good
  <2>2. \A y \in Nodes : Far(n, y) <= (k + 1) - 1 /\ Far(n, y) < UINT16_MAX => Good(y)
    BY <1>6, <2>1
  <2>3. \A x \in Nodes : Far(n, x) <= k + 1 /\ Far(n, x) < UINT16_MAX => Good(x)
    BY <1>3, <1>4, <2>1, <2>2
  <2> QED
    BY <2>1, <2>3
<1>7. 0 .. UINT16_MAX \subseteq S
  <2> HIDE DEF S
  <2> QED
    BY <1>5, <1>6, UpTo, MaxIsNatural
<1>8. Far(n, d) \in S
  <2>1. Far(n, d) \in 0 .. UINT16_MAX
    BY <1>2, MaxIsNatural
  <2> HIDE DEF S
  <2> QED
    BY <1>7, <2>1
<1>9. Good(d)
  <2> HIDE DEF Good
  <2> QED
    BY <1>2, <1>8
<1> QED
  BY <1>9

(* And no way is shorter by one more link. *)
LEMMA OneMoreLink ==
    ASSUME SettledTogether, NEW n \in Nodes, NEW c \in Nodes, NEW d \in Nodes,
           Adjacent(c, d), Far(n, c) < UINT16_MAX
    PROVE  Far(n, d) <= Far(n, c) + 1
<1>1. Settled
  BY DEF SettledTogether
<1>2. Far(n, c) \in Nat /\ Far(n, d) \in Nat
  BY <1>1, FarIsLength
<1>3. Knows(n, c)
  BY RoutesAreWays
<1>4. netState[n][c].links[d] = 1
  BY <1>1, <1>3, KnowsLinks
<1>5. CASE n = d
  BY <1>2, <1>5 DEF Far
<1>6. CASE n # d
  <2>1. Best(n, netState[n], table[n], Nodes, d)
    BY <1>1, <1>6, RoutesAreBest DEF Settled
  <2>2. table[n][d].metric <= LengthBy(n, netState[n], table[n], c, d)
    BY <1>4, <2>1 DEF Best
  <2>3. LengthBy(n, netState[n], table[n], c, d) = 1 + Far(n, c)
    BY <1>4, LengthIsFar
  <2>4. table[n][d].metric = Far(n, d)
    BY <1>6 DEF Far
  <2> QED
    BY <1>2, <2>2, <2>3, <2>4
<1> QED
  BY <1>5, <1>6

(* So nobody is farther than a neighbour is, and one more.                 *)
LEMMA FarHasNoDetour ==
    ASSUME SettledTogether, NEW a \in Nodes, NEW s \in Nodes, NEW d \in Nodes,
           Adjacent(a, s), 1 + Far(s, d) < UINT16_MAX
    PROVE  Far(a, d) <= 1 + Far(s, d)
<1> DEFINE Good(x) == 1 + Far(s, x) < UINT16_MAX => Far(a, x) <= 1 + Far(s, x)
           S == {h \in Nat : \A x \in Nodes : Far(s, x) <= h => Good(x)}
<1>1. Settled
  BY DEF SettledTogether
<1>2. \A x, y \in Nodes : Far(x, y) \in Nat
  BY <1>1, FarIsLength
<1>3. Good(s)
  <2>1. Far(a, a) = 0 /\ Far(s, s) = 0
    BY DEF Far
  <2>2. Far(a, s) <= Far(a, a) + 1
    BY <2>1, OneMoreLink, MaxIsNatural
  <2> QED
    BY <1>2, <2>1, <2>2
<1>4. ASSUME NEW x \in Nodes, x # s, NEW h \in Nat, Far(s, x) <= h,
             h = 0 \/ \A y \in Nodes : Far(s, y) <= h - 1 => Good(y)
      PROVE  Good(x)
  <2> SUFFICES ASSUME 1 + Far(s, x) < UINT16_MAX
               PROVE  Far(a, x) <= 1 + Far(s, x)
    OBVIOUS
  <2>1. Far(s, x) < UINT16_MAX
    BY <1>2, MaxIsNatural
  <2>2. PICK c \in Nodes : Adjacent(c, x) /\ Far(s, c) + 1 = Far(s, x)
    BY <1>4, <2>1, RoutesAreWays
  <2>3. h # 0 /\ Far(s, c) <= h - 1
    BY <1>2, <1>4, <2>2
  <2>4. Far(a, c) <= 1 + Far(s, c)
    BY <1>2, <1>4, <2>2, <2>3, MaxIsNatural
  <2>5. Far(a, c) < UINT16_MAX
    BY <1>2, <2>2, <2>4, MaxIsNatural
  <2>6. Far(a, x) <= Far(a, c) + 1
    BY <2>2, <2>5, OneMoreLink
  <2> QED
    BY <1>2, <2>2, <2>4, <2>6
<1>5. 0 \in S
  <2> HIDE DEF Good
  <2>1. \A x \in Nodes : Far(s, x) <= 0 => Good(x)
    BY <1>3, <1>4
  <2> QED
    BY <2>1
<1>6. ASSUME NEW k \in 0 .. (UINT16_MAX - 1), k \in S PROVE k + 1 \in S
  <2>1. k + 1 \in Nat /\ (k + 1) - 1 = k
    BY MaxIsNatural
  <2> HIDE DEF Good
  <2>2. \A y \in Nodes : Far(s, y) <= (k + 1) - 1 => Good(y)
    BY <1>6, <2>1
  <2>3. \A x \in Nodes : Far(s, x) <= k + 1 => Good(x)
    BY <1>3, <1>4, <2>1, <2>2
  <2> QED
    BY <2>1, <2>3
<1>7. 0 .. UINT16_MAX \subseteq S
  <2> HIDE DEF S
  <2> QED
    BY <1>5, <1>6, UpTo, MaxIsNatural
<1>8. Far(s, d) \in S
  <2>1. Far(s, d) \in 0 .. UINT16_MAX
    BY <1>2, MaxIsNatural
  <2> HIDE DEF S
  <2> QED
    BY <1>7, <2>1
<1>9. Good(d)
  <2> HIDE DEF Good
  <2> QED
    BY <1>2, <1>8
<1> QED
  BY <1>9

(* Every next hop is a neighbour, and nearer.                              *)
LEMMA HopsAreNearer ==
    ASSUME SettledTogether, NEW a \in Nodes, NEW d \in Nodes, a # d, Far(a, d) < UINT16_MAX,
           NEW h \in table[a][d].nh
    PROVE  h \in Nodes /\ Adjacent(a, h) /\ 1 + Far(h, d) <= Far(a, d)
<1> DEFINE Good(x) == a # x /\ Far(a, x) < UINT16_MAX /\ h \in table[a][x].nh =>
                         Adjacent(a, h) /\ 1 + Far(h, x) <= Far(a, x)
           S == {k \in Nat : \A x \in Nodes : Far(a, x) <= k => Good(x)}
<1>1. Settled
  BY DEF SettledTogether
<1>2. \A x, y \in Nodes : Far(x, y) \in Nat
  BY <1>1, FarIsLength
<1>h. h \in Nodes
  <2>1. table[a] \in [Nodes -> Route]
    BY <1>1, EntriesType DEF Settled, IInv
  <2>2. table[a][d] \in Route
    BY <2>1
  <2> QED
    BY <2>2 DEF Route
<1>3. ASSUME NEW x \in Nodes, NEW k \in Nat, Far(a, x) <= k,
             k = 0 \/ \A y \in Nodes : Far(a, y) <= k - 1 => Good(y)
      PROVE  Good(x)
  <2> SUFFICES ASSUME a # x, Far(a, x) < UINT16_MAX, h \in table[a][x].nh
               PROVE  Adjacent(a, h) /\ 1 + Far(h, x) <= Far(a, x)
    OBVIOUS
  <2>1. table[a][x].metric = Far(a, x)
    BY DEF Far
  <2>2. Best(a, netState[a], table[a], Nodes, x)
    BY <1>1, RoutesAreBest DEF Settled
  <2>3. PICK c \in Nodes : /\ netState[a][c].links[x] # 0
                          /\ LengthBy(a, netState[a], table[a], c, x) = Far(a, x)
                          /\ h \in (IF c = a THEN {x} ELSE table[a][c].nh)
    BY <2>1, <2>2 DEF Best
  <2>4. netState[a][c].links[x] \in Nat
    BY <1>1, EntriesType, LinksType DEF Settled, IInv
  <2>5. Far(a, x) = netState[a][c].links[x] + Far(a, c)
    BY <2>3, LengthIsFar
  <2>6. Far(a, c) < Far(a, x) /\ Far(a, c) < UINT16_MAX
    BY <1>2, <2>3, <2>4, <2>5, MaxIsNatural
  <2>7. Knows(a, c)
    BY <2>6, RoutesAreWays
  <2>8. Adjacent(c, x) /\ Far(a, x) = 1 + Far(a, c)
    BY <1>1, <1>2, <2>3, <2>5, <2>7, KnowsLinks
  <2>9. CASE c = a
    <3>1. h = x /\ Far(h, x) = 0 /\ Far(a, c) = 0
      BY <2>3, <2>9 DEF Far
    <3> QED
      BY <1>2, <2>8, <2>9, <3>1
  <2>10. CASE c # a
    <3>1. h \in table[a][c].nh
      BY <2>3, <2>10
    <3>2. k # 0 /\ Far(a, c) <= k - 1
      BY <1>2, <1>3, <2>6
    <3>3. Good(c)
      BY <1>3, <3>2
    <3>4. Adjacent(a, h) /\ 1 + Far(h, c) <= Far(a, c)
      BY <2>6, <2>10, <3>1, <3>3
    <3>5. Far(h, c) < UINT16_MAX
      BY <1>2, <1>h, <2>6, <3>4, MaxIsNatural
    <3>6. Far(h, x) <= Far(h, c) + 1
      BY <1>h, <2>8, <3>5, OneMoreLink
    <3> QED
      BY <1>2, <1>h, <2>8, <3>4, <3>6
  <2> QED
    BY <2>9, <2>10
<1>4. 0 \in S
  <2> HIDE DEF Good
  <2>1. \A x \in Nodes : Far(a, x) <= 0 => Good(x)
    BY <1>3
  <2> QED
    BY <2>1
<1>5. ASSUME NEW k \in 0 .. (UINT16_MAX - 1), k \in S PROVE k + 1 \in S
  <2>1. k + 1 \in Nat /\ (k + 1) - 1 = k
    BY MaxIsNatural
  <2> HIDE DEF Good
  <2>2. \A y \in Nodes : Far(a, y) <= (k + 1) - 1 => Good(y)
    BY <1>5, <2>1
  <2>3. \A x \in Nodes : Far(a, x) <= k + 1 => Good(x)
    BY <1>3, <2>1, <2>2
  <2> QED
    BY <2>1, <2>3
<1>6. 0 .. UINT16_MAX \subseteq S
  <2> HIDE DEF S
  <2> QED
    BY <1>4, <1>5, UpTo, MaxIsNatural
<1>7. Far(a, d) \in S
  <2>1. Far(a, d) \in 0 .. UINT16_MAX
    BY <1>2, MaxIsNatural
  <2> HIDE DEF S
  <2> QED
    BY <1>6, <2>1
<1>8. Good(d)
  <2> HIDE DEF Good
  <2> QED
    BY <1>2, <1>7
<1> QED
  BY <1>h, <1>8

LEMMA SomeHop ==
    ASSUME SettledTogether, NEW a \in Nodes, NEW d \in Nodes, a # d, Far(a, d) < UINT16_MAX
    PROVE  table[a][d].nh # {}
<1>1. Usable(a, netState[a], table[a])
  BY DEF SettledTogether, Settled, IInv, Current, Shortest
<1>2. table[a][d].nh = {} => table[a][d].metric = UINT16_MAX
  BY <1>1 DEF Usable
<1> QED
  BY <1>2, MaxIsNatural DEF Far

(* The lengths the processes have, as one table. *)
Known == [a \in Nodes |-> [d \in Nodes |-> Far(a, d)]]

LEMMA DirectLinks ==
    ASSUME Settled
    PROVE  /\ HopLinks(Direct(Topology))
           /\ \A a, d \in Nodes : Direct(Topology)[a][d] = 1 <=> Adjacent(a, d)
<1> DEFINE w == Direct(Topology)
<1>1. ASSUME NEW a \in Nodes, NEW d \in Nodes
      PROVE  w[a][d] = IF a = d THEN 0 ELSE IF Adjacent(a, d) THEN 1 ELSE UINT16_MAX
  <2>1. w[a][d] = IF a = d THEN 0 ELSE IF Topology[a].links[d] = 0 THEN UINT16_MAX
                  ELSE Topology[a].links[d]
    BY DEF Direct
  <2>2. Topology[a].links[d] = IF Adjacent(a, d) THEN 1 ELSE 0
    BY LinksThereAre
  <2> HIDE DEF w
  <2>3. CASE Adjacent(a, d)
    BY ONLY <2>1, <2>2, <2>3
  <2>4. CASE ~Adjacent(a, d)
    BY ONLY <2>1, <2>2, <2>4
  <2> QED
    BY <2>3, <2>4
<1>2. \A a, d \in Nodes : Adjacent(a, d) => a # d
  BY AdjacentBothWays
<1>3. w \in Lengths
  <2>1. w = [a \in Nodes |-> w[a]] /\ \A a \in Nodes : w[a] = [d \in Nodes |-> w[a][d]]
    BY DEF Direct
  <2> HIDE DEF w
  <2>2. \A a, d \in Nodes : w[a][d] \in Nat
    BY <1>1, MaxIsNatural
  <2> QED
    BY <2>1, <2>2 DEF Lengths
<1> HIDE DEF w
<1>4. HopLinks(w)
  BY <1>1, <1>3, MaxIsNatural DEF HopLinks
<1>5. \A a, d \in Nodes : w[a][d] = 1 <=> Adjacent(a, d)
  BY <1>1, <1>2, MaxIsNatural
<1> QED
  BY <1>4, <1>5 DEF w

LEMMA KnownIsShortest ==
    ASSUME SettledTogether
    PROVE  ShortestOver(Direct(Topology), Known, UINT16_MAX)
<1> DEFINE w == Direct(Topology)
<1>1. Settled
  BY DEF SettledTogether
<1>2. \A x, y \in Nodes : Far(x, y) \in Nat
  BY <1>1, FarIsLength
<1>3. \A x, y \in Nodes : Known[x][y] = Far(x, y)
  BY DEF Known
<1>4. Known \in Lengths
  BY <1>2 DEF Known, Lengths
<1>5. \A x, y \in Nodes : w[x][y] = 1 => Adjacent(x, y)
  BY <1>1, DirectLinks
<1>6. \A x, y \in Nodes : Adjacent(x, y) => w[x][y] = 1
  BY <1>1, DirectLinks
<1> HIDE DEF w
<1>7. \A x \in Nodes : Known[x][x] = 0
  BY <1>3 DEF Far
<1>8. NoDetour(w, Known, UINT16_MAX)
  BY <1>3, <1>5, FarHasNoDetour DEF NoDetour
<1>9. ASSUME NEW a \in Nodes, NEW d \in Nodes, a # d, Known[a][d] < UINT16_MAX
      PROVE  \E s \in Nodes : w[a][s] = 1 /\ Known[s][d] < Known[a][d]
  <2>1. Far(a, d) < UINT16_MAX
    BY <1>3, <1>9
  <2>2. PICK h \in table[a][d].nh : TRUE
    BY <1>9, <2>1, SomeHop
  <2>3. h \in Nodes /\ Adjacent(a, h) /\ 1 + Far(h, d) <= Far(a, d)
    BY <1>9, <2>1, HopsAreNearer
  <2>4. Known[h][d] < Known[a][d]
    BY <1>2, <1>3, <2>3
  <2> QED
    BY <1>6, <2>3, <2>4
<1>10. WayOn(w, Known, UINT16_MAX)
  BY <1>9 DEF WayOn
<1> QED
  BY <1>4, <1>7, <1>8, <1>10 DEF ShortestOver, w

-----------------------------------------------------------------------------
(* PDUs go along shortest ways. *)
LEMMA NextHopIsNearer ==
    ASSUME SettledTogether, NEW n \in Nodes, NEW d \in Nodes, n # d, Far(n, d) < UINT16_MAX
    PROVE  /\ fwd[n][d] # NoPort
           /\ Peer(fwd[n][d], n) \in Nodes /\ Adjacent(n, Peer(fwd[n][d], n))
           /\ 1 + Far(Peer(fwd[n][d], n), d) = Far(n, d)
<1> DEFINE nh == table[n][d].nh
           h == Min(nh)
<1>1. Settled
  BY DEF SettledTogether
<1>2. nh # {} /\ nh \in SUBSET Nat
  <2>1. table[n] \in [Nodes -> Route]
    BY <1>1, EntriesType DEF Settled, IInv
  <2>2. table[n][d] \in Route
    BY <2>1
  <2>3. nh \subseteq Nodes
    BY <2>2 DEF Route
  <2> QED
    BY <2>3, SomeHop, NodesAssumption
<1>3. h \in nh
  <2> HIDE DEF nh
  <2> QED
    BY <1>2, MinOfNats
<1>4. h \in Nodes /\ Adjacent(n, h) /\ 1 + Far(h, d) <= Far(n, d)
  BY <1>3, HopsAreNearer
<1>5. fwd[n][d] \in PortsTo(ports[n], n, h)
  BY <1>1, <1>2 DEF Settled, IInv, Current, Follows
<1>6. Peer(fwd[n][d], n) = h /\ fwd[n][d] \in ports[n]
  BY <1>5 DEF PortsTo
<1>7. ports[n] \in SUBSET Flows
  BY <1>1, EntriesType DEF Settled, IInv
<1>8. fwd[n][d] # NoPort
  BY <1>6, <1>7, FlowsAssumption DEF NoPort
<1>9. Far(n, d) \in Nat /\ Far(h, d) \in Nat
  BY <1>1, <1>4, FarIsLength
<1> HIDE DEF h
<1>10. CASE 1 + Far(h, d) < UINT16_MAX
  <2>1. Far(n, d) <= 1 + Far(h, d)
    BY <1>4, <1>10, FarHasNoDetour
  <2> QED
    BY <1>4, <1>6, <1>8, <1>9, <2>1
<1>11. CASE ~(1 + Far(h, d) < UINT16_MAX)
  BY <1>4, <1>9, <1>11, MaxIsNatural
<1> QED
  BY <1>10, <1>11

LEMMA EveryWayArrives ==
    ASSUME SettledTogether, NEW n \in Nodes, NEW d \in Nodes, Far(n, d) < UINT16_MAX
    PROVE  Reaches(fwd, n, d)
<1> DEFINE N == Cardinality(Nodes)
           way == Way(fwd, n, d)
           S == {i \in Nat :
                   i <= N => /\ way[i] \in Nodes
                             /\ (way[i] = d \/ Far(way[i], d) + i <= Far(n, d))}
<1>1. Settled
  BY DEF SettledTogether
<1>2. N \in Nat
  BY NumberOfNodes
<1>3. \A x, y \in Nodes : Far(x, y) \in Nat
  BY <1>1, FarIsLength
<1>4. Far(n, d) + 1 <= N
  <2>1. Known[n][d] = Far(n, d)
    BY DEF Known
  <2>2. ShortestOver(Direct(Topology), Known, UINT16_MAX)
    BY KnownIsShortest
  <2>3. Known[n][d] + 1 <= Cardinality(Nodes)
    BY <2>1, <2>2, WaysAreShort, MaxIsNatural
  <2> QED
    BY <2>1, <2>3
<1>5. fwd \in [Nodes -> FwdTable]
  BY <1>1 DEF Settled, IInv, TypeOK
<1>6. way[0] = n /\ \A k \in 1 .. N : way[k] = NextHop(fwd, d, way[k - 1])
  BY <1>5, WayIsDefined
<1> HIDE DEF N, way
<1>7. 0 \in S
  BY <1>3, <1>6
<1>8. ASSUME NEW i \in 0 .. (N - 1), i \in S PROVE i + 1 \in S
  <2>1. i \in Nat /\ i <= N /\ i + 1 \in 1 .. N /\ (i + 1) - 1 = i
    BY <1>2
  <2>2. way[i] \in Nodes /\ (way[i] = d \/ Far(way[i], d) + i <= Far(n, d))
    BY <1>8, <2>1
  <2>3. way[i + 1] = NextHop(fwd, d, way[i])
    <3>1. way[i + 1] = NextHop(fwd, d, way[(i + 1) - 1])
      BY <1>6, <2>1
    <3> QED
      BY <2>1, <3>1
  <2>4. CASE way[i] = d
    <3>1. way[i + 1] = d
      BY <2>3, <2>4 DEF NextHop
    <3> QED
      BY <2>1, <3>1
  <2>5. CASE way[i] # d
    <3> DEFINE x == way[i]
    <3>1. x \in Nodes /\ x # d /\ Far(x, d) + i <= Far(n, d)
      BY <2>2, <2>5
    <3>2. Far(x, d) < UINT16_MAX
      BY <1>3, <2>1, <3>1, MaxIsNatural
    <3>3. x # Nowhere
      BY <3>1, NodesAssumption DEF Nowhere
    <3> HIDE DEF x
    <3>4. /\ fwd[x][d] # NoPort /\ Peer(fwd[x][d], x) \in Nodes
          /\ 1 + Far(Peer(fwd[x][d], x), d) = Far(x, d)
      BY <3>1, <3>2, NextHopIsNearer
    <3>5. NextHop(fwd, d, x) = Peer(fwd[x][d], x)
      BY <3>1, <3>3, <3>4 DEF NextHop
    <3>6. way[i + 1] = Peer(fwd[x][d], x)
      BY <2>3, <3>5 DEF x
    <3>7. way[i + 1] \in Nodes /\ 1 + Far(way[i + 1], d) = Far(x, d)
      BY <3>4, <3>6
    <3>8. Far(way[i + 1], d) + (i + 1) <= Far(n, d)
      BY <1>3, <2>1, <3>1, <3>7
    <3> QED
      BY <2>1, <3>7, <3>8
  <2> QED
    BY <2>4, <2>5
<1>9. 0 .. N \subseteq S
  <2> HIDE DEF S
  <2> QED
    BY <1>2, <1>7, <1>8, UpTo
<1>10. N \in S
  <2> HIDE DEF S
  <2> QED
    BY <1>2, <1>9
<1>11. way[N] \in Nodes /\ (way[N] = d \/ Far(way[N], d) + N <= Far(n, d))
  BY <1>2, <1>10
<1>12. way[N] = d
  BY <1>2, <1>3, <1>4, <1>11
<1> QED
  BY <1>12 DEF Reaches, way, N

LEMMA WaysAreShortest ==
    ASSUME IInv, Flooded, HopCount
    PROVE  ShortestWays
<1> SUFFICES ASSUME config.together, Quiet
             PROVE  \A n \in Nodes : \A d \in Nodes \ {n} :
                       Distances(Topology)[n][d] < UINT16_MAX =>
                          /\ Reaches(fwd, n, d)
                          /\ Peer(fwd[n][d], n) \in
                                ShortestHops(n, Topology, Distances(Topology), d)
  BY DEF ShortestWays
<1>1. Settled /\ SettledTogether
  BY DEF Settled, SettledTogether
<1> DEFINE distance == Distances(Topology)
<1> SUFFICES ASSUME NEW n \in Nodes, NEW d \in Nodes, d # n, distance[n][d] < UINT16_MAX
             PROVE  /\ Reaches(fwd, n, d)
                    /\ Peer(fwd[n][d], n) \in ShortestHops(n, Topology, distance, d)
  OBVIOUS
<1>2. PICK within : /\ Doubled(within, Direct(Topology))
                    /\ distance = within[Cardinality(Nodes)]
  <2>1. Direct(Topology) \in Lengths
    BY <1>1, DirectLinks DEF HopLinks
  <2> QED
    BY <2>1, DistancesAreDoubled
<1>3. HopLinks(Direct(Topology)) /\ ShortestOver(Direct(Topology), Known, UINT16_MAX)
  BY <1>1, DirectLinks, KnownIsShortest
<1> HIDE DEF distance, Quiet
<1>4. ASSUME NEW x \in Nodes, NEW y \in Nodes, Far(x, y) < UINT16_MAX \/ distance[x][y] < UINT16_MAX
      PROVE  distance[x][y] = Far(x, y)
  <2>1. Known[x][y] = Far(x, y)
    BY DEF Known
  <2>2. UINT16_MAX \in 1 .. UINT16_MAX
    BY MaxIsNatural
  <2> QED
    BY <1>2, <1>3, <1>4, <2>1, <2>2, DoubledIsShortest
<1>5. distance[n][d] = Far(n, d) /\ Far(n, d) < UINT16_MAX
  BY <1>4
<1>6. Reaches(fwd, n, d)
  BY <1>1, <1>5, EveryWayArrives
<1> DEFINE h == Peer(fwd[n][d], n)
<1>7. h \in Nodes /\ Adjacent(n, h) /\ 1 + Far(h, d) = Far(n, d)
  BY <1>1, <1>5, NextHopIsNearer
<1> HIDE DEF h
<1>8. Far(h, d) \in Nat
  BY <1>1, <1>7, FarIsLength
<1>9. distance[h][d] = Far(h, d)
  <2>1. Far(h, d) < UINT16_MAX
    BY <1>5, <1>7, <1>8, MaxIsNatural
  <2> QED
    BY <1>4, <1>7, <2>1
<1>10. Topology[n].links[h] = 1
  BY <1>1, <1>7, LinksThereAre
<1>11. h \in ShortestHops(n, Topology, distance, d)
  BY <1>5, <1>7, <1>9, <1>10 DEF ShortestHops
<1> QED
  BY <1>6, <1>11 DEF h

(* When no event is left neighbours know one another's links, and, of      *)
(* flows that came up together, every PDU gets where it goes along a       *)
(* shortest way: what SimpleLS is for, in every network with hop counts    *)
(* and whatever the order of its events. Over LatGenerator a neighbour may *)
(* be reached over others, and the way of its update change meanwhile;     *)
(* there it is only model-checked.                                         *)
THEOREM EveryoneAlwaysReached ==
    ASSUME HopCount
    PROVE  Spec => []EveryoneReached
<1>1. IInv /\ Flooded => NeighboursKnown
  <2> SUFFICES ASSUME IInv, Flooded, Quiet PROVE NeighboursKnown
    BY DEF NeighboursKnown
  <2>1. Settled
    BY DEF Settled
  <2> QED
    BY <2>1, NeighboursAreKnown
<1>2. IInv /\ Flooded => EveryoneReached
  BY <1>1, WaysAreShortest DEF EveryoneReached
<1> QED
  BY <1>2, Invariance, NothingIsLeftOut, PTL
=============================================================================
