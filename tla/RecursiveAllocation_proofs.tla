----------------------- MODULE RecursiveAllocation_proofs ---------------------
(***************************************************************************)
(* Proofs about flows over (N-1)-flows that are allocated on demand, for   *)
(* any processes, routes, flows, preallocations and refusals. A handler    *)
(* only adds: to tables, to queues, to what is under way. So what it does  *)
(* is followed step by step in the world as it would be if everybody saw   *)
(* it at once, with the message it handles still under way; that message   *)
(* is taken away when all it asks for is done.                             *)
(***************************************************************************)
EXTENDS RecursiveAllocation, TLAPS, FiniteSetTheorems, WellFoundedInduction

(* A non-empty set of naturals has a least element, and Min finds it. *)
LEMMA MinOfNats ==
    ASSUME NEW T \in SUBSET Nat, T # {}
    PROVE  Min(T) \in T /\ \A x \in T : Min(T) <= x
<1>1. IsWellFoundedOn(OpToRel(<, Nat), Nat)
  BY NatLessThanWellFounded
<1>2. PICK x \in T : \A y \in T : ~(<<y, x>> \in OpToRel(<, Nat))
  BY <1>1, WFMin
<1>3. \A y \in T : x <= y
  <2> SUFFICES ASSUME NEW y \in T, y < x PROVE FALSE
    OBVIOUS
  <2>1. <<y, x>> \in OpToRel(<, Nat)
    BY DEF OpToRel
  <2> QED
    BY <2>1, <1>2
<1> QED
  BY <1>2, <1>3 DEF Min

(* Induction: a set with 0 and with the successor of each of its numbers   *)
(* up to N has all numbers up to N.                                        *)
LEMMA UpTo ==
    ASSUME NEW N \in Nat, NEW S, 0 \in S,
           \A k \in 0 .. (N - 1) : k \in S => k + 1 \in S
    PROVE  0 .. N \subseteq S
<1> DEFINE T == {k \in 0 .. N : k \notin S}
<1> SUFFICES ASSUME T # {} PROVE FALSE
  OBVIOUS
<1>1. T \in SUBSET Nat
  OBVIOUS
<1>2. /\ Min(T) \in T
      /\ \A x \in T : Min(T) <= x
  BY <1>1, MinOfNats
<1> DEFINE m == Min(T)
<1>3. m \in 0 .. N /\ m \notin S
  BY <1>2
<1>4. m # 0
  BY <1>3
<1>5. m - 1 \in 0 .. (N - 1) /\ m - 1 \notin T
  <2> HIDE DEF T
  <2> QED
    BY <1>2, <1>3, <1>4
<1>6. m - 1 \in S
  BY <1>5
<1>7. (m - 1) + 1 \in S
  BY <1>5, <1>6
<1> QED
  BY <1>3, <1>7

(* g is a loop of N rounds that starts with x; round k applies F[k].       *)
Loops(g, N, X, x, F) ==
    g \in [0 .. N -> X] /\ g[0] = x /\ \A k \in 1 .. N : g[k] = F[k][g[k - 1]]

(* Recursion: every loop can be run. *)
LEMMA Looping ==
    ASSUME NEW N \in Nat, NEW X, NEW x \in X, NEW F \in [1 .. N -> [X -> X]]
    PROVE  \E g : Loops(g, N, X, x, F)
<1> DEFINE S == {n \in 0 .. N : \E g : Loops(g, n, X, x, F)}
<1>1. 0 \in S
  <2>1. Loops([k \in 0 .. 0 |-> x], 0, X, x, F)
    BY DEF Loops
  <2> QED
    BY <2>1
<1>2. ASSUME NEW n \in 0 .. (N - 1), n \in S
      PROVE  n + 1 \in S
  <2>1. PICK g : Loops(g, n, X, x, F)
    BY <1>2
  <2> DEFINE h == [k \in 0 .. (n + 1) |-> IF k = n + 1 THEN F[n + 1][g[n]] ELSE g[k]]
  <2>2. g \in [0 .. n -> X] /\ g[0] = x /\ \A k \in 1 .. n : g[k] = F[k][g[k - 1]]
    BY <2>1 DEF Loops
  <2>3. F[n + 1] \in [X -> X] /\ g[n] \in X
    BY <2>2
  <2>4. h \in [0 .. (n + 1) -> X]
    BY <2>2, <2>3
  <2>5. \A k \in 1 .. (n + 1) : h[k] = F[k][h[k - 1]]
    BY <2>2
  <2>6. Loops(h, n + 1, X, x, F)
    BY <2>2, <2>4, <2>5 DEF Loops
  <2> QED
    BY <2>6
<1>3. 0 .. N \subseteq S
  <2> HIDE DEF S
  <2> QED
    BY <1>1, <1>2, UpTo
<1> QED
  BY <1>3

(* The same for the greatest element of a set of bounded naturals. *)
LEMMA MaxOfNats ==
    ASSUME NEW N \in Nat, NEW T \in SUBSET (1 .. N), T # {}
    PROVE  Max(T) \in T /\ \A x \in T : Max(T) >= x
<1> DEFINE D == {N - x : x \in T}
<1>1. D \in SUBSET Nat /\ D # {}
  <2>1. \A x \in T : N - x \in Nat
    OBVIOUS
  <2> QED
    BY <2>1
<1>2. Min(D) \in D /\ \A y \in D : Min(D) <= y
  <2> HIDE DEF D
  <2> QED
    BY <1>1, MinOfNats
<1>3. PICK x \in T : Min(D) = N - x
  <2> \A d \in D : \E x \in T : d = N - x
    OBVIOUS
  <2> HIDE DEF D
  <2> QED
    BY <1>2
<1>4. \A y \in T : x >= y
  <2> SUFFICES ASSUME NEW y \in T PROVE x >= y
    OBVIOUS
  <2>1. N - y \in D
    OBVIOUS
  <2>2. N - x <= N - y
    BY <1>2, <1>3, <2>1
  <2> QED
    BY <2>2
<1>5. \E z \in T : \A y \in T : z >= y
  BY <1>4
<1> QED
  BY <1>5 DEF Max

(* A finite set can be put in a sequence, each element once. *)
LEMMA SetToSeqIsInjective ==
    ASSUME NEW S, IsFiniteSet(S)
    PROVE  /\ SetToSeq(S) \in Seq(S)
           /\ Len(SetToSeq(S)) = Cardinality(S) /\ Cardinality(S) \in Nat
           /\ \A i, j \in 1 .. Cardinality(S) :
                 SetToSeq(S)[i] = SetToSeq(S)[j] => i = j
           /\ \A x \in S : \E i \in 1 .. Cardinality(S) : SetToSeq(S)[i] = x
<1> DEFINE N == Cardinality(S)
<1>1. N \in Nat /\ ExistsBijection(1 .. N, S)
  BY FS_CardinalityType
<1>2. \E f \in [1 .. N -> S] : IsInjective(f)
  BY <1>1 DEF ExistsBijection, Bijection, Injection, IsInjective
<1>3. SetToSeq(S) \in [1 .. N -> S] /\ IsInjective(SetToSeq(S))
  BY <1>2 DEF SetToSeq
<1>4. \A x \in S : \E i \in 1 .. N : SetToSeq(S)[i] = x
  <2>1. SetToSeq(S) \in Injection(1 .. N, S)
    BY <1>3 DEF Injection
  <2>2. Cardinality(1 .. N) = N
    BY <1>1, FS_Interval
  <2>3. SetToSeq(S) \in Surjection(1 .. N, S)
    BY <2>1, <2>2, FS_Injection
  <2> QED
    BY <2>3 DEF Surjection
<1>5. SetToSeq(S) \in Seq(S) /\ Len(SetToSeq(S)) = N
  BY <1>1, <1>3
<1> QED
  BY <1>1, <1>3, <1>4, <1>5 DEF IsInjective

-----------------------------------------------------------------------------
(* Typing, and what the look-ups in a table find. *)

Outcome == [st : Allocators, out : [Nodes -> Seq(Message)]]

(* Item i is a way to m in cube q. *)
Fits(i, m, q) == i.to = m /\ i.qos = q

LEMMA QoSIsCube ==
    /\ \A f \in Flows : QoS[f] \in Cubes
    /\ "mgmt" \in Cubes
  BY AllocationAssumption DEF Cubes, Range

LEMMA Constants ==
    /\ \A n, d \in Nodes : NextHop[n][d] \in Nodes
    /\ \A f \in Flows : Caller[f] \in Nodes /\ Callee[f] \in Nodes /\ Caller[f] # Callee[f]
    /\ \A f \in Flows : \A n : OtherEnd(n, f) \in Nodes
  BY AllocationAssumption DEF OtherEnd

LEMMA FindFirst ==
    ASSUME NEW t \in Seq(Item), NEW m, NEW q,
           NEW p, p = FindFlowByDstApni(t, m, q)
    PROVE  /\ p \in 0 .. Len(t)
           /\ p = 0 => \A i \in 1 .. Len(t) : ~Fits(t[i], m, q)
           /\ p # 0 => /\ p \in 1 .. Len(t) /\ Fits(t[p], m, q)
                       /\ \A i \in 1 .. Len(t) : Fits(t[i], m, q) => p <= i
<1> DEFINE I == {i \in 1 .. Len(t) : Fits(t[i], m, q)}
<1>1. p = IF I # {} THEN Min(I) ELSE 0
  BY DEF FindFlowByDstApni, SelectInSeq, Fits
<1>2. I # {} => Min(I) \in I /\ \A x \in I : Min(I) <= x
  <2>1. I \in SUBSET Nat
    OBVIOUS
  <2> HIDE DEF I
  <2> QED
    BY <2>1, MinOfNats
<1>3. CASE I = {}
  BY <1>1, <1>3
<1>4. CASE I # {}
  <2>1. p \in I /\ \A x \in I : p <= x
    <3> HIDE DEF I
    <3> QED
      BY <1>1, <1>2, <1>4
  <2> QED
    BY <2>1
<1> QED
  BY <1>3, <1>4

LEMMA PortToType ==
    ASSUME NEW t \in Seq(Item), NEW m, NEW p, p = PortTo(t, m)
    PROVE  /\ p \in 0 .. Len(t)
           /\ p = 0 => \A i \in 1 .. Len(t) : t[i].to # m
           /\ p # 0 => p \in 1 .. Len(t) /\ t[p].to = m
<1> DEFINE I == {i \in 1 .. Len(t) : t[i].to = m}
<1>1. p = IF I # {} THEN IF config.port = "first" THEN Min(I) ELSE Max(I) ELSE 0
  BY DEF PortTo, SelectInSeq, SelectLastInSeq
<1>2. I # {} => Min(I) \in I /\ Max(I) \in I
  <2>1. I \in SUBSET Nat /\ I \in SUBSET (1 .. Len(t)) /\ Len(t) \in Nat
    OBVIOUS
  <2> HIDE DEF I
  <2> QED
    BY <2>1, MinOfNats, MaxOfNats
<1>3. CASE I = {}
  BY <1>1, <1>3
<1>4. CASE I # {}
  <2>1. p \in I
    <3> HIDE DEF I
    <3> QED
      BY <1>1, <1>2, <1>4
  <2> QED
    BY <2>1
<1> QED
  BY <1>3, <1>4

(* Records of two fields: what EXCEPT makes of them. *)
LEMMA TwoFields ==
    ASSUME NEW A, NEW B, NEW o \in [st : A, out : B]
    PROVE  /\ \A s : /\ [o EXCEPT !.st = s].st = s /\ [o EXCEPT !.st = s].out = o.out
                    /\ s \in A => [o EXCEPT !.st = s] \in [st : A, out : B]
           /\ \A s : /\ [o EXCEPT !.out = s].out = s /\ [o EXCEPT !.out = s].st = o.st
                    /\ s \in B => [o EXCEPT !.out = s] \in [st : A, out : B]
           /\ \A m, s : [o EXCEPT !.out[m] = s] = [o EXCEPT !.out = [o.out EXCEPT ![m] = s]]
           /\ \A t : [o EXCEPT !.st.table = t] = [o EXCEPT !.st = [o.st EXCEPT !.table = t]]
           /\ \A p \in [st : A, out : B] : p.st = o.st /\ p.out = o.out => p = o
  OBVIOUS

(* The fields of an outcome, and what may replace them. *)
LEMMA OutcomeFields ==
    ASSUME NEW o \in Outcome
    PROVE  /\ o = [st |-> o.st, out |-> o.out]
           /\ o.st \in Allocators /\ o.out \in [Nodes -> Seq(Message)]
           /\ o.st.table \in Seq(Item)
           /\ o.st.status \in [Flows -> {"none", "ALLOC_PEND", "TRANSFER"}]
           /\ o.st.entered \in [Flows -> Nat]
           /\ o.st.forwards \in
                Seq([flow : Flows, to : Nodes, status : {"FORWARDING", "FORWARDED"}])
           /\ o.st.refused \in SUBSET Flows
  BY DEF Outcome, Allocators

LEMMA AllocatorsWith ==
    ASSUME NEW s \in Allocators, NEW t \in Seq(Item)
    PROVE  /\ [s EXCEPT !.table = t] \in Allocators
           /\ [s EXCEPT !.table = t].table = t
           /\ [s EXCEPT !.table = t].status = s.status
           /\ [s EXCEPT !.table = t].entered = s.entered
           /\ [s EXCEPT !.table = t].forwards = s.forwards
           /\ [s EXCEPT !.table = t].refused = s.refused
  BY DEF Allocators

(* What becomes of an item: established, opened, given a PDU to keep.      *)
Established(i) == [i EXCEPT !.established = TRUE]
Opened(i) == [i EXCEPT !.ready = TRUE, !.queue = <<>>]
Queued(i, msg) == [i EXCEPT !.queue = Append(@, msg)]

LEMMA EstablishedItem ==
    ASSUME NEW i \in Item
    PROVE  /\ Established(i) \in Item
           /\ Established(i).to = i.to /\ Established(i).qos = i.qos /\ Established(i).own = i.own
           /\ Established(i).established
           /\ Established(i).ready = i.ready /\ Established(i).queue = i.queue
  BY DEF Item, Established

LEMMA OpenedItem ==
    ASSUME NEW i \in Item
    PROVE  /\ Opened(i) \in Item
           /\ Opened(i).to = i.to /\ Opened(i).qos = i.qos /\ Opened(i).own = i.own
           /\ Opened(i).established = i.established
           /\ Opened(i).ready /\ Opened(i).queue = <<>>
<1> DEFINE r == [i EXCEPT !.ready = TRUE]
<1>1. /\ r \in Item /\ r.to = i.to /\ r.qos = i.qos /\ r.own = i.own
      /\ r.established = i.established /\ r.ready
  BY DEF Item
<1>2. Opened(i) = [r EXCEPT !.queue = <<>>]
  BY DEF Opened
<1> HIDE DEF r
<1>3. \A s \in Seq(Message) :
        /\ [r EXCEPT !.queue = s] \in Item
        /\ [r EXCEPT !.queue = s].to = r.to /\ [r EXCEPT !.queue = s].qos = r.qos
        /\ [r EXCEPT !.queue = s].own = r.own /\ [r EXCEPT !.queue = s].ready = r.ready
        /\ [r EXCEPT !.queue = s].established = r.established /\ [r EXCEPT !.queue = s].queue = s
  BY <1>1 DEF Item
<1>4. <<>> \in Seq(Message)
  OBVIOUS
<1> QED
  BY <1>1, <1>2, <1>3, <1>4

LEMMA QueuedItem ==
    ASSUME NEW i \in Item, NEW msg \in Message
    PROVE  /\ Queued(i, msg) \in Item
           /\ Queued(i, msg).to = i.to /\ Queued(i, msg).qos = i.qos /\ Queued(i, msg).own = i.own
           /\ Queued(i, msg).established = i.established /\ Queued(i, msg).ready = i.ready
           /\ Queued(i, msg).queue = Append(i.queue, msg)
  BY DEF Item, Queued

LEMMA NewItemFields ==
    ASSUME NEW m \in Nodes, NEW q \in Cubes, NEW own \in BOOLEAN
    PROVE  /\ NewItem(m, q, own) \in Item /\ Fits(NewItem(m, q, own), m, q)
           /\ NewItem(m, q, own).own = own /\ NewItem(m, q, own).queue = <<>>
           /\ ~NewItem(m, q, own).established /\ ~NewItem(m, q, own).ready
<1>1. <<>> \in Seq(Message)
  OBVIOUS
<1> QED
  BY <1>1 DEF NewItem, Item, Fits

LEMMA ItemFields ==
    ASSUME NEW i \in Item
    PROVE  /\ i.to \in Nodes /\ i.qos \in Cubes /\ i.own \in BOOLEAN
           /\ i.established \in BOOLEAN /\ i.ready \in BOOLEAN /\ i.queue \in Seq(Message)
  BY DEF Item

(* Item i is established, gets ready, keeps one message more. *)
EstablishAt(t, i) == [t EXCEPT ![i] = Established(t[i])]
OpenAt(t, i) == [t EXCEPT ![i] = Opened(t[i])]
QueueAt(t, i, msg) == [t EXCEPT ![i] = Queued(t[i], msg)]

LEMMA EstablishItem ==
    ASSUME NEW t \in Seq(Item), NEW p \in 1 .. Len(t)
    PROVE  /\ EstablishAt(t, p) \in Seq(Item) /\ Len(EstablishAt(t, p)) = Len(t)
           /\ \A i \in 1 .. Len(t) :
                 EstablishAt(t, p)[i] = IF i = p THEN Established(t[i]) ELSE t[i]
<1>1. \A i \in 1 .. Len(t) : t[i] \in Item
  OBVIOUS
<1> QED
  BY <1>1, EstablishedItem DEF EstablishAt

LEMMA OpenItem ==
    ASSUME NEW t \in Seq(Item), NEW p \in 1 .. Len(t)
    PROVE  /\ OpenAt(t, p) \in Seq(Item) /\ Len(OpenAt(t, p)) = Len(t)
           /\ \A i \in 1 .. Len(t) : OpenAt(t, p)[i] = IF i = p THEN Opened(t[i]) ELSE t[i]
<1>1. \A i \in 1 .. Len(t) : t[i] \in Item
  OBVIOUS
<1> QED
  BY <1>1, OpenedItem DEF OpenAt

LEMMA QueueItem ==
    ASSUME NEW t \in Seq(Item), NEW p \in 1 .. Len(t), NEW msg \in Message
    PROVE  /\ QueueAt(t, p, msg) \in Seq(Item) /\ Len(QueueAt(t, p, msg)) = Len(t)
           /\ \A i \in 1 .. Len(t) :
                 QueueAt(t, p, msg)[i] = IF i = p THEN Queued(t[i], msg) ELSE t[i]
<1>1. \A i \in 1 .. Len(t) : t[i] \in Item
  OBVIOUS
<1> QED
  BY <1>1, QueuedItem DEF QueueAt

-----------------------------------------------------------------------------
(* The operators of the resource allocator, as changes of the table and of *)
(* what is sent.                                                           *)

LEMMA AppendType ==
    ASSUME NEW S, NEW t \in Seq(S), NEW x \in S
    PROVE  /\ Append(t, x) \in Seq(S)
           /\ Len(Append(t, x)) = Len(t) + 1
           /\ \A i \in 1 .. Len(t) + 1 : Append(t, x)[i] = IF i = Len(t) + 1 THEN x ELSE t[i]
  OBVIOUS

(* An outcome with table t, and with the messages of s sent to m as well.  *)
Tabled(st, t) == [st EXCEPT !.table = t]
WithTable(o, t) == [o EXCEPT !.st.table = t]
PostAll(o, m, s) == [o EXCEPT !.out[m] = o.out[m] \o s]
One(msg) == <<msg>>
Sending(out, m, s) == [out EXCEPT ![m] = out[m] \o s]

LEMMA TabledFields ==
    ASSUME NEW o \in Outcome, NEW t \in Seq(Item)
    PROVE  /\ Tabled(o.st, t) \in Allocators
           /\ Tabled(o.st, t).table = t
           /\ Tabled(o.st, t).status = o.st.status
           /\ Tabled(o.st, t).entered = o.st.entered
           /\ Tabled(o.st, t).forwards = o.st.forwards
           /\ Tabled(o.st, t).refused = o.st.refused
  BY OutcomeFields, AllocatorsWith DEF Tabled

LEMMA TabledOutcome ==
    ASSUME NEW o \in Outcome, NEW t \in Seq(Item)
    PROVE  /\ WithTable(o, t) \in Outcome
           /\ WithTable(o, t).st = Tabled(o.st, t)
           /\ WithTable(o, t).out = o.out
<1>1. Tabled(o.st, t) \in Allocators
  BY TabledFields
<1>2. o \in [st : Allocators, out : [Nodes -> Seq(Message)]]
  BY DEF Outcome
<1>3. WithTable(o, t) = [o EXCEPT !.st = Tabled(o.st, t)]
  BY <1>2, TwoFields DEF WithTable, Tabled
<1> HIDE DEF Tabled
<1> QED
  BY <1>1, <1>2, <1>3, TwoFields DEF Outcome

LEMMA SendingType ==
    ASSUME NEW out \in [Nodes -> Seq(Message)], NEW m \in Nodes, NEW s \in Seq(Message)
    PROVE  /\ Sending(out, m, s) \in [Nodes -> Seq(Message)]
           /\ \A y \in Nodes : Sending(out, m, s)[y] = IF y = m THEN out[y] \o s ELSE out[y]
<1>1. out[m] \o s \in Seq(Message)
  OBVIOUS
<1> QED
  BY <1>1 DEF Sending

LEMMA SendingOutcome ==
    ASSUME NEW o \in Outcome, NEW m \in Nodes, NEW s \in Seq(Message)
    PROVE  /\ PostAll(o, m, s) \in Outcome
           /\ PostAll(o, m, s).st = o.st
           /\ PostAll(o, m, s).out = Sending(o.out, m, s)
<1> DEFINE o2 == PostAll(o, m, s)
           u == Sending(o.out, m, s)
<1>1. u \in [Nodes -> Seq(Message)]
  BY OutcomeFields, SendingType
<1>2. o \in [st : Allocators, out : [Nodes -> Seq(Message)]]
  BY DEF Outcome
<1>3. o2 = [o EXCEPT !.out = u]
  BY <1>2, TwoFields DEF PostAll, Sending
<1> HIDE DEF o2, u
<1>4. o2 \in Outcome /\ o2.st = o.st /\ o2.out = u
  BY <1>1, <1>2, <1>3, TwoFields DEF Outcome
<1> QED
  BY <1>4 DEF o2, u

LEMMA Posted ==
    ASSUME NEW o \in Outcome, NEW m \in Nodes, NEW msg \in Message
    PROVE  /\ Post(o, m, msg) \in Outcome
           /\ Post(o, m, msg).st = o.st
           /\ Post(o, m, msg).out = Sending(o.out, m, One(msg))
<1>1. o.out[m] \in Seq(Message)
  BY OutcomeFields
<1>2. Append(o.out[m], msg) = o.out[m] \o One(msg) /\ One(msg) \in Seq(Message)
  BY <1>1 DEF One
<1>3. Post(o, m, msg) = PostAll(o, m, One(msg))
  BY <1>2 DEF Post, PostAll
<1> QED
  BY <1>2, <1>3, SendingOutcome

LEMMA AddAndPost ==
    ASSUME NEW o \in Outcome, NEW m \in Nodes, NEW item \in Item, NEW msg \in Message,
           NEW a, a = WithTable(o, Append(o.st.table, item)),
           NEW o2, o2 = Post(a, m, msg)
    PROVE  /\ o2 \in Outcome
           /\ o2.st = Tabled(o.st, Append(o.st.table, item))
           /\ o2.out = Sending(o.out, m, One(msg))
<1> DEFINE t2 == Append(o.st.table, item)
<1>1. t2 \in Seq(Item)
  BY OutcomeFields, AppendType
<1>2. a = WithTable(o, t2)
  OBVIOUS
<1> HIDE DEF t2
<1>3. a \in Outcome /\ a.st = Tabled(o.st, t2) /\ a.out = o.out
  BY <1>1, <1>2, TabledOutcome
<1>4. o2 \in Outcome /\ o2.st = a.st /\ o2.out = Sending(a.out, m, One(msg))
  BY <1>3, Posted
<1> QED
  BY <1>3, <1>4 DEF t2

(* Messages about (N-1)-flows. *)
NM1(kind, q) == [kind |-> kind, qos |-> q]

LEMMA NM1Type ==
    ASSUME NEW q \in Cubes, NEW kind \in {"nm1create", "nm1created", "nm1refused"}
    PROVE  /\ NM1(kind, q) \in Message /\ NM1(kind, q).kind = kind /\ NM1(kind, q).qos = q
  BY DEF NM1, Message

LEMMA CreateNM1FlowDoes ==
    ASSUME NEW o \in Outcome, NEW m \in Nodes, NEW q \in Cubes,
           NEW o2, o2 = CreateNM1Flow(o, m, q)
    PROVE  /\ o2 \in Outcome
           /\ o2.st = Tabled(o.st, Append(o.st.table, NewItem(m, q, TRUE)))
           /\ o2.out = Sending(o.out, m, One(NM1("nm1create", q)))
<1> DEFINE item == NewItem(m, q, TRUE)
           msg  == NM1("nm1create", q)
           a    == WithTable(o, Append(o.st.table, item))
<1>1. item \in Item /\ msg \in Message
  BY NewItemFields, NM1Type
<1>2. o2 = Post(a, m, msg)
  BY DEF CreateNM1Flow, NM1, WithTable
<1> HIDE DEF item, msg
<1>3. a = WithTable(o, Append(o.st.table, item))
  OBVIOUS
<1> HIDE DEF a
<1>4. /\ o2 \in Outcome
      /\ o2.st = Tabled(o.st, Append(o.st.table, item))
      /\ o2.out = Sending(o.out, m, One(msg))
  BY <1>1, <1>2, <1>3, AddAndPost
<1> QED
  BY <1>4 DEF item, msg

LEMMA SetOutputReadyDoes ==
    ASSUME NEW o \in Outcome, NEW p \in 1 .. Len(o.st.table),
           NEW o2, o2 = SetOutputReady(o, p),
           NEW t2, t2 = OpenAt(o.st.table, p),
           NEW m, m = o.st.table[p].to
    PROVE  /\ o2 \in Outcome /\ t2 \in Seq(Item) /\ m \in Nodes
           /\ o.st.table[p].queue \in Seq(Message)
           /\ o2.st = Tabled(o.st, t2)
           /\ o2.out = Sending(o.out, m, o.st.table[p].queue)
<1>1. o.st.table \in Seq(Item) /\ o.st.table[p] \in Item
  BY OutcomeFields
<1>2. t2 \in Seq(Item)
  BY <1>1, OpenItem
<1> DEFINE a == WithTable(o, t2)
           s == o.st.table[p].queue
<1>3. m \in Nodes /\ s \in Seq(Message)
  BY <1>1, ItemFields
<1>4. o2 = [a EXCEPT !.out[m] = o.out[m] \o s]
  BY DEF SetOutputReady, Opened, OpenAt, WithTable
<1> HIDE DEF a, s
<1>5. a \in Outcome /\ a.st = Tabled(o.st, t2) /\ a.out = o.out
  BY <1>2, TabledOutcome DEF a
<1>6. o2 = PostAll(a, m, s)
  BY <1>4, <1>5 DEF PostAll
<1>7. o2 \in Outcome /\ o2.st = a.st /\ o2.out = Sending(a.out, m, s)
  BY <1>3, <1>5, <1>6, SendingOutcome
<1> QED
  BY <1>2, <1>3, <1>5, <1>7 DEF s

(* A PDU is dropped, sent, or kept at a port that is not ready. *)
LEMMA SendPDUDoes ==
    ASSUME NEW o \in Outcome, NEW m \in Nodes, NEW msg \in Message,
           NEW o2, o2 = SendPDU(o, m, msg)
    PROVE  /\ o2 \in Outcome
           /\ \/ o2 = o /\ \A i \in 1 .. Len(o.st.table) : o.st.table[i].to # m
              \/ o2.st = o.st /\ o2.out = Sending(o.out, m, One(msg))
              \/ /\ o2.out = o.out
                 /\ \E p \in 1 .. Len(o.st.table) :
                       /\ o.st.table[p].to = m /\ ~o.st.table[p].ready
                       /\ QueueAt(o.st.table, p, msg) \in Seq(Item)
                       /\ o2.st = Tabled(o.st, QueueAt(o.st.table, p, msg))
<1> DEFINE t == o.st.table
           p == PortTo(t, m)
<1>1. t \in Seq(Item)
  BY OutcomeFields
<1>2. /\ p \in 0 .. Len(t)
      /\ p = 0 => \A i \in 1 .. Len(t) : t[i].to # m
      /\ p # 0 => p \in 1 .. Len(t) /\ t[p].to = m
  BY <1>1, PortToType
<1>3. o2 = IF p = 0 THEN o ELSE IF t[p].ready THEN Post(o, m, msg)
           ELSE WithTable(o, QueueAt(t, p, msg))
  BY DEF SendPDU, Queued, WithTable, QueueAt
<1> HIDE DEF p
<1>4. CASE p = 0
  BY <1>2, <1>3, <1>4
<1>5. CASE p # 0 /\ t[p].ready
  BY <1>3, <1>5, Posted
<1>6. CASE p # 0 /\ ~t[p].ready
  <2>1. p \in 1 .. Len(t) /\ t[p].to = m /\ ~t[p].ready
    BY <1>2, <1>6
  <2>2. QueueAt(t, p, msg) \in Seq(Item)
    BY <1>1, <2>1, QueueItem
  <2>3. o2 \in Outcome /\ o2.st = Tabled(o.st, QueueAt(t, p, msg)) /\ o2.out = o.out
    BY <1>3, <1>6, <2>2, TabledOutcome
  <2> QED
    BY <2>1, <2>2, <2>3
<1> QED
  BY <1>4, <1>5, <1>6
-----------------------------------------------------------------------------
(* What the proofs ask of a table: is there an item for m in cube q, one   *)
(* with a ready port, one this end asked for, one that is not ready; is a  *)
(* message kept at a port to m.                                            *)

HasT(t, m, q)   == \E i \in 1 .. Len(t) : Fits(t[i], m, q)
ReadyT(t, m, q) == \E i \in 1 .. Len(t) : Fits(t[i], m, q) /\ t[i].ready
AskedT(t, m, q) == \E i \in 1 .. Len(t) : Fits(t[i], m, q) /\ t[i].own
IdleT(t, m, q)  == \E i \in 1 .. Len(t) : Fits(t[i], m, q) /\ ~t[i].ready
KeptT(t, m, msg) ==
    \E i \in 1 .. Len(t) : t[i].to = m /\ \E j \in 1 .. Len(t[i].queue) : t[i].queue[j] = msg

SentS(s, msg) == \E i \in 1 .. Len(s) : s[i] = msg

IsRequest(msg) == msg.kind \in {"M_CREATE", "M_CREATE_R"}

(* What is true of every table: an item this end asked for is the first of *)
(* its kind, the others are ready from the start, a ready port keeps       *)
(* nothing back, and the first item of a kind is established if and only   *)
(* if one of them is ready.                                                *)
OwnFirst(t) ==
    \A i, j \in 1 .. Len(t) : t[j].own /\ Fits(t[i], t[j].to, t[j].qos) => j <= i
OthersReady(t) == \A i \in 1 .. Len(t) : ~t[i].own => t[i].ready
ReadyKeepsNothing(t) == \A i \in 1 .. Len(t) : t[i].ready => t[i].queue = <<>>
KeepsRequests(t) ==
    \A i \in 1 .. Len(t) : \A j \in 1 .. Len(t[i].queue) : IsRequest(t[i].queue[j])
EstablishedIsReady(t) ==
    \A i \in 1 .. Len(t) : t[i].established => ReadyT(t, t[i].to, t[i].qos)
ReadyIsEstablished(t) ==
    \A i \in 1 .. Len(t) :
        ReadyT(t, t[i].to, t[i].qos)
        /\ (\A k \in 1 .. Len(t) : Fits(t[k], t[i].to, t[i].qos) => i <= k)
          => t[i].established

TableOK(t) ==
    /\ OwnFirst(t) /\ OthersReady(t) /\ ReadyKeepsNothing(t) /\ KeepsRequests(t)
    /\ EstablishedIsReady(t) /\ ReadyIsEstablished(t)

(* How a table may change: an item is added that this end asks for, one is *)
(* added that the other end asked for, the first of a kind gets ready and  *)
(* what it kept is sent, a port keeps a message. What else is there stays. *)
Creates(t, t2, m, q) ==
    /\ TableOK(t2)
    /\ \A y, r : /\ HasT(t2, y, r) <=> HasT(t, y, r) \/ (y = m /\ r = q)
                 /\ ReadyT(t2, y, r) <=> ReadyT(t, y, r)
                 /\ AskedT(t2, y, r) <=> AskedT(t, y, r) \/ (y = m /\ r = q)
                 /\ IdleT(t2, y, r) <=> IdleT(t, y, r) \/ (y = m /\ r = q)
    /\ \A y, msg : KeptT(t2, y, msg) <=> KeptT(t, y, msg)

Accepts(t, t2, m, q) ==
    /\ TableOK(t2)
    /\ \A y, r : /\ HasT(t2, y, r) <=> HasT(t, y, r) \/ (y = m /\ r = q)
                 /\ ReadyT(t2, y, r) <=> ReadyT(t, y, r) \/ (y = m /\ r = q)
                 /\ AskedT(t2, y, r) <=> AskedT(t, y, r)
                 /\ IdleT(t2, y, r) => IdleT(t, y, r)
    /\ \A y, msg : KeptT(t2, y, msg) <=> KeptT(t, y, msg)

Opens(t, t2, m, q, s) ==
    /\ TableOK(t2)
    /\ \A y, r : /\ HasT(t2, y, r) <=> HasT(t, y, r)
                 /\ ReadyT(t2, y, r) <=> ReadyT(t, y, r) \/ (y = m /\ r = q)
                 /\ AskedT(t2, y, r) <=> AskedT(t, y, r)
                 /\ IdleT(t2, y, r) => IdleT(t, y, r)
    /\ ~IdleT(t2, m, q)
    /\ \A y, msg : KeptT(t2, y, msg) => KeptT(t, y, msg)
    /\ \A y, msg : KeptT(t, y, msg) => KeptT(t2, y, msg) \/ (y = m /\ SentS(s, msg))
    /\ \A msg : SentS(s, msg) => KeptT(t, m, msg) /\ IsRequest(msg)

Keeps(t, t2, m, msg) ==
    /\ TableOK(t2)
    /\ \A y, r : /\ HasT(t2, y, r) <=> HasT(t, y, r)
                 /\ ReadyT(t2, y, r) <=> ReadyT(t, y, r)
                 /\ AskedT(t2, y, r) <=> AskedT(t, y, r)
                 /\ IdleT(t2, y, r) <=> IdleT(t, y, r)
    /\ \A y, a : KeptT(t2, y, a) <=> KeptT(t, y, a) \/ (y = m /\ a = msg)

(* A new item, item p is the first of its kind, all items are this end's   *)
(* own or ready, but for item l.                                           *)
IsNew(i, m, q) ==
    /\ i \in Item /\ i.to = m /\ i.qos = q
    /\ i.queue = <<>> /\ ~i.established /\ ~i.ready
FirstFit(t, p, m, q) ==
    /\ p \in 1 .. Len(t) /\ Fits(t[p], m, q)
    /\ \A i \in 1 .. Len(t) : Fits(t[i], m, q) => p <= i
OthersReadyBut(t, l) == \A i \in 1 .. Len(t) : i # l => t[i].own \/ t[i].ready

(* Item p gets established, item l ready. *)
OpenedAt(t, t2, p, l) ==
    /\ t2 \in Seq(Item) /\ Len(t2) = Len(t)
    /\ \A i \in 1 .. Len(t) :
          /\ t2[i].to = t[i].to /\ t2[i].qos = t[i].qos /\ t2[i].own = t[i].own
          /\ i # l => t2[i].ready = t[i].ready /\ t2[i].queue = t[i].queue
          /\ i # p => t2[i].established = t[i].established
    /\ t2[p].established
    /\ t2[l].ready /\ t2[l].queue = <<>>
OpensOnly(t, t2, l, m, q) ==
    /\ TableOK(t2)
    /\ \A y, r : /\ HasT(t2, y, r) <=> HasT(t, y, r)
                 /\ ReadyT(t2, y, r) <=> ReadyT(t, y, r) \/ (y = m /\ r = q)
                 /\ AskedT(t2, y, r) <=> AskedT(t, y, r)
                 /\ IdleT(t2, y, r) =>
                       \E i \in 1 .. Len(t) : i # l /\ Fits(t[i], y, r) /\ ~t[i].ready
    /\ \A y, msg : KeptT(t2, y, msg) => KeptT(t, y, msg)
    /\ \A y, msg : KeptT(t, y, msg) => KeptT(t2, y, msg) \/ (y = m /\ SentS(t[l].queue, msg))

(* An item for (m, q), own and idle, at the end of a table without one. *)
LEMMA TableCreate ==
    ASSUME NEW t \in Seq(Item), TableOK(t), NEW m \in Nodes, NEW q \in Cubes, ~HasT(t, m, q),
           NEW new, IsNew(new, m, q), new.own,
           NEW t2, t2 = Append(t, new)
    PROVE  Creates(t, t2, m, q)
<1>1. /\ new \in Item /\ new.to = m /\ new.qos = q
      /\ new.own /\ new.queue = <<>> /\ ~new.established /\ ~new.ready
  BY DEF IsNew
<1>2. /\ t2 \in Seq(Item) /\ Len(t2) = Len(t) + 1 /\ Len(t) \in Nat
      /\ \A i \in 1 .. Len(t) + 1 : t2[i] = IF i = Len(t) + 1 THEN new ELSE t[i]
  BY <1>1, AppendType
<1>3. \A y, r : /\ HasT(t2, y, r) <=> HasT(t, y, r) \/ (y = m /\ r = q)
                /\ ReadyT(t2, y, r) <=> ReadyT(t, y, r)
                /\ AskedT(t2, y, r) <=> AskedT(t, y, r) \/ (y = m /\ r = q)
                /\ IdleT(t2, y, r) <=> IdleT(t, y, r) \/ (y = m /\ r = q)
  <2> SUFFICES ASSUME NEW y, NEW r
               PROVE  /\ HasT(t2, y, r) <=> HasT(t, y, r) \/ (y = m /\ r = q)
                      /\ ReadyT(t2, y, r) <=> ReadyT(t, y, r)
                      /\ AskedT(t2, y, r) <=> AskedT(t, y, r) \/ (y = m /\ r = q)
                      /\ IdleT(t2, y, r) <=> IdleT(t, y, r) \/ (y = m /\ r = q)
    OBVIOUS
  <2>1. HasT(t2, y, r) <=> HasT(t, y, r) \/ (y = m /\ r = q)
    BY <1>1, <1>2 DEF HasT, Fits
  <2>2. ReadyT(t2, y, r) <=> ReadyT(t, y, r)
    BY <1>1, <1>2 DEF ReadyT, Fits
  <2>3. AskedT(t2, y, r) <=> AskedT(t, y, r) \/ (y = m /\ r = q)
    BY <1>1, <1>2 DEF AskedT, Fits
  <2>4. IdleT(t2, y, r) <=> IdleT(t, y, r) \/ (y = m /\ r = q)
    BY <1>1, <1>2 DEF IdleT, Fits
  <2> QED
    BY <2>1, <2>2, <2>3, <2>4
<1>4. \A y, msg : KeptT(t2, y, msg) <=> KeptT(t, y, msg)
  BY <1>1, <1>2 DEF KeptT
<1>5. OwnFirst(t2)
  BY <1>1, <1>2 DEF OwnFirst, TableOK, HasT, Fits
<1>6. OthersReady(t2)
  BY <1>1, <1>2 DEF OthersReady, TableOK
<1>7. ReadyKeepsNothing(t2)
  BY <1>1, <1>2 DEF ReadyKeepsNothing, TableOK
<1>8. KeepsRequests(t2)
  BY <1>1, <1>2 DEF KeepsRequests, TableOK
<1>9. EstablishedIsReady(t2)
  BY <1>1, <1>2, <1>3 DEF EstablishedIsReady, TableOK
<1>10. ReadyIsEstablished(t2)
  <2> SUFFICES ASSUME NEW i \in 1 .. Len(t2), ReadyT(t2, t2[i].to, t2[i].qos),
                      \A k \in 1 .. Len(t2) : Fits(t2[k], t2[i].to, t2[i].qos) => i <= k
               PROVE  t2[i].established
    BY DEF ReadyIsEstablished
  <2>1. ReadyT(t, t2[i].to, t2[i].qos)
    BY <1>3
  <2>2. i # Len(t) + 1
    BY <1>1, <1>2, <2>1 DEF HasT, ReadyT
  <2> QED
    BY <1>2, <2>1, <2>2 DEF ReadyIsEstablished, TableOK
<1> QED
  BY <1>2, <1>3, <1>4, <1>5, <1>6, <1>7, <1>8, <1>9, <1>10 DEF TableOK, Creates

LEMMA OpenTable ==
    ASSUME NEW t \in Seq(Item), NEW p \in 1 .. Len(t), NEW l \in 1 .. Len(t)
    PROVE  /\ OpenedAt(t, OpenAt(EstablishAt(t, p), l), p, l)
           /\ EstablishAt(t, p)[l].queue = t[l].queue /\ EstablishAt(t, p)[l].to = t[l].to
<1> DEFINE t2 == OpenAt(EstablishAt(t, p), l)
<1> DEFINE t1 == EstablishAt(t, p)
<1>1. t1 \in Seq(Item) /\ Len(t1) = Len(t)
      /\ \A i \in 1 .. Len(t) : t1[i] = IF i = p THEN Established(t[i]) ELSE t[i]
  BY EstablishItem
<1> HIDE DEF t1
<1>2. t2 \in Seq(Item) /\ Len(t2) = Len(t)
      /\ \A i \in 1 .. Len(t) : t2[i] = IF i = l THEN Opened(t1[i]) ELSE t1[i]
  BY <1>1, OpenItem DEF t1
<1> HIDE DEF t2
<1>3. \A i \in 1 .. Len(t) : t[i] \in Item /\ t1[i] \in Item
  BY <1>1
<1>4. \A i \in 1 .. Len(t) :
        /\ t1[i].to = t[i].to /\ t1[i].qos = t[i].qos /\ t1[i].own = t[i].own
        /\ t1[i].ready = t[i].ready /\ t1[i].queue = t[i].queue
        /\ i # p => t1[i].established = t[i].established
        /\ i = p => t1[i].established
  BY <1>1, <1>3, EstablishedItem
<1>5. \A i \in 1 .. Len(t) :
        /\ t2[i].to = t1[i].to /\ t2[i].qos = t1[i].qos /\ t2[i].own = t1[i].own
        /\ i # l => t2[i].ready = t1[i].ready /\ t2[i].queue = t1[i].queue
        /\ t2[i].established = t1[i].established
        /\ i = l => t2[i].ready /\ t2[i].queue = <<>>
  BY <1>2, <1>3, OpenedItem
<1>6. t1[l].queue = t[l].queue /\ t1[l].to = t[l].to
  BY <1>4
<1>7. t2[p].established /\ t2[l].ready /\ t2[l].queue = <<>>
  BY <1>4, <1>5
<1>8. \A i \in 1 .. Len(t) :
        /\ t2[i].to = t[i].to /\ t2[i].qos = t[i].qos /\ t2[i].own = t[i].own
        /\ i # l => t2[i].ready = t[i].ready /\ t2[i].queue = t[i].queue
        /\ i # p => t2[i].established = t[i].established
  BY <1>4, <1>5
<1> QED
  BY <1>2, <1>6, <1>7, <1>8 DEF t1, t2, OpenedAt

(* The first item for (m, q) is established, and item l for (m, q), which  *)
(* keeps s, gets ready: s is what is kept no longer.                       *)
LEMMA TableOpen ==
    ASSUME NEW t \in Seq(Item), OwnFirst(t), ReadyKeepsNothing(t), KeepsRequests(t),
           EstablishedIsReady(t), ReadyIsEstablished(t),
           NEW m, NEW q, NEW p, FirstFit(t, p, m, q),
           NEW l \in 1 .. Len(t), Fits(t[l], m, q), OthersReadyBut(t, l),
           NEW t2, OpenedAt(t, t2, p, l)
    PROVE  OpensOnly(t, t2, l, m, q)
<1>1. /\ p \in 1 .. Len(t) /\ Fits(t[p], m, q)
      /\ \A i \in 1 .. Len(t) : Fits(t[i], m, q) => p <= i
      /\ \A i \in 1 .. Len(t) : i # l => t[i].own \/ t[i].ready
  BY DEF FirstFit, OthersReadyBut
<1>2. /\ t2 \in Seq(Item) /\ Len(t2) = Len(t)
      /\ \A i \in 1 .. Len(t) :
            /\ t2[i].to = t[i].to /\ t2[i].qos = t[i].qos /\ t2[i].own = t[i].own
            /\ i # l => t2[i].ready = t[i].ready /\ t2[i].queue = t[i].queue
            /\ i # p => t2[i].established = t[i].established
      /\ t2[p].established /\ t2[l].ready /\ t2[l].queue = <<>>
  BY DEF OpenedAt
<1>3. Len(t) \in Nat /\ \A i \in 1 .. Len(t) : t[i].ready \in BOOLEAN /\ t[i].queue \in Seq(Message)
  <2>1. \A i \in 1 .. Len(t) : t[i] \in Item
    OBVIOUS
  <2> QED
    BY <1>1, <1>2, <2>1, ItemFields
<1>4. \A y, r : /\ HasT(t2, y, r) <=> HasT(t, y, r)
                /\ ReadyT(t2, y, r) <=> ReadyT(t, y, r) \/ (y = m /\ r = q)
                /\ AskedT(t2, y, r) <=> AskedT(t, y, r)
                /\ IdleT(t2, y, r) =>
                              \E i \in 1 .. Len(t) : i # l /\ Fits(t[i], y, r) /\ ~t[i].ready
  <2> SUFFICES ASSUME NEW y, NEW r
               PROVE  /\ HasT(t2, y, r) <=> HasT(t, y, r)
                      /\ ReadyT(t2, y, r) <=> ReadyT(t, y, r) \/ (y = m /\ r = q)
                      /\ AskedT(t2, y, r) <=> AskedT(t, y, r)
                      /\ IdleT(t2, y, r) =>
                              \E i \in 1 .. Len(t) : i # l /\ Fits(t[i], y, r) /\ ~t[i].ready
    OBVIOUS
  <2>1. HasT(t2, y, r) <=> HasT(t, y, r)
    BY <1>1, <1>2 DEF HasT, Fits
  <2>2. ReadyT(t2, y, r) <=> ReadyT(t, y, r) \/ (y = m /\ r = q)
    <3>1. ReadyT(t2, y, r) => ReadyT(t, y, r) \/ (y = m /\ r = q)
      BY <1>1, <1>2 DEF ReadyT, Fits
    <3>2. ReadyT(t, y, r) => ReadyT(t2, y, r)
      BY <1>1, <1>2, <1>3 DEF ReadyT, Fits
    <3>3. ReadyT(t2, m, q)
      BY <1>1, <1>2 DEF ReadyT, Fits
    <3> QED
      BY <1>1, <1>2, <3>1, <3>2, <3>3
  <2>3. AskedT(t2, y, r) <=> AskedT(t, y, r)
    BY <1>1, <1>2 DEF AskedT, Fits
  <2>4. IdleT(t2, y, r) =>
                              \E i \in 1 .. Len(t) : i # l /\ Fits(t[i], y, r) /\ ~t[i].ready
    BY <1>1, <1>2 DEF IdleT, Fits
  <2> QED
    BY <1>1, <1>2, <2>1, <2>2, <2>3, <2>4
<1>5. /\ \A y, msg : KeptT(t2, y, msg) => KeptT(t, y, msg)
      /\ \A y, msg : KeptT(t, y, msg) =>
            \/ KeptT(t2, y, msg)
            \/ y = m /\ \E j \in 1 .. Len(t[l].queue) : t[l].queue[j] = msg
  <2> SUFFICES ASSUME NEW y, NEW msg
               PROVE  /\ KeptT(t2, y, msg) => KeptT(t, y, msg)
                      /\ KeptT(t, y, msg) =>
                            \/ KeptT(t2, y, msg)
                            \/ y = m /\ \E j \in 1 .. Len(t[l].queue) : t[l].queue[j] = msg
    OBVIOUS
  <2>1. KeptT(t2, y, msg) => KeptT(t, y, msg)
    BY <1>1, <1>2 DEF KeptT
  <2>2. ASSUME KeptT(t, y, msg)
        PROVE  \/ KeptT(t2, y, msg)
               \/ y = m /\ \E j \in 1 .. Len(t[l].queue) : t[l].queue[j] = msg
    <3>1. PICK i \in 1 .. Len(t) : t[i].to = y /\ \E j \in 1 .. Len(t[i].queue) : t[i].queue[j] = msg
      BY <1>1, <1>2, <2>2 DEF KeptT
    <3>2. CASE i = l
      BY <1>1, <1>2, <3>1, <3>2 DEF Fits
    <3>3. CASE i # l
      BY <1>1, <1>2, <3>1, <3>3 DEF KeptT
    <3> QED
      BY <1>1, <1>2, <3>2, <3>3
  <2> QED
    BY <1>1, <1>2, <2>1, <2>2
<1>6. OwnFirst(t2)
  BY <1>1, <1>2 DEF OwnFirst, Fits
<1>7. OthersReady(t2)
  BY <1>1, <1>2, <1>3 DEF OthersReady
<1>8. ReadyKeepsNothing(t2)
  BY <1>1, <1>2 DEF ReadyKeepsNothing
<1>9. KeepsRequests(t2)
  BY <1>1, <1>2 DEF KeepsRequests
<1>10. EstablishedIsReady(t2)
  <2> SUFFICES ASSUME NEW i \in 1 .. Len(t2), t2[i].established
               PROVE  ReadyT(t2, t2[i].to, t2[i].qos)
    BY <1>1, <1>2 DEF EstablishedIsReady
  <2>1. CASE i = p
    BY <1>1, <1>2, <1>4, <2>1 DEF Fits
  <2>2. CASE i # p
    BY <1>1, <1>2, <1>4, <2>2 DEF EstablishedIsReady
  <2> QED
    BY <1>1, <1>2, <2>1, <2>2
<1>11. ReadyIsEstablished(t2)
  <2> SUFFICES ASSUME NEW i \in 1 .. Len(t2), ReadyT(t2, t2[i].to, t2[i].qos),
                      \A k \in 1 .. Len(t2) : Fits(t2[k], t2[i].to, t2[i].qos) => i <= k
               PROVE  t2[i].established
    BY <1>1, <1>2 DEF ReadyIsEstablished
  <2>0. i \in 1 .. Len(t) /\ t2[i].to = t[i].to /\ t2[i].qos = t[i].qos
    BY <1>2
  <2>1. CASE i = p
    BY <1>1, <1>2, <2>1
  <2>2. CASE i # p
    <3>1. \A k \in 1 .. Len(t) : Fits(t[k], t[i].to, t[i].qos) => i <= k
      BY <1>1, <1>2, <2>0 DEF Fits
    <3>2. ~(t[i].to = m /\ t[i].qos = q)
      BY <1>1, <1>2, <2>0, <2>2, <3>1, <1>3 DEF Fits
    <3>3. ReadyT(t, t[i].to, t[i].qos)
      BY <1>1, <1>2, <1>4, <2>0, <3>2
    <3> QED
      BY <1>1, <1>2, <2>0, <2>2, <3>1, <3>3 DEF ReadyIsEstablished
  <2> QED
    BY <1>1, <1>2, <2>1, <2>2
<1>12. \A y, msg : KeptT(t, y, msg) => KeptT(t2, y, msg) \/ (y = m /\ SentS(t[l].queue, msg))
  BY <1>5 DEF SentS
<1> QED
  BY <1>4, <1>5, <1>6, <1>7, <1>8, <1>9, <1>10, <1>11, <1>12 DEF TableOK, OpensOnly

(* Item p, which is not ready, keeps one message more. *)
LEMMA TableQueue ==
    ASSUME NEW t \in Seq(Item), TableOK(t), NEW p \in 1 .. Len(t), ~t[p].ready,
           NEW msg \in Message, IsRequest(msg), NEW t2, t2 = QueueAt(t, p, msg)
    PROVE  t2 \in Seq(Item) /\ Keeps(t, t2, t[p].to, msg)
<1>1. \A i \in 1 .. Len(t) : t[i] \in Item
  OBVIOUS
<1>2. /\ t2 \in Seq(Item) /\ Len(t2) = Len(t)
      /\ \A i \in 1 .. Len(t) :
            /\ t2[i].to = t[i].to /\ t2[i].qos = t[i].qos /\ t2[i].own = t[i].own
            /\ t2[i].ready = t[i].ready /\ t2[i].established = t[i].established
            /\ i # p => t2[i].queue = t[i].queue
      /\ t2[p].queue = Append(t[p].queue, msg)
  <2>1. /\ t2 \in Seq(Item) /\ Len(t2) = Len(t)
        /\ \A i \in 1 .. Len(t) : t2[i] = IF i = p THEN Queued(t[i], msg) ELSE t[i]
    BY QueueItem
  <2> QED
    BY <1>1, <2>1, QueuedItem
<1>3. /\ t[p].queue \in Seq(Message)
      /\ Len(t2[p].queue) = Len(t[p].queue) + 1
      /\ \A j \in 1 .. Len(t[p].queue) + 1 :
            t2[p].queue[j] = IF j = Len(t[p].queue) + 1 THEN msg ELSE t[p].queue[j]
  <2> DEFINE a == t[p].queue
             b == t2[p].queue
  <2>1. a \in Seq(Message) /\ b = Append(a, msg)
    BY <1>1, <1>2, ItemFields
  <2> HIDE DEF a, b
  <2>2. /\ Len(b) = Len(a) + 1
        /\ \A j \in 1 .. Len(a) + 1 : b[j] = IF j = Len(a) + 1 THEN msg ELSE a[j]
    BY <2>1, AppendType
  <2> QED
    BY <2>1, <2>2 DEF a, b
<1>4. t2 \in Seq(Item) /\ Len(t2) = Len(t)
  BY <1>2
<1>5. \A y, r : /\ HasT(t2, y, r) <=> HasT(t, y, r)
                /\ ReadyT(t2, y, r) <=> ReadyT(t, y, r)
                /\ AskedT(t2, y, r) <=> AskedT(t, y, r)
                /\ IdleT(t2, y, r) <=> IdleT(t, y, r)
  <2>1. \A y, r : HasT(t2, y, r) <=> HasT(t, y, r)
    BY <1>2 DEF HasT, Fits
  <2>2. \A y, r : ReadyT(t2, y, r) <=> ReadyT(t, y, r)
    BY <1>2 DEF ReadyT, Fits
  <2>3. \A y, r : AskedT(t2, y, r) <=> AskedT(t, y, r)
    BY <1>2 DEF AskedT, Fits
  <2>4. \A y, r : IdleT(t2, y, r) <=> IdleT(t, y, r)
    BY <1>2 DEF IdleT, Fits
  <2> QED
    BY <2>1, <2>2, <2>3, <2>4
<1>6. \A y, a : KeptT(t2, y, a) <=> KeptT(t, y, a) \/ (y = t[p].to /\ a = msg)
  <2> SUFFICES ASSUME NEW y, NEW a
               PROVE  KeptT(t2, y, a) <=> KeptT(t, y, a) \/ (y = t[p].to /\ a = msg)
    OBVIOUS
  <2>0. Len(t[p].queue) \in Nat
    BY <1>3
  <2>1. ASSUME KeptT(t2, y, a)
        PROVE  KeptT(t, y, a) \/ (y = t[p].to /\ a = msg)
    <3>1. PICK i \in 1 .. Len(t) :
            t2[i].to = y /\ \E j \in 1 .. Len(t2[i].queue) : t2[i].queue[j] = a
      BY <2>1, <1>4 DEF KeptT
    <3>5. PICK j \in 1 .. Len(t2[i].queue) : t2[i].queue[j] = a
      BY <3>1
    <3>2. CASE i = p /\ j = Len(t[p].queue) + 1
      BY <1>2, <1>3, <3>1, <3>2, <3>5
    <3>3. CASE i = p /\ j # Len(t[p].queue) + 1
      <4>1. j \in 1 .. Len(t[p].queue) /\ t[p].queue[j] = a
        BY <1>3, <2>0, <3>3, <3>5
      <4> QED
        BY <1>2, <3>1, <3>3, <4>1 DEF KeptT
    <3>4. CASE i # p
      BY <1>2, <3>1, <3>4, <3>5 DEF KeptT
    <3> QED
      BY <3>2, <3>3, <3>4
  <2>2. ASSUME KeptT(t, y, a)
        PROVE  KeptT(t2, y, a)
    <3>1. PICK i \in 1 .. Len(t) :
            t[i].to = y /\ \E j \in 1 .. Len(t[i].queue) : t[i].queue[j] = a
      BY <2>2 DEF KeptT
    <3>5. PICK j \in 1 .. Len(t[i].queue) : t[i].queue[j] = a
      BY <3>1
    <3>2. CASE i = p
      <4>1. j \in 1 .. Len(t2[p].queue) /\ t2[p].queue[j] = a
        BY <1>3, <2>0, <3>2, <3>5
      <4> QED
        BY <1>2, <3>1, <3>2, <4>1 DEF KeptT
    <3>3. CASE i # p
      BY <1>2, <3>1, <3>3, <3>5 DEF KeptT
    <3> QED
      BY <3>2, <3>3
  <2>3. KeptT(t2, t[p].to, msg)
    <3>1. Len(t2[p].queue) \in 1 .. Len(t2[p].queue) /\ t2[p].queue[Len(t2[p].queue)] = msg
      BY <1>3, <2>0
    <3> QED
      BY <1>2, <3>1 DEF KeptT
  <2> QED
    BY <2>1, <2>2, <2>3
<1>7. OwnFirst(t2)
  BY <1>2 DEF OwnFirst, Fits, TableOK
<1>8. OthersReady(t2)
  BY <1>2 DEF OthersReady, TableOK
<1>9. ReadyKeepsNothing(t2)
  BY <1>2 DEF ReadyKeepsNothing, TableOK
<1>10. KeepsRequests(t2)
  <2> SUFFICES ASSUME NEW i \in 1 .. Len(t2), NEW j \in 1 .. Len(t2[i].queue)
               PROVE  IsRequest(t2[i].queue[j])
    BY DEF KeepsRequests
  <2>1. KeptT(t2, t2[i].to, t2[i].queue[j])
    BY DEF KeptT
  <2>2. KeptT(t, t2[i].to, t2[i].queue[j]) \/ t2[i].queue[j] = msg
    BY <1>6, <2>1
  <2>3. \A y, a : KeptT(t, y, a) => IsRequest(a)
    BY DEF KeptT, KeepsRequests, TableOK
  <2> QED
    BY <2>2, <2>3
<1>11. EstablishedIsReady(t2)
  BY <1>2, <1>5 DEF EstablishedIsReady, TableOK
<1>12. ReadyIsEstablished(t2)
  <2>1. ReadyIsEstablished(t)
    BY DEF TableOK
  <2> QED
    BY <1>2, <1>5, <2>1 DEF ReadyIsEstablished, Fits
<1> QED
  BY <1>4, <1>5, <1>6, <1>7, <1>8, <1>9, <1>10, <1>11, <1>12 DEF TableOK, Keeps

-----------------------------------------------------------------------------
(* What the proofs ask of what is under way: is a message there, and does  *)
(* one of S come before each message b.                                    *)

CoveredS(s, S, b) ==
    \A i \in 1 .. Len(s) : s[i] = b => \E j \in 1 .. (i - 1) : s[j] \in S

LEMMA SameSeq ==
    ASSUME NEW T, NEW s \in Seq(T), NEW u \in Seq(T), Len(s) = Len(u),
           \A i \in 1 .. Len(s) : s[i] = u[i]
    PROVE  s = u
  OBVIOUS

LEMMA ConcatSent ==
    ASSUME NEW T, NEW s \in Seq(T), NEW u \in Seq(T)
    PROVE  /\ \A msg : SentS(s \o u, msg) <=> SentS(s, msg) \/ SentS(u, msg)
           /\ \A S, b : CoveredS(s, S, b) /\ (SentS(u, b) => \E a \in S : SentS(s, a))
                          => CoveredS(s \o u, S, b)
           /\ s # <<>> => s \o u # <<>> /\ Tail(s \o u) = Tail(s) \o u
                          /\ Head(s \o u) = Head(s)
<1> DEFINE v == s \o u
<1>1. /\ v \in Seq(T) /\ Len(v) = Len(s) + Len(u) /\ Len(s) \in Nat /\ Len(u) \in Nat
      /\ \A i \in 1 .. Len(s) + Len(u) : v[i] = IF i <= Len(s) THEN s[i] ELSE u[i - Len(s)]
  OBVIOUS
<1>2. /\ \A i \in 1 .. Len(s) : i \in 1 .. Len(v) /\ v[i] = s[i]
      /\ \A i \in 1 .. Len(u) : (Len(s) + i) \in 1 .. Len(v) /\ v[Len(s) + i] = u[i]
      /\ \A i \in 1 .. Len(v) : i \in 1 .. Len(s) \/ \E k \in 1 .. Len(u) : i = Len(s) + k
  <2>1. \A i \in 1 .. Len(v) : i \in 1 .. Len(s) \/ \E k \in 1 .. Len(u) : i = Len(s) + k
    <3> SUFFICES ASSUME NEW i \in 1 .. Len(v), i \notin 1 .. Len(s)
                 PROVE  \E k \in 1 .. Len(u) : i = Len(s) + k
      OBVIOUS
    <3>1. i - Len(s) \in 1 .. Len(u) /\ i = Len(s) + (i - Len(s))
      BY <1>1
    <3> QED
      BY <3>1
  <2>2. \A i \in 1 .. Len(s) : i \in 1 .. Len(v) /\ v[i] = s[i]
    BY <1>1
  <2>3. \A i \in 1 .. Len(u) : (Len(s) + i) \in 1 .. Len(v) /\ v[Len(s) + i] = u[i]
    BY <1>1
  <2> QED
    BY <2>1, <2>2, <2>3
<1>3. s # <<>> => v # <<>> /\ Tail(v) = Tail(s) \o u /\ Head(v) = Head(s)
  <2> SUFFICES ASSUME s # <<>> PROVE v # <<>> /\ Tail(v) = Tail(s) \o u /\ Head(v) = Head(s)
    OBVIOUS
  <2>1. Len(s) >= 1
    OBVIOUS
  <2>2. Tail(s) \in Seq(T) /\ Len(Tail(s)) = Len(s) - 1
        /\ \A i \in 1 .. (Len(s) - 1) : Tail(s)[i] = s[i + 1]
    BY <2>1
  <2>3. v # <<>> /\ Tail(v) \in Seq(T) /\ Len(Tail(v)) = Len(v) - 1
        /\ \A i \in 1 .. (Len(v) - 1) : Tail(v)[i] = v[i + 1]
    BY <1>1, <2>1
  <2>4. Tail(s) \o u \in Seq(T) /\ Len(Tail(s) \o u) = Len(v) - 1
    BY <1>1, <2>2
  <2>5. \A i \in 1 .. (Len(v) - 1) : (Tail(s) \o u)[i] = v[i + 1]
    BY <1>1, <2>1, <2>2
  <2>6. Tail(v) = Tail(s) \o u
    <3> DEFINE a == Tail(v)
               b == Tail(s) \o u
    <3>1. a \in Seq(T) /\ b \in Seq(T) /\ Len(a) = Len(b)
          /\ \A i \in 1 .. Len(a) : a[i] = b[i]
      BY <2>3, <2>4, <2>5
    <3> HIDE DEF a, b
    <3>2. a = b
      BY <3>1, SameSeq
    <3> QED
      BY <3>2 DEF a, b
  <2> QED
    BY <1>1, <2>1, <2>3, <2>6
<1> HIDE DEF v
<1>4. \A msg : SentS(v, msg) <=> SentS(s, msg) \/ SentS(u, msg)
  BY <1>2 DEF SentS
<1>5. ASSUME NEW S, NEW b, CoveredS(s, S, b), SentS(u, b) => \E a \in S : SentS(s, a)
      PROVE  CoveredS(v, S, b)
  <2> SUFFICES ASSUME NEW i \in 1 .. Len(v), v[i] = b
               PROVE  \E j \in 1 .. (i - 1) : v[j] \in S
    BY DEF CoveredS
  <2>1. CASE i \in 1 .. Len(s)
    <3>1. PICK j \in 1 .. (i - 1) : s[j] \in S
      BY <1>2, <1>5, <2>1 DEF CoveredS
    <3>2. j \in 1 .. Len(s)
      BY <2>1
    <3> QED
      BY <1>2, <3>1, <3>2
  <2>2. CASE \E k \in 1 .. Len(u) : i = Len(s) + k
    <3>1. PICK k \in 1 .. Len(u) : i = Len(s) + k
      BY <2>2
    <3>2. SentS(u, b)
      BY <1>2, <3>1 DEF SentS
    <3>3. PICK j \in 1 .. Len(s) : s[j] \in S
      BY <1>5, <3>2 DEF SentS
    <3>4. j \in 1 .. (i - 1)
      BY <1>1, <3>1
    <3> QED
      BY <1>2, <3>3, <3>4
  <2> QED
    BY <1>2, <2>1, <2>2
<1> QED
  BY <1>3, <1>4, <1>5 DEF v

LEMMA TailSent ==
    ASSUME NEW T, NEW s \in Seq(T), s # <<>>
    PROVE  /\ \A msg : SentS(s, msg) <=> msg = Head(s) \/ SentS(Tail(s), msg)
           /\ \A S, b : CoveredS(s, S, b) => Head(s) # b
           /\ \A S, b : CoveredS(s, S, b) /\ Head(s) \notin S => CoveredS(Tail(s), S, b)
<1> DEFINE v == Tail(s)
<1>1. /\ Len(s) \in Nat /\ Len(s) >= 1 /\ Len(v) = Len(s) - 1 /\ Head(s) = s[1]
      /\ \A i \in 1 .. (Len(s) - 1) : v[i] = s[i + 1]
  OBVIOUS
<1> HIDE DEF v
<1>2. \A msg : SentS(s, msg) <=> msg = Head(s) \/ SentS(v, msg)
  <2> SUFFICES ASSUME NEW msg PROVE SentS(s, msg) <=> msg = Head(s) \/ SentS(v, msg)
    OBVIOUS
  <2>1. ASSUME SentS(s, msg), msg # Head(s) PROVE SentS(v, msg)
    <3>1. PICK i \in 1 .. Len(s) : s[i] = msg
      BY <2>1 DEF SentS
    <3>2. i - 1 \in 1 .. Len(v) /\ v[i - 1] = msg
      BY <1>1, <2>1, <3>1
    <3> QED
      BY <3>2 DEF SentS
  <2>2. ASSUME SentS(v, msg) PROVE SentS(s, msg)
    <3>1. PICK i \in 1 .. Len(v) : v[i] = msg
      BY <2>2 DEF SentS
    <3>2. i + 1 \in 1 .. Len(s) /\ s[i + 1] = msg
      BY <1>1, <3>1
    <3> QED
      BY <3>2 DEF SentS
  <2>3. SentS(s, Head(s))
    BY <1>1 DEF SentS
  <2> QED
    BY <2>1, <2>2, <2>3
<1>3. \A S, b : CoveredS(s, S, b) => Head(s) # b
  BY <1>1 DEF CoveredS
<1>4. ASSUME NEW S, NEW b, CoveredS(s, S, b), Head(s) \notin S
      PROVE  CoveredS(v, S, b)
  <2> SUFFICES ASSUME NEW i \in 1 .. Len(v), v[i] = b
               PROVE  \E j \in 1 .. (i - 1) : v[j] \in S
    BY DEF CoveredS
  <2>1. i + 1 \in 1 .. Len(s) /\ s[i + 1] = b
    BY <1>1
  <2>2. PICK j \in 1 .. i : s[j] \in S
    BY <1>4, <2>1 DEF CoveredS
  <2>3. j # 1
    BY <1>1, <1>4, <2>2
  <2>4. j - 1 \in 1 .. (i - 1) /\ v[j - 1] = s[j]
    BY <1>1, <2>2, <2>3
  <2> QED
    BY <2>2, <2>4
<1> QED
  BY <1>2, <1>3, <1>4 DEF v

(* Of a kind there is one item that is not ready at most, the first. *)
LEMMA IdleIsFirst ==
    ASSUME NEW t \in Seq(Item), TableOK(t), NEW i \in 1 .. Len(t), ~t[i].ready
    PROVE  /\ t[i].own
           /\ \A k \in 1 .. Len(t) : Fits(t[k], t[i].to, t[i].qos) => i <= k
  BY DEF TableOK, OwnFirst, OthersReady, Fits

LEMMA TableCreates ==
    ASSUME NEW t \in Seq(Item), TableOK(t), NEW m \in Nodes, NEW q \in Cubes, ~HasT(t, m, q)
    PROVE  Creates(t, Append(t, NewItem(m, q, TRUE)), m, q)
<1> DEFINE new == NewItem(m, q, TRUE)
<1>1. IsNew(new, m, q) /\ new.own
  BY NewItemFields DEF Fits, IsNew
<1> HIDE DEF new
<1>2. Creates(t, Append(t, new), m, q)
  BY <1>1, TableCreate
<1> QED
  BY <1>2 DEF new

LEMMA TableOpens ==
    ASSUME NEW t \in Seq(Item), TableOK(t), NEW m, NEW q, NEW i, FirstFit(t, i, m, q)
    PROVE  Opens(t, OpenAt(EstablishAt(t, i), i), m, q, t[i].queue)
<1> DEFINE t2 == OpenAt(EstablishAt(t, i), i)
           s  == t[i].queue
<1>0. /\ i \in 1 .. Len(t) /\ Fits(t[i], m, q)
      /\ \A k \in 1 .. Len(t) : Fits(t[k], m, q) => i <= k
  BY DEF FirstFit
<1>1. OpenedAt(t, t2, i, i)
  BY <1>0, OpenTable
<1> HIDE DEF t2
<1>2. /\ OwnFirst(t) /\ ReadyKeepsNothing(t) /\ KeepsRequests(t)
      /\ EstablishedIsReady(t) /\ ReadyIsEstablished(t) /\ OthersReadyBut(t, i)
  BY DEF OthersReady, TableOK, OthersReadyBut
<1>3. OpensOnly(t, t2, i, m, q)
  BY <1>0, <1>1, <1>2, TableOpen
<1>4. ~IdleT(t2, m, q)
  <2> SUFFICES ASSUME NEW k \in 1 .. Len(t), k # i, Fits(t[k], m, q), ~t[k].ready PROVE FALSE
    BY <1>3 DEF OpensOnly
  <2>0. Len(t) \in Nat /\ i \in 1 .. Len(t) /\ k \in 1 .. Len(t)
    BY <1>0
  <2>1. \A j \in 1 .. Len(t) : Fits(t[j], t[k].to, t[k].qos) => k <= j
    BY IdleIsFirst
  <2>2. k <= i /\ i <= k
    BY <1>0, <2>1 DEF Fits
  <2> QED
    BY <2>0, <2>2
<1>5. \A y, r : IdleT(t2, y, r) => IdleT(t, y, r)
  BY <1>3 DEF IdleT, OpensOnly
<1>6. \A msg : SentS(s, msg) => KeptT(t, m, msg) /\ IsRequest(msg)
  BY <1>0, <1>2 DEF SentS, KeptT, Fits, KeepsRequests
<1>7. \A y, msg : KeptT(t, y, msg) => KeptT(t2, y, msg) \/ (y = m /\ SentS(s, msg))
  BY <1>3 DEF OpensOnly
<1> HIDE DEF s
<1>8. Opens(t, t2, m, q, s)
  BY <1>3, <1>4, <1>5, <1>6, <1>7 DEF Opens, OpensOnly
<1> QED
  BY <1>8 DEF t2, s

HoldsNothing(i, m) == i.queue = <<>> /\ i.to = m

LEMMA TableAccepts ==
    ASSUME NEW t \in Seq(Item), TableOK(t), NEW m \in Nodes, NEW q \in Cubes,
           NEW new, IsNew(new, m, q), ~new.own,
           NEW ta, ta = Append(t, new), NEW i, FirstFit(ta, i, m, q)
    PROVE  /\ Accepts(t, OpenAt(EstablishAt(ta, i), Len(ta)), m, q)
           /\ HoldsNothing(EstablishAt(ta, i)[Len(ta)], m)
<1>1. /\ new \in Item /\ new.to = m /\ new.qos = q
      /\ new.queue = <<>> /\ ~new.established /\ ~new.ready
  BY DEF IsNew
<1> DEFINE l == Len(ta)
           t2 == OpenAt(EstablishAt(ta, i), l)
<1>2. /\ ta \in Seq(Item) /\ Len(ta) = Len(t) + 1 /\ Len(t) \in Nat
      /\ \A k \in 1 .. Len(t) + 1 : ta[k] = IF k = Len(t) + 1 THEN new ELSE t[k]
  BY <1>1, AppendType
<1>3. l \in 1 .. Len(ta) /\ ta[l] = new /\ \A k \in 1 .. Len(ta) : k # l => k \in 1 .. Len(t) /\ ta[k] = t[k]
  BY <1>2
<1> HIDE DEF l
<1>4. /\ OpenedAt(ta, t2, i, l)
      /\ EstablishAt(ta, i)[l].queue = ta[l].queue /\ EstablishAt(ta, i)[l].to = ta[l].to
  BY <1>2, <1>3, OpenTable DEF FirstFit
<1> HIDE DEF t2
<1>5. OwnFirst(ta) /\ ReadyKeepsNothing(ta) /\ KeepsRequests(ta)
  <2>1. OwnFirst(ta)
    BY <1>1, <1>2, <1>3 DEF OwnFirst, TableOK, Fits, l
  <2>2. ReadyKeepsNothing(ta)
    BY <1>1, <1>2, <1>3 DEF ReadyKeepsNothing, TableOK
  <2>3. KeepsRequests(ta)
    BY <1>1, <1>2, <1>3 DEF KeepsRequests, TableOK
  <2> QED
    BY <2>1, <2>2, <2>3
<1>6. \A y, r : /\ HasT(ta, y, r) <=> HasT(t, y, r) \/ (y = m /\ r = q)
                /\ ReadyT(ta, y, r) <=> ReadyT(t, y, r)
                /\ AskedT(ta, y, r) <=> AskedT(t, y, r)
  <2>1. \A y, r : HasT(ta, y, r) <=> HasT(t, y, r) \/ (y = m /\ r = q)
    BY <1>1, <1>2 DEF HasT, Fits
  <2>2. \A y, r : ReadyT(ta, y, r) <=> ReadyT(t, y, r)
    BY <1>1, <1>2 DEF ReadyT, Fits
  <2>3. \A y, r : AskedT(ta, y, r) <=> AskedT(t, y, r)
    BY <1>1, <1>2 DEF AskedT, Fits
  <2> QED
    BY <2>1, <2>2, <2>3
<1>7. EstablishedIsReady(ta)
  BY <1>1, <1>2, <1>3, <1>6 DEF EstablishedIsReady, TableOK
<1>8. ReadyIsEstablished(ta)
  <2> SUFFICES ASSUME NEW k \in 1 .. Len(ta), ReadyT(ta, ta[k].to, ta[k].qos),
                      \A j \in 1 .. Len(ta) : Fits(ta[j], ta[k].to, ta[k].qos) => k <= j
               PROVE  ta[k].established
    BY DEF ReadyIsEstablished
  <2>1. ReadyT(t, ta[k].to, ta[k].qos)
    BY <1>6
  <2>2. k # l
    BY <1>1, <1>2, <2>1 DEF ReadyT, l
  <2>3. \A j \in 1 .. Len(t) : Fits(t[j], t[k].to, t[k].qos) => k <= j
    BY <1>2, <1>3, <2>2
  <2> QED
    BY <1>3, <2>1, <2>2, <2>3 DEF ReadyIsEstablished, TableOK
<1>9. OthersReadyBut(ta, l)
  BY <1>3 DEF OthersReady, TableOK, OthersReadyBut
<1>10. Fits(ta[l], m, q) /\ ta[l].queue = <<>>
  BY <1>1, <1>3 DEF Fits
<1>12. OpensOnly(ta, t2, l, m, q)
  BY <1>2, <1>3, <1>4, <1>5, <1>7, <1>8, <1>9, <1>10, TableOpen
<1>13. \A y, r : IdleT(t2, y, r) => IdleT(t, y, r)
  BY <1>3, <1>12 DEF IdleT, OpensOnly
<1>14. \A y, msg : KeptT(t2, y, msg) <=> KeptT(t, y, msg)
  <2>1. \A y, msg : KeptT(ta, y, msg) => KeptT(t, y, msg)
    BY <1>1, <1>2, <1>3 DEF KeptT
  <2>2. \A y, msg : KeptT(t, y, msg) => KeptT(ta, y, msg)
    BY <1>1, <1>2, <1>3 DEF KeptT
  <2>3. \A msg : ~SentS(ta[l].queue, msg)
    BY <1>10 DEF SentS
  <2> QED
    BY <1>12, <2>1, <2>2, <2>3 DEF OpensOnly
<1>15. Accepts(t, t2, m, q)
  BY <1>6, <1>12, <1>13, <1>14 DEF Accepts, OpensOnly
<1> QED
  BY <1>4, <1>10, <1>15 DEF t2, l, Fits, HoldsNothing

-----------------------------------------------------------------------------
(* The way of a request, as far as it goes. *)
LEMMA WayType ==
    ASSUME NEW f \in Flows
    PROVE  /\ Cardinality(Nodes) \in Nat
           /\ Way[f] \in [0 .. Cardinality(Nodes) -> Nodes]
           /\ Way[f][0] = Caller[f]
           /\ \A k \in 1 .. Cardinality(Nodes) : Way[f][k] = NextHop[Way[f][k - 1]][Callee[f]]
<1> DEFINE N == Cardinality(Nodes)
           step == [x \in Nodes |-> NextHop[x][Callee[f]]]
           F == [k \in 1 .. N |-> step]
           Body(g, k) == IF k = 0 THEN Caller[f] ELSE NextHop[g[k - 1]][Callee[f]]
           Chosen == CHOOSE g : g = [k \in 0 .. N |-> Body(g, k)]
<1>1. N \in Nat
  BY AllocationAssumption, FS_CardinalityType
<1>2. step \in [Nodes -> Nodes] /\ Caller[f] \in Nodes /\ Callee[f] \in Nodes
  BY Constants
<1>3. F \in [1 .. N -> [Nodes -> Nodes]]
  BY <1>2
<1>4. PICK g : Loops(g, N, Nodes, Caller[f], F)
  <2> HIDE DEF F, step
  <2> QED
    BY <1>1, <1>2, <1>3, Looping
<1>5. /\ g \in [0 .. N -> Nodes] /\ g[0] = Caller[f]
      /\ \A k \in 1 .. N : g[k] = NextHop[g[k - 1]][Callee[f]]
  <2>1. g \in [0 .. N -> Nodes] /\ g[0] = Caller[f] /\ \A k \in 1 .. N : g[k] = F[k][g[k - 1]]
    BY <1>4 DEF Loops
  <2>2. \A k \in 1 .. N : g[k - 1] \in Nodes
    BY <1>1, <2>1
  <2> QED
    BY <2>1, <2>2
<1>6. g = [k \in 0 .. N |-> Body(g, k)]
  BY <1>1, <1>5
<1>7. Chosen = [k \in 0 .. N |-> Body(Chosen, k)]
  <2> HIDE DEF Body
  <2> QED
    BY <1>6
<1>8. Way[f] = Chosen
  BY DEF Way
<1> HIDE DEF Chosen
<1>9. /\ Way[f][0] = Caller[f]
      /\ \A k \in 1 .. N : Way[f][k] = NextHop[Way[f][k - 1]][Callee[f]]
      /\ Way[f] = [k \in 0 .. N |-> Way[f][k]]
  BY <1>1, <1>7, <1>8
<1> DEFINE S == {k \in 0 .. N : Way[f][k] \in Nodes}
<1>10. 0 .. N \subseteq S
  <2>1. 0 \in S
    BY <1>1, <1>2, <1>9
  <2>2. \A k \in 0 .. (N - 1) : k \in S => k + 1 \in S
    <3> SUFFICES ASSUME NEW k \in 0 .. (N - 1), k \in S PROVE k + 1 \in S
      OBVIOUS
    <3>1. k + 1 \in 1 .. N /\ (k + 1) - 1 = k
      BY <1>1
    <3>2. Way[f][k + 1] = NextHop[Way[f][k]][Callee[f]]
      BY <1>9, <3>1
    <3> QED
      BY <1>2, <3>1, <3>2, Constants
  <2> HIDE DEF S
  <2> QED
    BY <1>1, <2>1, <2>2, UpTo
<1> QED
  BY <1>1, <1>9, <1>10

(* The way ends at the callee, and comes to neither end before. *)
LEMMA WayEnds ==
    ASSUME NEW f \in Flows, RoutesAgree
    PROVE  /\ Length(f) \in 1 .. Cardinality(Nodes)
           /\ Way[f][Length(f)] = Callee[f]
           /\ \A k \in 0 .. Length(f) : Way[f][k] \in Nodes
           /\ \A k \in 0 .. (Length(f) - 1) :
                 /\ Way[f][k] # Callee[f]
                 /\ Way[f][k + 1] = NextHop[Way[f][k]][Callee[f]]
           /\ \A k \in 1 .. Length(f) :
                 /\ Way[f][k] # Caller[f]
                 /\ NextHop[Way[f][k]][Caller[f]] = Way[f][k - 1]
<1> DEFINE N == Cardinality(Nodes)
           K == {k \in 0 .. N : Way[f][k] = Callee[f]}
           L == Length(f)
<1>1. /\ N \in Nat /\ Way[f] \in [0 .. N -> Nodes] /\ Way[f][0] = Caller[f]
      /\ \A k \in 1 .. N : Way[f][k] = NextHop[Way[f][k - 1]][Callee[f]]
  BY WayType
<1>2. K \in SUBSET Nat /\ K # {} /\ L = Min(K)
  BY <1>1 DEF RoutesAgree, Length
<1>3. L \in K /\ \A x \in K : L <= x
  <2> HIDE DEF K, L
  <2> QED
    BY <1>2, MinOfNats
<1>4. 0 \notin K
  BY <1>1, Constants
<1>5. L \in 1 .. N /\ Way[f][L] = Callee[f]
  BY <1>1, <1>3, <1>4
<1>6. \A k \in 1 .. L : NextHop[Way[f][k]][Caller[f]] = Way[f][k - 1]
  BY DEF RoutesAgree
<1> HIDE DEF L
<1>7. \A k \in 0 .. (L - 1) : Way[f][k] # Callee[f]
  BY <1>1, <1>3, <1>5
<1>8. \A k \in 0 .. (L - 1) : Way[f][k + 1] = NextHop[Way[f][k]][Callee[f]]
  <2> SUFFICES ASSUME NEW k \in 0 .. (L - 1)
               PROVE  Way[f][k + 1] = NextHop[Way[f][k]][Callee[f]]
    OBVIOUS
  <2>1. k + 1 \in 1 .. N /\ (k + 1) - 1 = k
    BY <1>1, <1>5
  <2> QED
    BY <1>1, <2>1
<1>9. ASSUME NEW k \in 1 .. L, Way[f][k] = Caller[f]
      PROVE  FALSE
  <2> DEFINE S == {j \in 0 .. (L - k) : Way[f][k + j] = Way[f][j]}
  <2>1. 0 \in S
    BY <1>1, <1>5, <1>9
  <2>2. \A j \in 0 .. ((L - k) - 1) : j \in S => j + 1 \in S
    <3> SUFFICES ASSUME NEW j \in 0 .. ((L - k) - 1), j \in S PROVE j + 1 \in S
      OBVIOUS
    <3>1. k + j \in 0 .. (L - 1) /\ j \in 0 .. (L - 1) /\ (k + j) + 1 = k + (j + 1)
          /\ j + 1 \in 0 .. (L - k)
      BY <1>5
    <3>2. Way[f][(k + j) + 1] = NextHop[Way[f][k + j]][Callee[f]]
          /\ Way[f][j + 1] = NextHop[Way[f][j]][Callee[f]]
      BY <1>8, <3>1
    <3> QED
      BY <3>1, <3>2
  <2>3. L - k \in Nat
    BY <1>5
  <2>4. 0 .. (L - k) \subseteq S
    <3> HIDE DEF S
    <3> QED
      BY <2>1, <2>2, <2>3, UpTo
  <2>5. Way[f][k + (L - k)] = Way[f][L - k]
    BY <2>3, <2>4
  <2>6. k + (L - k) = L /\ L - k \in 0 .. (L - 1)
    BY <1>5
  <2> QED
    BY <1>5, <1>7, <2>5, <2>6
<1>10. \A k \in 0 .. L : Way[f][k] \in Nodes
  <2> HIDE DEF N, K
  <2> SUFFICES ASSUME NEW k \in 0 .. L PROVE Way[f][k] \in Nodes
    OBVIOUS
  <2>1. k \in 0 .. N
    BY <1>1, <1>5
  <2> QED
    BY <1>1, <2>1
<1> QED
  BY <1>5, <1>6, <1>7, <1>8, <1>9, <1>10 DEF L

-----------------------------------------------------------------------------
(* A world is what all processes are and what is under way: [p, w]. What   *)
(* the proofs ask of it.                                                   *)

Procs == [Nodes -> Allocators]
Wires == [Nodes -> [Nodes -> Seq(Message)]]

Has(p, x, y, q)   == HasT(p[x].table, y, q)
Ready(p, x, y, q) == ReadyT(p[x].table, y, q)
Asked(p, x, y, q) == AskedT(p[x].table, y, q)
Idle(p, x, y, q)  == IdleT(p[x].table, y, q)
Sent(w, x, y, msg) == SentS(w[x][y], msg)
Covered(w, x, y, S, b) == CoveredS(w[x][y], S, b)

(* A message is on its way from x to y, or x keeps it for y. *)
Under(p, w, x, y, msg) == Sent(w, x, y, msg) \/ KeptT(p[x].table, y, msg)

Asks(p, x, f) == p[x].status[f] # "none"
Up(p, x, f)   == p[x].status[f] = "TRANSFER"

(* x has a request for f toward d to forward, or has had one. *)
Entry(p, x, f, d) ==
    \E i \in 1 .. Len(p[x].forwards) : p[x].forwards[i].flow = f /\ p[x].forwards[i].to = d
Waits(p, x, f, d) ==
    \E i \in 1 .. Len(p[x].forwards) :
        /\ p[x].forwards[i].flow = f /\ p[x].forwards[i].to = d
        /\ p[x].forwards[i].status = "FORWARDING"

Req(f, d) == [kind |-> "M_CREATE", flow |-> f, to |-> d]
Ans(f, d) == [kind |-> "M_CREATE_R", flow |-> f, to |-> d]

(* The (N-1)-flow that x wants is refused, or will come up. *)
Awaited(w, x, y, q) ==
    IsRefused(x, y, q) \/ Sent(w, x, y, NM1("nm1create", q)) \/ Sent(w, y, x, NM1("nm1created", q))

(* (N-1)-flows: what is under way about them agrees with both tables, and  *)
(* whoever waits for one waits for something.                              *)
CreateIsAsked(p, w) ==
    \A x, y \in Nodes, q \in Cubes : Sent(w, x, y, NM1("nm1create", q)) => Asked(p, x, y, q)
CreatedIsReady(p, w) ==
    \A x, y \in Nodes, q \in Cubes :
        Sent(w, x, y, NM1("nm1created", q)) => Ready(p, x, y, q) /\ Asked(p, y, x, q)
ItemIsMatched(p, w) ==
    \A x, y \in Nodes, q \in Cubes :
        Has(p, x, y, q) =>
            \/ Ready(p, y, x, q) \/ IsRefused(x, y, q)
            \/ Sent(w, x, y, NM1("nm1create", q)) \/ Sent(w, x, y, NM1("nm1created", q))
ReadyIsMatched(p, w) ==
    \A x, y \in Nodes, q \in Cubes :
        Ready(p, x, y, q) => Ready(p, y, x, q) \/ Sent(w, x, y, NM1("nm1created", q))
IdleIsAwaited(p, w) ==
    \A x, y \in Nodes, q \in Cubes : Idle(p, x, y, q) => Awaited(w, x, y, q)
WaitIsAwaited(p, w) ==
    \A x \in Nodes, f \in Flows, d \in Nodes :
        Waits(p, x, f, d) => Awaited(w, x, NextHop[x][d], QoS[f])

TablesOK(p) == \A x \in Nodes : TableOK(p[x].table)
EnteredAgrees(p) ==
    \A x \in Nodes, f \in Flows :
        /\ p[x].entered[f] \in {0, 1}
        /\ ~Asks(p, x, f) => p[x].entered[f] = 0

Base(p, w) ==
    /\ p \in Procs /\ w \in Wires
    /\ TablesOK(p) /\ EnteredAgrees(p)
    /\ CreateIsAsked(p, w) /\ CreatedIsReady(p, w) /\ ItemIsMatched(p, w)
    /\ ReadyIsMatched(p, w) /\ IdleIsAwaited(p, w) /\ WaitIsAwaited(p, w)

(* Hop k of the way of f: a request may go on without an (N-1)-flow of its *)
(* cube if that was refused, but not to the callee and back.               *)
RefusedHop(f, k) == IsRefused(Way[f][k - 1], Way[f][k], QoS[f])
Exempt(f, k) == RefusedHop(f, k) /\ k # Length(f)

Back(p, f, k) == Ready(p, Way[f][k], Way[f][k - 1], QoS[f])
Forth(p, f, k) == Ready(p, Way[f][k - 1], Way[f][k], QoS[f])

(* A request has come k hops, has come to the callee and been answered, an *)
(* answer has come back as far as hop k.                                   *)
Past(p, f, k) == \A j \in 1 .. k : RefusedHop(f, j) \/ Back(p, f, j)
Answered(p, f) == \A j \in 1 .. Length(f) : Exempt(f, j) \/ Back(p, f, j)
Done(p, f, k) == \A j \in k .. Length(f) : Exempt(f, j) \/ (Back(p, f, j) /\ Forth(p, f, j))

(* What is true when a request, an answer of f is on its way from x to y.  *)
OnWay(p, f, x, y) ==
    /\ Has(p, x, y, QoS[f])
    /\ \E k \in 1 .. Length(f) : x = Way[f][k - 1] /\ y = Way[f][k] /\ Past(p, f, k - 1)
OnWayBack(p, f, x, y) ==
    /\ Answered(p, f) /\ Asks(p, Callee[f], f)
    /\ \E k \in 1 .. Length(f) : x = Way[f][k] /\ y = Way[f][k - 1] /\ Done(p, f, k + 1)

Allowed(p, f, x, y, msg) ==
    /\ \A d \in Nodes : msg = Req(f, d) =>
          /\ d \in {Caller[f], Callee[f]} /\ Asks(p, Caller[f], f)
          /\ d = Callee[f] => OnWay(p, f, x, y)
    /\ \A d \in Nodes : msg = Ans(f, d) => d = Caller[f] /\ OnWayBack(p, f, x, y)

(* The message about the (N-1)-flow from y is read before the request.     *)
Announces(q) == {NM1("nm1create", q), NM1("nm1created", q)}
RequestIsPreceded(p, w, f) ==
    \A x, y \in Nodes :
        \/ Ready(p, y, x, QoS[f]) \/ IsRefused(x, y, QoS[f])
        \/ Covered(w, x, y, Announces(QoS[f]), Req(f, Callee[f]))
AnswerIsPreceded(p, w, f) ==
    \A k \in 1 .. Length(f) :
        \/ Exempt(f, k) \/ Forth(p, f, k)
        \/ Covered(w, Way[f][k], Way[f][k - 1], {NM1("nm1created", QoS[f])}, Ans(f, Caller[f]))

EntryOK(p, f, x, d) ==
    /\ d \in {Caller[f], Callee[f]} /\ Asks(p, Caller[f], f)
    /\ Has(p, x, NextHop[x][d], QoS[f])
    /\ d = Callee[f] => OnWay(p, f, x, NextHop[x][d])

AskOK(p, f, x) ==
    /\ x \in {Caller[f], Callee[f]} /\ Asks(p, Caller[f], f)
    /\ Has(p, Caller[f], Way[f][1], QoS[f])

FlowOK(p, w, f) ==
    /\ \A x \in Nodes : Asks(p, x, f) => AskOK(p, f, x)
    /\ Up(p, Caller[f], f) => Done(p, f, 1)
    /\ \A x, y \in Nodes : \A msg \in Message :
          Under(p, w, x, y, msg) => Allowed(p, f, x, y, msg)
    /\ \A x, d \in Nodes : Entry(p, x, f, d) => EntryOK(p, f, x, d)
    /\ RequestIsPreceded(p, w, f) /\ AnswerIsPreceded(p, w, f)

Good(p, w) == Base(p, w) /\ (RoutesAgree => \A f \in Flows : FlowOK(p, w, f))

(* A flow none of whose (N-1)-flows may be refused is not forgotten.       *)
Clear(f) == \A h \in HopsOf(f) : ~MayBeStuck(h[1], h[2])
Coming(p, w, f) ==
    \/ Awaited(w, Caller[f], Way[f][1], QoS[f])
    \/ \E k \in 1 .. Length(f) :
          \/ Under(p, w, Way[f][k - 1], Way[f][k], Req(f, Callee[f]))
          \/ Waits(p, Way[f][k - 1], f, Callee[f])
Returning(p, w, f) ==
    \E k \in 1 .. Length(f) : Under(p, w, Way[f][k], Way[f][k - 1], Ans(f, Caller[f]))
LiveOK(p, w, f) ==
    RoutesAgree /\ Clear(f) =>
        /\ Asks(p, Caller[f], f) => Coming(p, w, f) \/ Asks(p, Callee[f], f)
        /\ Asks(p, Callee[f], f) =>
              Up(p, Callee[f], f) /\ (Up(p, Caller[f], f) \/ Returning(p, w, f))

Live(p, w) == \A f \in Flows : LiveOK(p, w, f)

(* What no part of a handler undoes. *)
Grows(p, w, p2, w2) ==
    /\ \A x, y \in Nodes : \A q :
          /\ Has(p, x, y, q) => Has(p2, x, y, q)
          /\ Ready(p, x, y, q) => Ready(p2, x, y, q)
          /\ Asked(p, x, y, q) => Asked(p2, x, y, q)
    /\ \A x, y \in Nodes : \A msg :
          /\ Sent(w, x, y, msg) => Sent(w2, x, y, msg)
          /\ Under(p, w, x, y, msg) => Under(p2, w2, x, y, msg)
    /\ \A x \in Nodes, f \in Flows :
          /\ Asks(p, x, f) => Asks(p2, x, f)
          /\ Up(p, x, f) => Up(p2, x, f)
    /\ RoutesAgree => \A x, d \in Nodes, f \in Flows :
          Waits(p, x, f, d) =>
              Waits(p2, x, f, d) \/ Under(p2, w2, x, NextHop[x][d], Req(f, d))

(* n sends the messages of s to m, all of them requests and answers or none. *)
Sends(n, m, s, w, w2) ==
    /\ w2 \in Wires /\ s \in Seq(Message)
    /\ \A x, y \in Nodes : w2[x][y] = IF x = n /\ y = m THEN w[x][y] \o s ELSE w[x][y]
    /\ \/ \A msg : SentS(s, msg) => IsRequest(msg)
       \/ \A msg : SentS(s, msg) => ~IsRequest(msg)

(* All that is new in [p2, w2] is as it must be. *)
SoundBase(p, w, p2, w2) ==
    /\ p2 \in Procs /\ w2 \in Wires /\ TablesOK(p2) /\ EnteredAgrees(p2)
    /\ \A x, y \in Nodes, q \in Cubes :
          Sent(w2, x, y, NM1("nm1create", q)) =>
              Sent(w, x, y, NM1("nm1create", q)) \/ Asked(p2, x, y, q)
    /\ \A x, y \in Nodes, q \in Cubes :
          Sent(w2, x, y, NM1("nm1created", q)) =>
              Sent(w, x, y, NM1("nm1created", q)) \/ (Ready(p2, x, y, q) /\ Asked(p2, y, x, q))
    /\ \A x, y \in Nodes, q \in Cubes :
          Has(p2, x, y, q) =>
              \/ Has(p, x, y, q)
              \/ Sent(w2, x, y, NM1("nm1create", q)) \/ Sent(w2, x, y, NM1("nm1created", q))
    /\ \A x, y \in Nodes, q \in Cubes :
          Ready(p2, x, y, q) =>
              Ready(p, x, y, q) \/ Ready(p2, y, x, q) \/ Sent(w2, x, y, NM1("nm1created", q))
    /\ \A x, y \in Nodes, q \in Cubes :
          Idle(p2, x, y, q) => Idle(p, x, y, q) \/ Awaited(w2, x, y, q)
    /\ \A x \in Nodes, f \in Flows, d \in Nodes :
          Waits(p2, x, f, d) => Waits(p, x, f, d) \/ Awaited(w2, x, NextHop[x][d], QoS[f])

SoundFlow(p, w, p2, w2, f) ==
    /\ \A x \in Nodes : Asks(p2, x, f) => Asks(p, x, f) \/ AskOK(p2, f, x)
    /\ Up(p2, Caller[f], f) => Up(p, Caller[f], f) \/ Done(p2, f, 1)
    /\ \A x, y \in Nodes : \A msg \in Message :
          Under(p2, w2, x, y, msg) => Under(p, w, x, y, msg) \/ Allowed(p2, f, x, y, msg)
    /\ \A x, d \in Nodes : Entry(p2, x, f, d) => Entry(p, x, f, d) \/ EntryOK(p2, f, x, d)

-----------------------------------------------------------------------------
LEMMA SendsSent ==
    ASSUME NEW n, NEW m, NEW s, NEW w, w \in Wires, NEW w2, Sends(n, m, s, w, w2),
           NEW x \in Nodes, NEW y \in Nodes, NEW msg
    PROVE  Sent(w2, x, y, msg) <=> Sent(w, x, y, msg) \/ (x = n /\ y = m /\ SentS(s, msg))
<1>1. s \in Seq(Message) /\ w2[x][y] = IF x = n /\ y = m THEN w[x][y] \o s ELSE w[x][y]
  BY DEF Sends
<1>2. w[x][y] \in Seq(Message)
  BY DEF Wires
<1>3. CASE x = n /\ y = m
  BY <1>1, <1>2, <1>3, ConcatSent DEF Sent
<1>4. CASE ~(x = n /\ y = m)
  BY <1>1, <1>4 DEF Sent
<1> QED
  BY <1>3, <1>4

LEMMA SendsCovered ==
    ASSUME NEW n, NEW m, NEW s, NEW w, w \in Wires, NEW w2, Sends(n, m, s, w, w2),
           NEW x \in Nodes, NEW y \in Nodes, NEW S, NEW b, Covered(w, x, y, S, b),
           x = n /\ y = m /\ SentS(s, b) => \E a \in S : Sent(w, x, y, a)
    PROVE  Covered(w2, x, y, S, b)
<1>1. s \in Seq(Message) /\ w2[x][y] = IF x = n /\ y = m THEN w[x][y] \o s ELSE w[x][y]
  BY DEF Sends
<1>2. w[x][y] \in Seq(Message)
  BY DEF Wires
<1>3. CASE x = n /\ y = m
  <2>1. CoveredS(w[x][y], S, b) /\ (SentS(s, b) => \E a \in S : SentS(w[x][y], a))
    BY <1>3 DEF Covered, Sent
  <2>2. CoveredS(w[x][y] \o s, S, b)
    BY <1>1, <1>2, <2>1, ConcatSent
  <2> QED
    BY <1>1, <1>3, <2>2 DEF Covered
<1>4. CASE ~(x = n /\ y = m)
  BY <1>1, <1>4 DEF Covered
<1> QED
  BY <1>3, <1>4

LEMMA ReqAns ==
    /\ \A f, d : IsRequest(Req(f, d)) /\ IsRequest(Ans(f, d))
    /\ \A f, g, d, e : Req(f, d) # Ans(g, e)
    /\ \A f, g, d, e : Req(f, d) = Req(g, e) => f = g /\ d = e
    /\ \A f, g, d, e : Ans(f, d) = Ans(g, e) => f = g /\ d = e
    /\ \A f \in Flows, d \in Nodes : Req(f, d) \in Message /\ Ans(f, d) \in Message
    /\ \A msg \in Message : IsRequest(msg) =>
          /\ msg.flow \in Flows /\ msg.to \in Nodes
          /\ msg = Req(msg.flow, msg.to) \/ msg = Ans(msg.flow, msg.to)
  BY DEF IsRequest, Req, Ans, Message

LEMMA NM1NotRequest ==
    /\ \A q : /\ ~IsRequest(NM1("nm1create", q)) /\ ~IsRequest(NM1("nm1created", q))
              /\ ~IsRequest(NM1("nm1refused", q))
    /\ \A q, r : /\ NM1("nm1create", q) # NM1("nm1created", r)
                 /\ NM1("nm1create", q) # NM1("nm1refused", r)
                 /\ NM1("nm1created", q) # NM1("nm1refused", r)
    /\ \A q, r : NM1("nm1create", q) = NM1("nm1create", r) => q = r
    /\ \A q, r : NM1("nm1created", q) = NM1("nm1created", r) => q = r
  BY DEF IsRequest, NM1

(* What grows keeps what has been shown for a message. *)
LEMMA GrowsKeeps ==
    ASSUME NEW p, NEW w, NEW p2, NEW w2, Grows(p, w, p2, w2), NEW f \in Flows, RoutesAgree
    PROVE  /\ \A k \in 1 .. Length(f) :
                 (Back(p, f, k) => Back(p2, f, k)) /\ (Forth(p, f, k) => Forth(p2, f, k))
           /\ \A k \in 0 .. Length(f) : Past(p, f, k) => Past(p2, f, k)
           /\ \A k \in 1 .. (Length(f) + 1) : Done(p, f, k) => Done(p2, f, k)
           /\ Answered(p, f) => Answered(p2, f)
           /\ \A x, y \in Nodes :
                 /\ OnWay(p, f, x, y) => OnWay(p2, f, x, y)
                 /\ OnWayBack(p, f, x, y) => OnWayBack(p2, f, x, y)
                 /\ \A msg : Allowed(p, f, x, y, msg) => Allowed(p2, f, x, y, msg)
           /\ \A x, d \in Nodes : EntryOK(p, f, x, d) => EntryOK(p2, f, x, d)
           /\ \A x \in Nodes : AskOK(p, f, x) => AskOK(p2, f, x)
<1> DEFINE L == Length(f)
<1>1. L \in Nat /\ L >= 1 /\ \A k \in 0 .. L : Way[f][k] \in Nodes
  BY WayEnds, WayType
<1> HIDE DEF L
<1>2. \A k \in 1 .. L : Way[f][k] \in Nodes /\ Way[f][k - 1] \in Nodes
  BY <1>1
<1>3. Caller[f] \in Nodes /\ Callee[f] \in Nodes
  BY Constants
<1>4. \A k \in 1 .. L : (Back(p, f, k) => Back(p2, f, k)) /\ (Forth(p, f, k) => Forth(p2, f, k))
  BY <1>2 DEF Grows, Back, Forth
<1>5. \A k \in 0 .. L : Past(p, f, k) => Past(p2, f, k)
  BY <1>1, <1>4 DEF Past
<1>6. \A k \in 1 .. (L + 1) : Done(p, f, k) => Done(p2, f, k)
  <2> SUFFICES ASSUME NEW k \in 1 .. (L + 1), Done(p, f, k), NEW j \in k .. L
               PROVE  Exempt(f, j) \/ (Back(p2, f, j) /\ Forth(p2, f, j))
    BY DEF Done, L
  <2>1. j \in 1 .. L
    BY <1>1
  <2>2. Exempt(f, j) \/ (Back(p, f, j) /\ Forth(p, f, j))
    BY DEF Done, L
  <2> QED
    BY <1>4, <2>1, <2>2
<1>7. Answered(p, f) => Answered(p2, f)
  BY <1>4 DEF Answered, L
<1>8. ASSUME NEW x \in Nodes, NEW y \in Nodes
      PROVE  /\ OnWay(p, f, x, y) => OnWay(p2, f, x, y)
             /\ OnWayBack(p, f, x, y) => OnWayBack(p2, f, x, y)
             /\ \A msg : Allowed(p, f, x, y, msg) => Allowed(p2, f, x, y, msg)
  <2>1. Has(p, x, y, QoS[f]) => Has(p2, x, y, QoS[f])
    BY DEF Grows
  <2>2. Asks(p, Caller[f], f) => Asks(p2, Caller[f], f)
    BY <1>3 DEF Grows
  <2>3. Asks(p, Callee[f], f) => Asks(p2, Callee[f], f)
    BY <1>3 DEF Grows
  <2>4. \A k \in 1 .. L : k - 1 \in 0 .. L /\ k + 1 \in 1 .. (L + 1)
    BY <1>1
  <2>5. OnWay(p, f, x, y) => OnWay(p2, f, x, y)
    BY <1>5, <2>1, <2>4 DEF OnWay, L
  <2>6. OnWayBack(p, f, x, y) => OnWayBack(p2, f, x, y)
    BY <1>6, <1>7, <2>3, <2>4 DEF OnWayBack, L
  <2>7. \A msg : Allowed(p, f, x, y, msg) => Allowed(p2, f, x, y, msg)
    BY <2>2, <2>5, <2>6 DEF Allowed
  <2> QED
    BY <2>5, <2>6, <2>7
<1>9. ASSUME NEW x \in Nodes, NEW d \in Nodes, EntryOK(p, f, x, d)
      PROVE  EntryOK(p2, f, x, d)
  <2>1. NextHop[x][d] \in Nodes
    BY Constants
  <2> QED
    BY <1>3, <1>8, <1>9, <2>1 DEF EntryOK, Grows
<1>10. \A x \in Nodes : AskOK(p, f, x) => AskOK(p2, f, x)
  BY <1>1, <1>2, <1>3 DEF AskOK, Grows
<1> QED
  BY <1>4, <1>5, <1>6, <1>7, <1>8, <1>9, <1>10 DEF L

LEMMA BaseGrows ==
    ASSUME NEW p, NEW w, NEW p2, NEW w2, Base(p, w), Grows(p, w, p2, w2), SoundBase(p, w, p2, w2)
    PROVE  Base(p2, w2)
<1>1. p2 \in Procs /\ w2 \in Wires /\ TablesOK(p2) /\ EnteredAgrees(p2)
  BY DEF SoundBase
<1>2. CreateIsAsked(p2, w2)
  BY DEF CreateIsAsked, Base, SoundBase, Grows
<1>3. CreatedIsReady(p2, w2)
  BY DEF CreatedIsReady, Base, SoundBase, Grows
<1>4. ItemIsMatched(p2, w2)
  <2> SUFFICES ASSUME NEW x \in Nodes, NEW y \in Nodes, NEW q \in Cubes, Has(p2, x, y, q)
               PROVE  \/ Ready(p2, y, x, q) \/ IsRefused(x, y, q)
                      \/ Sent(w2, x, y, NM1("nm1create", q)) \/ Sent(w2, x, y, NM1("nm1created", q))
    BY DEF ItemIsMatched
  <2>1. CASE Has(p, x, y, q)
    BY <2>1 DEF ItemIsMatched, Base, Grows
  <2>2. CASE ~Has(p, x, y, q)
    BY <2>2 DEF SoundBase
  <2> QED
    BY <2>1, <2>2
<1>5. ReadyIsMatched(p2, w2)
  BY DEF ReadyIsMatched, Base, SoundBase, Grows
<1>6. ASSUME NEW x \in Nodes, NEW y \in Nodes, NEW q, Awaited(w, x, y, q)
      PROVE  Awaited(w2, x, y, q)
  BY <1>6 DEF Awaited, Grows
<1>7. IdleIsAwaited(p2, w2)
  BY <1>6 DEF IdleIsAwaited, Base, SoundBase
<1>8. WaitIsAwaited(p2, w2)
  <2> SUFFICES ASSUME NEW x \in Nodes, NEW f \in Flows, NEW d \in Nodes, Waits(p2, x, f, d)
               PROVE  Awaited(w2, x, NextHop[x][d], QoS[f])
    BY DEF WaitIsAwaited
  <2>1. NextHop[x][d] \in Nodes
    BY Constants
  <2> QED
    BY <1>6, <2>1 DEF WaitIsAwaited, Base, SoundBase
<1> QED
  BY <1>1, <1>2, <1>3, <1>4, <1>5, <1>7, <1>8 DEF Base

LEMMA FlowGrows ==
    ASSUME NEW p, NEW w, NEW p2, NEW w2, NEW n, NEW m, NEW s, NEW f \in Flows, RoutesAgree,
           w \in Wires, FlowOK(p, w, f), Grows(p, w, p2, w2), Base(p2, w2),
           Sends(n, m, s, w, w2), n \in Nodes, m \in Nodes, SoundFlow(p, w, p2, w2, f)
    PROVE  FlowOK(p2, w2, f)
<1>1. \A x \in Nodes : Asks(p2, x, f) => AskOK(p2, f, x)
  BY GrowsKeeps DEF FlowOK, SoundFlow
<1>2. Up(p2, Caller[f], f) => Done(p2, f, 1)
  <2>1. 1 \in 1 .. (Length(f) + 1)
    BY WayEnds, WayType
  <2> QED
    BY <2>1, GrowsKeeps DEF FlowOK, SoundFlow
<1>3. \A x, y \in Nodes : \A msg \in Message :
         Under(p2, w2, x, y, msg) => Allowed(p2, f, x, y, msg)
  BY GrowsKeeps DEF FlowOK, SoundFlow
<1>4. \A x, d \in Nodes : Entry(p2, x, f, d) => EntryOK(p2, f, x, d)
  BY GrowsKeeps DEF FlowOK, SoundFlow
<1> DEFINE rq == Req(f, Callee[f])
           an == Ans(f, Caller[f])
<1>5. /\ rq \in Message /\ an \in Message /\ IsRequest(rq) /\ IsRequest(an) /\ QoS[f] \in Cubes
      /\ ~IsRequest(NM1("nm1create", QoS[f])) /\ ~IsRequest(NM1("nm1created", QoS[f]))
  BY ReqAns, NM1NotRequest, Constants, QoSIsCube
<1>6. ASSUME NEW b, SentS(s, b), IsRequest(b)
      PROVE  /\ ~SentS(s, NM1("nm1create", QoS[f])) /\ ~SentS(s, NM1("nm1created", QoS[f]))
  BY <1>5, <1>6 DEF Sends
<1>7. \A x, y \in Nodes : \A msg :
         Sent(w2, x, y, msg) <=> Sent(w, x, y, msg) \/ (x = n /\ y = m /\ SentS(s, msg))
  BY SendsSent
<1>8. RequestIsPreceded(p2, w2, f)
  <2> SUFFICES ASSUME NEW x \in Nodes, NEW y \in Nodes,
                      ~Ready(p2, y, x, QoS[f]), ~IsRefused(x, y, QoS[f])
               PROVE  Covered(w2, x, y, Announces(QoS[f]), rq)
    BY DEF RequestIsPreceded
  <2>1. ~Ready(p, y, x, QoS[f])
    BY DEF Grows
  <2>2. Covered(w, x, y, Announces(QoS[f]), rq)
    BY <2>1 DEF FlowOK, RequestIsPreceded
  <2>3. ASSUME x = n /\ y = m /\ SentS(s, rq)
        PROVE  \E a \in Announces(QoS[f]) : Sent(w, x, y, a)
    <3>1. Under(p2, w2, x, y, rq)
      BY <1>7, <2>3 DEF Under
    <3>2. OnWay(p2, f, x, y)
      BY <1>3, <1>5, <3>1, Constants DEF Allowed
    <3>3. Has(p2, x, y, QoS[f])
      BY <3>2 DEF OnWay
    <3>4. Sent(w2, x, y, NM1("nm1create", QoS[f])) \/ Sent(w2, x, y, NM1("nm1created", QoS[f]))
      BY <1>5, <3>3 DEF Base, ItemIsMatched
    <3>5. Sent(w, x, y, NM1("nm1create", QoS[f])) \/ Sent(w, x, y, NM1("nm1created", QoS[f]))
      BY <1>5, <1>6, <1>7, <2>3, <3>4
    <3> QED
      BY <3>5 DEF Announces
  <2> HIDE DEF rq
  <2> QED
    BY <2>2, <2>3, SendsCovered
<1>9. AnswerIsPreceded(p2, w2, f)
  <2> SUFFICES ASSUME NEW k \in 1 .. Length(f), ~Exempt(f, k), ~Forth(p2, f, k)
               PROVE  Covered(w2, Way[f][k], Way[f][k - 1], {NM1("nm1created", QoS[f])}, an)
    BY DEF AnswerIsPreceded
  <2> DEFINE x == Way[f][k]
             y == Way[f][k - 1]
  <2>1. x \in Nodes /\ y \in Nodes
    <3>1. k - 1 \in 0 .. Length(f) /\ k \in 0 .. Length(f)
      BY WayEnds, WayType
    <3> QED
      BY <3>1, WayEnds
  <2>2. ~Forth(p, f, k)
    BY GrowsKeeps
  <2>3. Covered(w, x, y, {NM1("nm1created", QoS[f])}, an)
    BY <2>2 DEF FlowOK, AnswerIsPreceded
  <2>4. ASSUME x = n /\ y = m /\ SentS(s, an)
        PROVE  \E a \in {NM1("nm1created", QoS[f])} : Sent(w, x, y, a)
    <3>1. Under(p2, w2, x, y, an)
      BY <1>7, <2>1, <2>4 DEF Under
    <3>2. OnWayBack(p2, f, x, y)
      BY <1>3, <1>5, <2>1, <3>1, Constants DEF Allowed
    <3>3. Back(p2, f, k)
      BY <3>2 DEF OnWayBack, Answered
    <3>4. Ready(p2, x, y, QoS[f]) /\ ~Ready(p2, y, x, QoS[f])
      BY <3>3 DEF Back, Forth
    <3>5. Sent(w2, x, y, NM1("nm1created", QoS[f]))
      <4> HIDE DEF x, y
      <4> QED
        BY <1>5, <2>1, <3>4 DEF Base, ReadyIsMatched
    <3>6. Sent(w, x, y, NM1("nm1created", QoS[f]))
      <4> HIDE DEF x, y
      <4> QED
        BY <1>5, <1>6, <1>7, <2>1, <2>4, <3>5
    <3> QED
      BY <3>6
  <2>5. Covered(w2, x, y, {NM1("nm1created", QoS[f])}, an)
    <3> DEFINE S == {NM1("nm1created", QoS[f])}
    <3>1. Covered(w, x, y, S, an) /\ (x = n /\ y = m /\ SentS(s, an) => (\E a \in S : Sent(w, x, y, a)))
      BY <2>3, <2>4
    <3> HIDE DEF x, y, S, an
    <3>2. Covered(w2, x, y, S, an)
      BY <2>1, <3>1, SendsCovered
    <3> QED
      BY <3>2 DEF S
  <2> QED
    BY <2>5
<1> QED
  BY <1>1, <1>2, <1>3, <1>4, <1>8, <1>9 DEF FlowOK

(* A part of a handler that grows the world soundly leaves it good. *)
SoundStep(n, m, s, p, w, p2, w2) ==
    /\ Grows(p, w, p2, w2) /\ Sends(n, m, s, w, w2) /\ SoundBase(p, w, p2, w2)
    /\ RoutesAgree => \A f \in Flows : SoundFlow(p, w, p2, w2, f)

LEMMA GoodGrows ==
    ASSUME NEW p, NEW w, NEW p2, NEW w2, NEW n \in Nodes, NEW m \in Nodes, NEW s,
           Good(p, w), SoundStep(n, m, s, p, w, p2, w2)
    PROVE  Good(p2, w2)
<1>1. Base(p2, w2)
  BY BaseGrows DEF Good, SoundStep
<1>2. ASSUME RoutesAgree, NEW f \in Flows PROVE FlowOK(p2, w2, f)
  <2>1. w \in Wires /\ FlowOK(p, w, f)
    BY <1>2 DEF Good, Base
  <2> QED
    BY <1>1, <1>2, <2>1, FlowGrows DEF SoundStep
<1> QED
  BY <1>1, <1>2 DEF Good

LEMMA GrowsTransitive ==
    ASSUME NEW p, NEW w, NEW p2, NEW w2, NEW p3, NEW w3,
           Grows(p, w, p2, w2), Grows(p2, w2, p3, w3)
    PROVE  Grows(p, w, p3, w3)
<1>1. \A x, y \in Nodes : \A q :
          /\ Has(p, x, y, q) => Has(p3, x, y, q)
          /\ Ready(p, x, y, q) => Ready(p3, x, y, q)
          /\ Asked(p, x, y, q) => Asked(p3, x, y, q)
  BY DEF Grows
<1>2. \A x, y \in Nodes : \A msg :
          /\ Sent(w, x, y, msg) => Sent(w3, x, y, msg)
          /\ Under(p, w, x, y, msg) => Under(p3, w3, x, y, msg)
  BY DEF Grows
<1>3. \A x \in Nodes, f \in Flows :
          /\ Asks(p, x, f) => Asks(p3, x, f)
          /\ Up(p, x, f) => Up(p3, x, f)
  BY DEF Grows
<1>4. ASSUME RoutesAgree, NEW x \in Nodes, NEW d \in Nodes, NEW f \in Flows, Waits(p, x, f, d)
      PROVE  Waits(p3, x, f, d) \/ Under(p3, w3, x, NextHop[x][d], Req(f, d))
  <2>1. NextHop[x][d] \in Nodes
    BY Constants
  <2> QED
    BY <1>4, <2>1 DEF Grows
<1> QED
  BY <1>1, <1>2, <1>3, <1>4 DEF Grows

LEMMA GrowsReflexive ==
    ASSUME NEW p, NEW w
    PROVE  Grows(p, w, p, w)
  BY DEF Grows

(* A flow that nobody enters stays as live as it was. *)
LEMMA LiveGrows ==
    ASSUME NEW p, NEW w, NEW p2, NEW w2, Grows(p, w, p2, w2), NEW f \in Flows, LiveOK(p, w, f),
           Asks(p2, Caller[f], f) => Asks(p, Caller[f], f),
           Asks(p2, Callee[f], f) => Asks(p, Callee[f], f)
    PROVE  LiveOK(p2, w2, f)
<1> SUFFICES ASSUME RoutesAgree, Clear(f)
             PROVE  /\ Asks(p2, Caller[f], f) => Coming(p2, w2, f) \/ Asks(p2, Callee[f], f)
                    /\ Asks(p2, Callee[f], f) =>
                          Up(p2, Callee[f], f) /\ (Up(p2, Caller[f], f) \/ Returning(p2, w2, f))
  BY DEF LiveOK
<1> DEFINE L == Length(f)
<1>1. L \in Nat /\ L >= 1 /\ (\A k \in 0 .. L : Way[f][k] \in Nodes)
      /\ Caller[f] \in Nodes /\ Callee[f] \in Nodes
      /\ \A k \in 0 .. (L - 1) : Way[f][k + 1] = NextHop[Way[f][k]][Callee[f]]
  BY WayEnds, WayType, Constants
<1> HIDE DEF L
<1>2. \A k \in 1 .. L : /\ Way[f][k] \in Nodes /\ Way[f][k - 1] \in Nodes
                        /\ Way[f][k] = NextHop[Way[f][k - 1]][Callee[f]]
  <2> SUFFICES ASSUME NEW k \in 1 .. L
               PROVE  /\ Way[f][k] \in Nodes /\ Way[f][k - 1] \in Nodes
                      /\ Way[f][k] = NextHop[Way[f][k - 1]][Callee[f]]
    OBVIOUS
  <2>1. k - 1 \in 0 .. (L - 1) /\ k - 1 \in 0 .. L /\ k \in 0 .. L /\ (k - 1) + 1 = k
    BY <1>1
  <2>2. Way[f][(k - 1) + 1] = NextHop[Way[f][k - 1]][Callee[f]]
    BY <1>1, <2>1
  <2> QED
    BY <1>1, <2>1, <2>2
<1>3. 1 \in 1 .. L
  BY <1>1
<1>4. Coming(p, w, f) => Coming(p2, w2, f)
  <2>1. Awaited(w, Caller[f], Way[f][1], QoS[f]) => Awaited(w2, Caller[f], Way[f][1], QoS[f])
    BY <1>1, <1>2, <1>3 DEF Awaited, Grows
  <2>2. \A k \in 1 .. L :
          /\ Under(p, w, Way[f][k - 1], Way[f][k], Req(f, Callee[f]))
               => Under(p2, w2, Way[f][k - 1], Way[f][k], Req(f, Callee[f]))
          /\ Waits(p, Way[f][k - 1], f, Callee[f]) =>
               \/ Waits(p2, Way[f][k - 1], f, Callee[f])
               \/ Under(p2, w2, Way[f][k - 1], Way[f][k], Req(f, Callee[f]))
    BY <1>1, <1>2 DEF Grows
  <2> QED
    BY <2>1, <2>2 DEF Coming, L
<1>5. Returning(p, w, f) => Returning(p2, w2, f)
  <2>1. \A k \in 1 .. L :
          Under(p, w, Way[f][k], Way[f][k - 1], Ans(f, Caller[f]))
            => Under(p2, w2, Way[f][k], Way[f][k - 1], Ans(f, Caller[f]))
    BY <1>2 DEF Grows
  <2> QED
    BY <2>1 DEF Returning, L
<1>6. \A x \in {Caller[f], Callee[f]} :
         (Asks(p, x, f) => Asks(p2, x, f)) /\ (Up(p, x, f) => Up(p2, x, f))
  BY <1>1 DEF Grows
<1> QED
  BY <1>4, <1>5, <1>6 DEF LiveOK

-----------------------------------------------------------------------------
(* The parts of the handlers as steps of the world. *)

(* n gets table t2 and is otherwise as it was. *)
Replaces(n, t2, p, p2) ==
    /\ p2 \in Procs
    /\ \A x \in Nodes : x # n => p2[x] = p[x]
    /\ p2[n].table = t2
    /\ p2[n].status = p[n].status /\ p2[n].entered = p[n].entered
    /\ p2[n].forwards = p[n].forwards

LEMMA Replaced ==
    ASSUME NEW n, NEW t2, NEW p, NEW p2, Replaces(n, t2, p, p2), NEW x \in Nodes
    PROVE  /\ \A f : (Asks(p2, x, f) <=> Asks(p, x, f)) /\ (Up(p2, x, f) <=> Up(p, x, f))
           /\ \A f, d : /\ Entry(p2, x, f, d) <=> Entry(p, x, f, d)
                        /\ Waits(p2, x, f, d) <=> Waits(p, x, f, d)
           /\ p2[x].entered = p[x].entered
           /\ x # n => p2[x] = p[x]
           /\ x = n => p2[x].table = t2
<1>1. p2[x].status = p[x].status /\ p2[x].entered = p[x].entered /\ p2[x].forwards = p[x].forwards
  BY DEF Replaces
<1> QED
  BY <1>1 DEF Replaces, Asks, Up, Entry, Waits

LEMMA ReplacedKeeps ==
    ASSUME NEW n, NEW t2, NEW p, NEW p2, Replaces(n, t2, p, p2), TableOK(t2),
           TablesOK(p), EnteredAgrees(p)
    PROVE  p2 \in Procs /\ TablesOK(p2) /\ EnteredAgrees(p2)
<1>1. p2 \in Procs
  BY DEF Replaces
<1>2. TablesOK(p2)
  BY Replaced DEF TablesOK
<1>3. EnteredAgrees(p2)
  BY Replaced DEF EnteredAgrees
<1> QED
  BY <1>1, <1>2, <1>3

LEMMA StepCreate ==
    ASSUME NEW p, NEW w, Base(p, w), NEW n \in Nodes, NEW m \in Nodes, NEW q \in Cubes,
           NEW p2, NEW w2, NEW t2, Creates(p[n].table, t2, m, q), Replaces(n, t2, p, p2),
           NEW s, s = One(NM1("nm1create", q)), Sends(n, m, s, w, w2)
    PROVE  /\ SoundStep(n, m, s, p, w, p2, w2)
           /\ Idle(p2, n, m, q) /\ Has(p2, n, m, q)
<1> DEFINE t == p[n].table
           c == NM1("nm1create", q)
<1>1. TablesOK(p) /\ EnteredAgrees(p) /\ Creates(t, t2, m, q)
  BY DEF Base
<1> HIDE DEF t
<1>2. /\ TableOK(t2)
      /\ \A y, r : /\ HasT(t2, y, r) <=> HasT(t, y, r) \/ (y = m /\ r = q)
                   /\ ReadyT(t2, y, r) <=> ReadyT(t, y, r)
                   /\ AskedT(t2, y, r) <=> AskedT(t, y, r) \/ (y = m /\ r = q)
                   /\ IdleT(t2, y, r) <=> IdleT(t, y, r) \/ (y = m /\ r = q)
      /\ \A y, msg : KeptT(t2, y, msg) <=> KeptT(t, y, msg)
  BY <1>1 DEF Creates
<1>3. \A x, y \in Nodes : \A r :
         /\ Has(p2, x, y, r) <=> Has(p, x, y, r) \/ (x = n /\ y = m /\ r = q)
         /\ Ready(p2, x, y, r) <=> Ready(p, x, y, r)
         /\ Asked(p2, x, y, r) <=> Asked(p, x, y, r) \/ (x = n /\ y = m /\ r = q)
         /\ Idle(p2, x, y, r) <=> Idle(p, x, y, r) \/ (x = n /\ y = m /\ r = q)
  BY <1>2, Replaced DEF Has, Ready, Asked, Idle, t
<1>4. \A x, y \in Nodes : \A msg : KeptT(p2[x].table, y, msg) <=> KeptT(p[x].table, y, msg)
  BY <1>2, Replaced DEF t
<1>5. w \in Wires /\ \A msg : SentS(s, msg) <=> msg = c
  BY DEF Base, One, SentS
<1>6. \A x, y \in Nodes : \A msg :
         Sent(w2, x, y, msg) <=> Sent(w, x, y, msg) \/ (x = n /\ y = m /\ msg = c)
  BY <1>5, SendsSent
<1> HIDE DEF c
<1>7. \A x, y \in Nodes : \A msg :
         Under(p2, w2, x, y, msg) <=> Under(p, w, x, y, msg) \/ (x = n /\ y = m /\ msg = c)
  BY <1>4, <1>6 DEF Under
<1>8. /\ c = NM1("nm1create", q) /\ ~IsRequest(c)
      /\ \A r : c # NM1("nm1created", r) /\ (c = NM1("nm1create", r) => q = r)
  BY NM1NotRequest DEF c
<1>9. Grows(p, w, p2, w2)
  BY <1>3, <1>6, <1>7, Replaced DEF Grows
<1>10. SoundBase(p, w, p2, w2)
  <2>1. p2 \in Procs /\ w2 \in Wires /\ TablesOK(p2) /\ EnteredAgrees(p2)
    BY <1>1, <1>2, ReplacedKeeps DEF Sends
  <2>2. \A x \in Nodes, f \in Flows, d \in Nodes : Waits(p2, x, f, d) => Waits(p, x, f, d)
    BY Replaced
  <2> QED
    BY <1>3, <1>6, <1>8, <2>1, <2>2 DEF SoundBase, Awaited
<1>11. \A f \in Flows : SoundFlow(p, w, p2, w2, f)
  <2>1. \A f, x, y : Allowed(p2, f, x, y, c)
    BY <1>8, ReqAns DEF Allowed
  <2>2. \A f \in Flows : Caller[f] \in Nodes
    BY Constants
  <2> QED
    BY <1>7, <2>1, <2>2, Replaced DEF SoundFlow
<1> QED
  BY <1>3, <1>9, <1>10, <1>11 DEF SoundStep

LEMMA StepSend ==
    ASSUME NEW p, NEW w, Base(p, w), NEW n \in Nodes, NEW m \in Nodes,
           NEW msg \in Message, IsRequest(msg),
           RoutesAgree => \A f \in Flows : Allowed(p, f, n, m, msg),
           NEW w2, NEW s, s = One(msg), Sends(n, m, s, w, w2)
    PROVE  SoundStep(n, m, s, p, w, p, w2) /\ Under(p, w2, n, m, msg)
<1>1. w \in Wires /\ \A a : SentS(s, a) <=> a = msg
  BY DEF Base, One, SentS
<1>2. \A x, y \in Nodes : \A a :
         Sent(w2, x, y, a) <=> Sent(w, x, y, a) \/ (x = n /\ y = m /\ a = msg)
  BY <1>1, SendsSent
<1>3. \A x, y \in Nodes : \A a :
         Under(p, w2, x, y, a) <=> Under(p, w, x, y, a) \/ (x = n /\ y = m /\ a = msg)
  BY <1>2 DEF Under
<1>4. Grows(p, w, p, w2)
  BY <1>2, <1>3 DEF Grows
<1>5. SoundBase(p, w, p, w2)
  <2>1. \A q : msg # NM1("nm1create", q) /\ msg # NM1("nm1created", q)
    BY NM1NotRequest
  <2>2. p \in Procs /\ w2 \in Wires /\ TablesOK(p) /\ EnteredAgrees(p)
    BY DEF Base, Sends
  <2> QED
    BY <1>2, <2>1, <2>2 DEF SoundBase
<1>6. RoutesAgree => \A f \in Flows : SoundFlow(p, w, p, w2, f)
  BY <1>3 DEF SoundFlow
<1> QED
  BY <1>3, <1>4, <1>5, <1>6 DEF SoundStep

LEMMA StepKeep ==
    ASSUME NEW p, NEW w, Base(p, w), NEW n \in Nodes, NEW m \in Nodes,
           NEW msg \in Message, IsRequest(msg),
           RoutesAgree => \A f \in Flows : Allowed(p, f, n, m, msg),
           NEW p2, NEW t2, Keeps(p[n].table, t2, m, msg), Replaces(n, t2, p, p2)
    PROVE  SoundStep(n, m, <<>>, p, w, p2, w) /\ Under(p2, w, n, m, msg)
<1> DEFINE t == p[n].table
<1>1. TablesOK(p) /\ EnteredAgrees(p) /\ Keeps(t, t2, m, msg)
  BY DEF Base
<1> HIDE DEF t
<1>2. /\ TableOK(t2)
      /\ \A y, r : /\ HasT(t2, y, r) <=> HasT(t, y, r)
                   /\ ReadyT(t2, y, r) <=> ReadyT(t, y, r)
                   /\ AskedT(t2, y, r) <=> AskedT(t, y, r)
                   /\ IdleT(t2, y, r) <=> IdleT(t, y, r)
      /\ \A y, a : KeptT(t2, y, a) <=> KeptT(t, y, a) \/ (y = m /\ a = msg)
  BY <1>1 DEF Keeps
<1>3. \A x, y \in Nodes : \A r :
         /\ Has(p2, x, y, r) <=> Has(p, x, y, r)
         /\ Ready(p2, x, y, r) <=> Ready(p, x, y, r)
         /\ Asked(p2, x, y, r) <=> Asked(p, x, y, r)
         /\ Idle(p2, x, y, r) <=> Idle(p, x, y, r)
  BY <1>2, Replaced DEF Has, Ready, Asked, Idle, t
<1>4. \A x, y \in Nodes : \A a :
         Under(p2, w, x, y, a) <=> Under(p, w, x, y, a) \/ (x = n /\ y = m /\ a = msg)
  BY <1>2, Replaced DEF Under, t
<1>5. Sends(n, m, <<>>, w, w)
  <2>1. w \in Wires /\ \A x, y \in Nodes : w[x][y] = w[x][y] \o <<>>
    BY DEF Base, Wires
  <2>2. <<>> \in Seq(Message) /\ \A a : ~SentS(<<>>, a)
    BY DEF SentS
  <2> QED
    BY <2>1, <2>2 DEF Sends
<1>6. Grows(p, w, p2, w)
  BY <1>3, <1>4, Replaced DEF Grows
<1>7. SoundBase(p, w, p2, w)
  <2>1. p2 \in Procs /\ w \in Wires /\ TablesOK(p2) /\ EnteredAgrees(p2)
    BY <1>1, <1>2, ReplacedKeeps DEF Base
  <2>2. \A x \in Nodes, f \in Flows, d \in Nodes : Waits(p2, x, f, d) => Waits(p, x, f, d)
    BY Replaced
  <2> QED
    BY <1>3, <2>1, <2>2 DEF SoundBase
<1>8. ASSUME RoutesAgree, NEW f \in Flows PROVE SoundFlow(p, w, p2, w, f)
  <2>1. Allowed(p2, f, n, m, msg)
    BY <1>6, <1>8, GrowsKeeps
  <2>2. Caller[f] \in Nodes
    BY Constants
  <2> QED
    BY <1>4, <2>1, <2>2, Replaced DEF SoundFlow
<1> QED
  BY <1>4, <1>5, <1>6, <1>7, <1>8 DEF SoundStep

(* The (N-1)-flow that m asked for comes up at n. *)
LEMMA StepAccept ==
    ASSUME NEW p, NEW w, Base(p, w), NEW n \in Nodes, NEW m \in Nodes, NEW q \in Cubes,
           Asked(p, m, n, q), NEW p2, NEW w2,
           NEW t2, Accepts(p[n].table, t2, m, q), Replaces(n, t2, p, p2),
           NEW s, s = One(NM1("nm1created", q)), Sends(n, m, s, w, w2)
    PROVE  SoundStep(n, m, s, p, w, p2, w2) /\ Ready(p2, n, m, q)
<1> DEFINE t == p[n].table
           c == NM1("nm1created", q)
<1>1. TablesOK(p) /\ EnteredAgrees(p) /\ Accepts(t, t2, m, q)
  BY DEF Base
<1> HIDE DEF t
<1>2. /\ TableOK(t2)
      /\ \A y, r : /\ HasT(t2, y, r) <=> HasT(t, y, r) \/ (y = m /\ r = q)
                   /\ ReadyT(t2, y, r) <=> ReadyT(t, y, r) \/ (y = m /\ r = q)
                   /\ AskedT(t2, y, r) <=> AskedT(t, y, r)
                   /\ IdleT(t2, y, r) => IdleT(t, y, r)
      /\ \A y, msg : KeptT(t2, y, msg) <=> KeptT(t, y, msg)
  BY <1>1 DEF Accepts
<1>3. \A x, y \in Nodes : \A r :
          /\ Has(p2, x, y, r) <=> Has(p, x, y, r) \/ (x = n /\ y = m /\ r = q)
          /\ Ready(p2, x, y, r) <=> Ready(p, x, y, r) \/ (x = n /\ y = m /\ r = q)
          /\ Asked(p2, x, y, r) <=> Asked(p, x, y, r)
          /\ Idle(p2, x, y, r) => Idle(p, x, y, r)
  BY <1>2, Replaced DEF Has, Ready, Asked, Idle, t
<1>4. w \in Wires /\ \A msg : SentS(s, msg) <=> msg = c
  BY DEF Base, One, SentS
<1>5. \A x, y \in Nodes : \A msg :
          Sent(w2, x, y, msg) <=> Sent(w, x, y, msg) \/ (x = n /\ y = m /\ msg = c)
  BY <1>4, SendsSent
<1> HIDE DEF c
<1>6. \A x, y \in Nodes : \A msg :
          Under(p2, w2, x, y, msg) <=> Under(p, w, x, y, msg) \/ (x = n /\ y = m /\ msg = c)
  BY <1>2, <1>5, Replaced DEF Under, t
<1>7. /\ c = NM1("nm1created", q) /\ ~IsRequest(c)
       /\ \A r : c # NM1("nm1create", r) /\ (c = NM1("nm1created", r) => q = r)
  BY NM1NotRequest DEF c
<1>8. Grows(p, w, p2, w2)
  BY <1>3, <1>5, <1>6, Replaced DEF Grows
<1>9. SoundBase(p, w, p2, w2)
  <2>1. p2 \in Procs /\ w2 \in Wires /\ TablesOK(p2) /\ EnteredAgrees(p2)
    BY <1>1, <1>2, ReplacedKeeps DEF Sends
  <2>2. \A x \in Nodes, f \in Flows, d \in Nodes : Waits(p2, x, f, d) => Waits(p, x, f, d)
    BY Replaced
  <2> QED
    BY <1>3, <1>5, <1>7, <2>1, <2>2 DEF SoundBase
<1>10. \A f \in Flows : SoundFlow(p, w, p2, w2, f)
  <2>1. \A f, x, y : Allowed(p2, f, x, y, c)
    BY <1>7, ReqAns DEF Allowed
  <2>2. \A f \in Flows : Caller[f] \in Nodes
    BY Constants
  <2> QED
    BY <1>6, <2>1, <2>2, Replaced DEF SoundFlow
<1> QED
  BY <1>3, <1>8, <1>9, <1>10 DEF SoundStep

(* The (N-1)-flow that n asked m for is there. *)
LEMMA StepPosted ==
    ASSUME NEW p, NEW w, Base(p, w), NEW n \in Nodes, NEW m \in Nodes, NEW q \in Cubes,
           Ready(p, m, n, q), NEW p2, NEW w2,
           NEW t2, NEW s, Opens(p[n].table, t2, m, q, s), Replaces(n, t2, p, p2),
           Sends(n, m, s, w, w2)
    PROVE  SoundStep(n, m, s, p, w, p2, w2) /\ Ready(p2, n, m, q) /\ ~Idle(p2, n, m, q)
<1> DEFINE t == p[n].table
<1>1. TablesOK(p) /\ EnteredAgrees(p) /\ Opens(t, t2, m, q, s)
  BY DEF Base
<1> HIDE DEF t
<1>2. /\ TableOK(t2)
      /\ \A y, r : /\ HasT(t2, y, r) <=> HasT(t, y, r)
                   /\ ReadyT(t2, y, r) <=> ReadyT(t, y, r) \/ (y = m /\ r = q)
                   /\ AskedT(t2, y, r) <=> AskedT(t, y, r)
                   /\ IdleT(t2, y, r) => IdleT(t, y, r)
      /\ ~IdleT(t2, m, q)
      /\ \A y, msg : KeptT(t2, y, msg) => KeptT(t, y, msg)
      /\ \A y, msg : KeptT(t, y, msg) => KeptT(t2, y, msg) \/ (y = m /\ SentS(s, msg))
      /\ \A msg : SentS(s, msg) => KeptT(t, m, msg) /\ IsRequest(msg)
  BY <1>1 DEF Opens
<1>3. \A x, y \in Nodes : \A r :
         /\ Has(p2, x, y, r) <=> Has(p, x, y, r)
         /\ Ready(p2, x, y, r) <=> Ready(p, x, y, r) \/ (x = n /\ y = m /\ r = q)
         /\ Asked(p2, x, y, r) <=> Asked(p, x, y, r)
         /\ Idle(p2, x, y, r) => Idle(p, x, y, r)
  BY <1>2, Replaced DEF Has, Ready, Asked, Idle, t
<1>4. ~Idle(p2, n, m, q)
  BY <1>2, Replaced DEF Idle
<1>5. w \in Wires
  BY DEF Base
<1>6. \A x, y \in Nodes : \A msg :
          Sent(w2, x, y, msg) <=> Sent(w, x, y, msg) \/ (x = n /\ y = m /\ SentS(s, msg))
  BY <1>5, SendsSent
<1>7. \A x, y \in Nodes : \A msg : Under(p2, w2, x, y, msg) <=> Under(p, w, x, y, msg)
  <2> SUFFICES ASSUME NEW x \in Nodes, NEW y \in Nodes, NEW msg
               PROVE  Under(p2, w2, x, y, msg) <=> Under(p, w, x, y, msg)
    OBVIOUS
  <2>1. CASE x # n
    BY <1>6, <2>1, Replaced DEF Under
  <2>2. CASE x = n
    <3>1. p2[x].table = t2 /\ p[x].table = t
      BY <2>2, Replaced DEF t
    <3> QED
      BY <1>2, <1>6, <2>2, <3>1 DEF Under
  <2> QED
    BY <2>1, <2>2
<1>8. Grows(p, w, p2, w2)
  BY <1>3, <1>6, <1>7, Replaced DEF Grows
<1>9. SoundBase(p, w, p2, w2)
  <2>1. p2 \in Procs /\ w2 \in Wires /\ TablesOK(p2) /\ EnteredAgrees(p2)
    BY <1>1, <1>2, ReplacedKeeps DEF Sends
  <2>2. \A x \in Nodes, f \in Flows, d \in Nodes : Waits(p2, x, f, d) => Waits(p, x, f, d)
    BY Replaced
  <2>3. \A r : ~SentS(s, NM1("nm1create", r)) /\ ~SentS(s, NM1("nm1created", r))
    BY <1>2, NM1NotRequest
  <2> QED
    BY <1>3, <1>6, <2>1, <2>2, <2>3 DEF SoundBase
<1>10. \A f \in Flows : SoundFlow(p, w, p2, w2, f)
  <2>1. \A f \in Flows : Caller[f] \in Nodes
    BY Constants
  <2> QED
    BY <1>7, <2>1, Replaced DEF SoundFlow
<1> QED
  BY <1>3, <1>4, <1>8, <1>9, <1>10 DEF SoundStep

-----------------------------------------------------------------------------
(* What the operators of the resource allocator leave alone, and that they *)
(* look at the table only.                                                 *)

SameRecords(o, o2) ==
    /\ o2.st.status = o.st.status /\ o2.st.entered = o.st.entered
    /\ o2.st.forwards = o.st.forwards
Alike(o, o2) == o2.st.table = o.st.table /\ o2.out = o.out

LEMMA SendPDUAlike ==
    ASSUME NEW o \in Outcome, NEW o2 \in Outcome, Alike(o, o2), NEW m \in Nodes, NEW msg \in Message
    PROVE  /\ Alike(SendPDU(o, m, msg), SendPDU(o2, m, msg))
           /\ SameRecords(o, SendPDU(o, m, msg)) /\ SameRecords(o2, SendPDU(o2, m, msg))
<1> DEFINE t == o.st.table
           p == PortTo(t, m)
           r == t[p].ready
           u == QueueAt(t, p, msg)
           Does(x) == IF p = 0 THEN x ELSE IF r THEN Post(x, m, msg) ELSE WithTable(x, u)
<1>1. SendPDU(o, m, msg) = Does(o)
  BY DEF SendPDU, Queued, WithTable, QueueAt
<1>2. SendPDU(o2, m, msg) = Does(o2)
  BY DEF SendPDU, Queued, WithTable, QueueAt, Alike
<1>3. t \in Seq(Item) /\ p \in 0 .. Len(t)
  BY OutcomeFields, PortToType
<1>4. p # 0 => u \in Seq(Item)
  BY <1>3, QueueItem
<1> HIDE DEF t, p, r, u
<1>5. ASSUME NEW x \in Outcome PROVE SameRecords(x, Does(x))
  <2>1. CASE p = 0
    BY <2>1 DEF SameRecords
  <2>2. CASE p # 0 /\ r
    <3>1. Post(x, m, msg).st = x.st
      BY Posted
    <3> QED
      BY <2>2, <3>1 DEF SameRecords
  <2>3. CASE p # 0 /\ ~r
    <3>1. WithTable(x, u).st = Tabled(x.st, u)
      BY <1>4, <2>3, TabledOutcome
    <3> QED
      BY <1>4, <2>3, <3>1, TabledFields DEF SameRecords
  <2> QED
    BY <2>1, <2>2, <2>3
<1>6. Alike(Does(o), Does(o2))
  <2>1. CASE p = 0
    BY <2>1
  <2>2. CASE p # 0 /\ r
    <3>1. /\ Post(o, m, msg).st = o.st /\ Post(o, m, msg).out = Sending(o.out, m, One(msg))
          /\ Post(o2, m, msg).st = o2.st /\ Post(o2, m, msg).out = Sending(o2.out, m, One(msg))
      BY Posted
    <3> QED
      BY <2>2, <3>1 DEF Alike
  <2>3. CASE p # 0 /\ ~r
    <3>1. /\ WithTable(o, u).st = Tabled(o.st, u) /\ WithTable(o, u).out = o.out
          /\ WithTable(o2, u).st = Tabled(o2.st, u) /\ WithTable(o2, u).out = o2.out
      BY <1>4, <2>3, TabledOutcome
    <3>2. Tabled(o.st, u).table = u /\ Tabled(o2.st, u).table = u
      BY <1>4, <2>3, TabledFields
    <3> QED
      BY <2>3, <3>1, <3>2 DEF Alike
  <2> QED
    BY <2>1, <2>2, <2>3
<1> QED
  BY <1>1, <1>2, <1>5, <1>6

LEMMA BindAlike ==
    ASSUME NEW o \in Outcome, NEW o2 \in Outcome, Alike(o, o2), NEW m \in Nodes, NEW q \in Cubes
    PROVE  /\ Alike(BindNFlowToNM1Flow(o, m, q), BindNFlowToNM1Flow(o2, m, q))
           /\ BindNFlowToNM1Flow(o, m, q) \in Outcome
           /\ SameRecords(o, BindNFlowToNM1Flow(o, m, q))
           /\ IsBound(o, m, q) <=> IsBound(o2, m, q)
<1>1. CASE FindFlowByDstApni(o.st.table, m, q) = 0
  <2> DEFINE a == CreateNM1Flow(o, m, q)
             b == CreateNM1Flow(o2, m, q)
             new == NewItem(m, q, TRUE)
             c == One(NM1("nm1create", q))
             t2 == Append(o.st.table, new)
             u2 == Append(o2.st.table, new)
  <2>0. a = CreateNM1Flow(o, m, q) /\ b = CreateNM1Flow(o2, m, q)
    OBVIOUS
  <2> HIDE DEF a, b
  <2>a. a \in Outcome /\ a.st = Tabled(o.st, t2) /\ a.out = Sending(o.out, m, c)
    BY <2>0, CreateNM1FlowDoes
  <2>b. b.st = Tabled(o2.st, u2) /\ b.out = Sending(o2.out, m, c)
    BY <2>0, CreateNM1FlowDoes
  <2>1. /\ a \in Outcome /\ a.st = Tabled(o.st, t2) /\ a.out = Sending(o.out, m, c)
        /\ b.st = Tabled(o2.st, u2) /\ b.out = Sending(o2.out, m, c)
    BY <2>a, <2>b
  <2>2. t2 = u2 /\ t2 \in Seq(Item)
    <3>1. new \in Item
      BY NewItemFields
    <3> HIDE DEF new
    <3> QED
      BY <3>1, OutcomeFields, AppendType DEF Alike
  <2>3. BindNFlowToNM1Flow(o, m, q) = a /\ BindNFlowToNM1Flow(o2, m, q) = b
    BY <1>1, <2>0 DEF BindNFlowToNM1Flow, Alike
  <2>4. IsBound(o, m, q) <=> IsBound(o2, m, q)
    BY DEF IsBound, Alike
  <2> HIDE DEF c, t2, u2
  <2>5. Tabled(o.st, t2).table = t2 /\ Tabled(o2.st, t2).table = t2
    BY <2>2, TabledFields
  <2>6. SameRecords(o, a)
    BY <2>1, <2>2, TabledFields DEF SameRecords
  <2> QED
    BY <2>1, <2>2, <2>3, <2>4, <2>5, <2>6 DEF Alike
<1>2. CASE FindFlowByDstApni(o.st.table, m, q) # 0
  BY <1>2 DEF BindNFlowToNM1Flow, IsBound, Alike, SameRecords
<1> QED
  BY <1>1, <1>2

(* The RA returns that a flow is bound if and only if a port is ready. *)
LEMMA BoundIsReady ==
    ASSUME NEW o \in Outcome, TableOK(o.st.table), NEW m, NEW q
    PROVE  IsBound(o, m, q) <=> ReadyT(o.st.table, m, q)
<1> DEFINE t == o.st.table
           p == FindFlowByDstApni(t, m, q)
<1>1. t \in Seq(Item) /\ EstablishedIsReady(t) /\ ReadyIsEstablished(t)
  BY OutcomeFields DEF TableOK
<1>2. /\ p \in 0 .. Len(t)
      /\ p = 0 => \A i \in 1 .. Len(t) : ~Fits(t[i], m, q)
      /\ p # 0 => /\ p \in 1 .. Len(t) /\ Fits(t[p], m, q)
                  /\ \A i \in 1 .. Len(t) : Fits(t[i], m, q) => p <= i
  <2> HIDE DEF t
  <2> QED
    BY <1>1, FindFirst
<1>3. IsBound(o, m, q) <=> p # 0 /\ t[p].established
  BY DEF IsBound
<1> HIDE DEF p, t
<1>4. CASE p = 0
  BY <1>2, <1>3, <1>4 DEF ReadyT, t
<1>5. CASE p # 0
  <2>1. p \in 1 .. Len(t) /\ t[p].to = m /\ t[p].qos = q
        /\ \A i \in 1 .. Len(t) : Fits(t[i], m, q) => p <= i
    BY <1>2, <1>5 DEF Fits
  <2>2. t[p].established => ReadyT(t, m, q)
    BY <1>1, <2>1 DEF EstablishedIsReady
  <2>3. ReadyT(t, m, q) => t[p].established
    BY <1>1, <2>1 DEF ReadyIsEstablished
  <2> QED
    BY <1>3, <1>5, <2>2, <2>3 DEF t
<1> QED
  BY <1>4, <1>5

(* What binding does to a table, and to what is sent. *)
LEMMA BindDoes ==
    ASSUME NEW o \in Outcome, TableOK(o.st.table), NEW m \in Nodes, NEW q \in Cubes,
           NEW o2, o2 = BindNFlowToNM1Flow(o, m, q)
    PROVE  \/ o2 = o /\ HasT(o.st.table, m, q)
           \/ \E t2 \in Seq(Item) :
                 /\ Creates(o.st.table, t2, m, q) /\ o2.st = Tabled(o.st, t2)
                 /\ o2.out = Sending(o.out, m, One(NM1("nm1create", q)))
<1> DEFINE t == o.st.table
           p == FindFlowByDstApni(t, m, q)
<1>1. /\ p = 0 => ~HasT(t, m, q)
      /\ p # 0 => HasT(t, m, q)
  <2>1. t \in Seq(Item)
    BY OutcomeFields
  <2>2. /\ p = 0 => \A i \in 1 .. Len(t) : ~Fits(t[i], m, q)
        /\ p # 0 => p \in 1 .. Len(t) /\ Fits(t[p], m, q)
    <3> HIDE DEF t
    <3> QED
      BY <2>1, FindFirst
  <2> QED
    BY <2>2 DEF HasT
<1>2. CASE p # 0
  BY <1>1, <1>2 DEF BindNFlowToNM1Flow
<1>3. CASE p = 0
  <2> DEFINE t2 == Append(t, NewItem(m, q, TRUE))
  <2>1. o2 = CreateNM1Flow(o, m, q)
    BY <1>3 DEF BindNFlowToNM1Flow
  <2>2. o2.st = Tabled(o.st, t2) /\ o2.out = Sending(o.out, m, One(NM1("nm1create", q)))
    BY <2>1, CreateNM1FlowDoes
  <2>3. t \in Seq(Item) /\ NewItem(m, q, TRUE) \in Item
    BY OutcomeFields, NewItemFields
  <2>4. t2 \in Seq(Item)
    BY <2>3, AppendType
  <2>5. Creates(t, t2, m, q)
    <3>1. t \in Seq(Item) /\ TableOK(t) /\ ~HasT(t, m, q)
      BY <1>1, <1>3, <2>3
    <3> HIDE DEF t
    <3> QED
      BY <3>1, TableCreates
  <2> QED
    BY <2>2, <2>4, <2>5
<1> QED
  BY <1>2, <1>3

LEMMA PostNM1FlowAllocationDoes ==
    ASSUME NEW o \in Outcome, TableOK(o.st.table), NEW m \in Nodes, NEW q \in Cubes,
           HasT(o.st.table, m, q), NEW o2, o2 = PostNM1FlowAllocation(o, m, q)
    PROVE  /\ o2 \in Outcome
           /\ \E t2 \in Seq(Item), s \in Seq(Message) :
                 /\ Opens(o.st.table, t2, m, q, s) /\ o2.st = Tabled(o.st, t2)
                 /\ o2.out = Sending(o.out, m, s)
<1> DEFINE t == o.st.table
           p == FindFlowByDstApni(t, m, q)
<1>1. t \in Seq(Item) /\ TableOK(t) /\ HasT(t, m, q)
  BY OutcomeFields
<1>2. p # 0 /\ FirstFit(t, p, m, q) /\ p \in 1 .. Len(t)
  BY <1>1, FindFirst DEF HasT, FirstFit
<1> DEFINE ta == EstablishAt(t, p)
           a == WithTable(o, ta)
           t2 == OpenAt(ta, p)
           s == t[p].queue
<1>3. Opens(t, t2, m, q, s)
  <2> HIDE DEF t
  <2> QED
    BY <1>1, <1>2, TableOpens
<1>4. o2 = SetOutputReady(a, p)
  BY <1>2 DEF PostNM1FlowAllocation, WithTable, EstablishAt, Established
<1> HIDE DEF p
<1>5. /\ ta \in Seq(Item) /\ Len(ta) = Len(t)
      /\ ta[p] = Established(t[p]) /\ t[p] \in Item
  <2> HIDE DEF t
  <2> QED
    BY <1>1, <1>2, EstablishItem
<1>6. ta[p].queue = s /\ ta[p].to = m
  <2>1. Established(t[p]).queue = t[p].queue /\ Established(t[p]).to = t[p].to
    BY <1>5, EstablishedItem
  <2> QED
    BY <1>2, <1>5, <2>1 DEF FirstFit, Fits
<1> HIDE DEF ta
<1>7. a \in Outcome /\ a.st = Tabled(o.st, ta) /\ a.out = o.out
  BY <1>5, TabledOutcome
<1>8. Tabled(o.st, ta).table = ta
  BY <1>5, TabledFields
<1> HIDE DEF a, t2, s, t
<1>9. /\ o2 \in Outcome /\ t2 \in Seq(Item) /\ s \in Seq(Message)
      /\ o2.st = Tabled(a.st, t2) /\ o2.out = Sending(a.out, m, s)
  <2>1. a.st.table = ta /\ p \in 1 .. Len(a.st.table) /\ m = a.st.table[p].to
        /\ s = a.st.table[p].queue /\ t2 = OpenAt(a.st.table, p)
    BY <1>2, <1>5, <1>6, <1>7, <1>8 DEF t2
  <2> QED
    BY <1>4, <1>7, <2>1, SetOutputReadyDoes
<1>10. Tabled(a.st, t2) = Tabled(o.st, t2)
  BY <1>7 DEF Tabled
<1> QED
  BY <1>3, <1>7, <1>9, <1>10 DEF t
LEMMA SendingNothing ==
    ASSUME NEW out \in [Nodes -> Seq(Message)], NEW m \in Nodes, NEW s, s = <<>>
    PROVE  Sending(out, m, s) = out
<1>1. out[m] \o s = out[m]
  OBVIOUS
<1> QED
  BY <1>1 DEF Sending

LEMMA CreateNM1FlowWithoutAllocateDoes ==
    ASSUME NEW o \in Outcome, TableOK(o.st.table), NEW m \in Nodes, NEW q \in Cubes,
           NEW o2, o2 = CreateNM1FlowWithoutAllocate(o, m, q)
    PROVE  /\ o2 \in Outcome
           /\ \E t2 \in Seq(Item) :
                 /\ Accepts(o.st.table, t2, m, q) /\ o2.st = Tabled(o.st, t2)
                 /\ o2.out = Sending(o.out, m, One(NM1("nm1created", q)))
<1> DEFINE t == o.st.table
           new == NewItem(m, q, FALSE)
           ta == Append(t, new)
           c == NM1("nm1created", q)
           a == WithTable(o, ta)
           added == Post(a, m, c)
           p == FindFlowByDstApni(added.st.table, m, q)
           te == EstablishAt(added.st.table, p)
           b == WithTable(added, te)
           l == Len(added.st.table)
           t2 == OpenAt(te, l)
<1>1. o2 = SetOutputReady(b, l)
  BY DEF CreateNM1FlowWithoutAllocate, NM1, WithTable, EstablishAt, Established
<1>2. new \in Item /\ IsNew(new, m, q) /\ ~new.own /\ c \in Message
  <2>1. NewItem(m, q, FALSE) \in Item /\ Fits(NewItem(m, q, FALSE), m, q)
        /\ ~NewItem(m, q, FALSE).own /\ NewItem(m, q, FALSE).queue = <<>>
        /\ ~NewItem(m, q, FALSE).established /\ ~NewItem(m, q, FALSE).ready
    BY NewItemFields
  <2>2. c \in Message
    BY NM1Type
  <2> QED
    BY <2>1, <2>2 DEF IsNew, Fits
<1>3. t \in Seq(Item) /\ TableOK(t)
  BY OutcomeFields
<1> HIDE DEF new, c
<1>4. ta \in Seq(Item) /\ Len(ta) = Len(t) + 1 /\ Len(t) \in Nat /\ ta[Len(t) + 1] = new
  <2>1. Len(t) + 1 \in 1 .. Len(t) + 1
    BY <1>3
  <2> QED
    BY <1>2, <1>3, <2>1, AppendType
<1>5. added \in Outcome /\ added.st = Tabled(o.st, ta) /\ added.out = Sending(o.out, m, One(c))
  <2>1. a = WithTable(o, Append(o.st.table, new)) /\ added = Post(a, m, c)
    OBVIOUS
  <2> HIDE DEF a, added
  <2> QED
    BY <1>2, <2>1, AddAndPost
<1> HIDE DEF a, added
<1>6. added.st.table = ta
  BY <1>4, <1>5, TabledFields
<1>7. l = Len(ta) /\ p = FindFlowByDstApni(ta, m, q) /\ te = EstablishAt(ta, p)
  BY <1>6
<1>8. FirstFit(ta, p, m, q)
  <2>1. Fits(ta[Len(t) + 1], m, q) /\ Len(t) + 1 \in 1 .. Len(ta)
    BY <1>2, <1>4 DEF IsNew, Fits
  <2> HIDE DEF ta, p
  <2>2. p = FindFlowByDstApni(ta, m, q) /\ ta \in Seq(Item)
    BY <1>4, <1>7
  <2> QED
    BY <2>1, <2>2, FindFirst DEF FirstFit
<1>9. /\ Accepts(t, OpenAt(EstablishAt(ta, p), Len(ta)), m, q)
      /\ HoldsNothing(EstablishAt(ta, p)[Len(ta)], m)
  <2> HIDE DEF t, ta, p
  <2>1. ta = Append(t, new)
    BY DEF ta
  <2>2. t \in Seq(Item) /\ TableOK(t) /\ IsNew(new, m, q) /\ ~new.own
    BY <1>2, <1>3
  <2>3. Accepts(t, OpenAt(EstablishAt(ta, p), Len(ta)), m, q)
    BY <1>8, <2>1, <2>2, TableAccepts
  <2>4. HoldsNothing(EstablishAt(ta, p)[Len(ta)], m)
    BY <1>8, <2>1, <2>2, TableAccepts
  <2> QED
    BY <2>3, <2>4
<1>10. p \in 1 .. Len(ta)
  BY <1>8 DEF FirstFit
<1>11. te \in Seq(Item) /\ Len(te) = Len(ta)
  <2> HIDE DEF t, ta, p, te
  <2> QED
    BY <1>4, <1>7, <1>10, EstablishItem
<1> HIDE DEF p
<1>12. Accepts(t, t2, m, q) /\ te[l].queue = <<>> /\ te[l].to = m
  BY <1>7, <1>9 DEF HoldsNothing
<1>13. l \in 1 .. Len(te)
  BY <1>4, <1>7, <1>11
<1> HIDE DEF ta, te, l
<1>14. b \in Outcome /\ b.st = Tabled(added.st, te) /\ b.out = added.out
  BY <1>5, <1>11, TabledOutcome
<1>15. b.st.table = te
  BY <1>5, <1>11, <1>14, TabledFields
<1> HIDE DEF b, t2
<1>16. /\ o2 \in Outcome /\ t2 \in Seq(Item)
       /\ o2.st = Tabled(b.st, t2) /\ o2.out = Sending(b.out, m, te[l].queue)
  <2>1. l \in 1 .. Len(b.st.table) /\ m = b.st.table[l].to
        /\ te[l].queue = b.st.table[l].queue /\ t2 = OpenAt(b.st.table, l)
    BY <1>12, <1>13, <1>15 DEF t2
  <2> QED
    BY <1>1, <1>14, <2>1, SetOutputReadyDoes
<1>17. Tabled(b.st, t2) = Tabled(o.st, t2)
  BY <1>5, <1>14 DEF Tabled
<1>18. o2.out = added.out
  <2>1. b.out \in [Nodes -> Seq(Message)]
    BY <1>14, OutcomeFields
  <2> QED
    BY <1>12, <1>14, <1>16, <2>1, SendingNothing
<1> QED
  BY <1>5, <1>12, <1>16, <1>17, <1>18 DEF c

-----------------------------------------------------------------------------
(* The world while n handles something: what n has become, and what it has *)
(* sent so far, after what was under way.                                  *)

ProcOf(p, n, o) == [p EXCEPT ![n] = o.st]
Then(s, u) == s \o u
WireOf(w, n, o) == [w EXCEPT ![n] = [m \in Nodes |-> Then(w[n][m], o.out[m])]]

LEMMA ThenDoes ==
    /\ \A s, u \in Seq(Message) : Then(s, u) \in Seq(Message)
    /\ \A s, u, v \in Seq(Message) : Then(s, Then(u, v)) = Then(Then(s, u), v)
<1>1. \A s, u \in Seq(Message) : Then(s, u) \in Seq(Message)
  BY DEF Then
<1>2. ASSUME NEW s \in Seq(Message), NEW u \in Seq(Message), NEW v \in Seq(Message)
      PROVE  Then(s, Then(u, v)) = Then(Then(s, u), v)
  <2> DEFINE a == s \o (u \o v)
             b == (s \o u) \o v
  <2>1. /\ a \in Seq(Message) /\ b \in Seq(Message) /\ Len(a) = Len(b)
        /\ \A i \in 1 .. Len(a) : a[i] = b[i]
    OBVIOUS
  <2> HIDE DEF a, b
  <2>2. a = b
    BY <2>1, SameSeq
  <2> QED
    BY <2>2 DEF a, b, Then
<1> QED
  BY <1>1, <1>2

LEMMA ProcType ==
    ASSUME NEW p \in Procs, NEW n \in Nodes, NEW o \in Outcome
    PROVE  /\ ProcOf(p, n, o) \in Procs /\ ProcOf(p, n, o)[n] = o.st
           /\ \A x \in Nodes : x # n => ProcOf(p, n, o)[x] = p[x]
<1>1. o.st \in Allocators
  BY OutcomeFields
<1> QED
  BY <1>1 DEF Procs, ProcOf

LEMMA WireType ==
    ASSUME NEW w \in Wires, NEW n \in Nodes, NEW o \in Outcome
    PROVE  /\ WireOf(w, n, o) \in Wires
           /\ \A x, y \in Nodes :
                 WireOf(w, n, o)[x][y] = IF x = n THEN Then(w[x][y], o.out[y]) ELSE w[x][y]
<1> DEFINE c == [m \in Nodes |-> Then(w[n][m], o.out[m])]
<1>1. \A m \in Nodes : o.out[m] \in Seq(Message) /\ w[n][m] \in Seq(Message)
  BY OutcomeFields DEF Wires
<1>2. \A m \in Nodes : Then(w[n][m], o.out[m]) \in Seq(Message)
  BY <1>1, ThenDoes
<1>3. c \in [Nodes -> Seq(Message)] /\ \A y \in Nodes : c[y] = Then(w[n][y], o.out[y])
  BY <1>2
<1>4. WireOf(w, n, o) = [w EXCEPT ![n] = c]
  BY DEF WireOf
<1> HIDE DEF c
<1>5. WireOf(w, n, o) \in Wires /\ \A x \in Nodes : WireOf(w, n, o)[x] = IF x = n THEN c ELSE w[x]
  BY <1>3, <1>4 DEF Wires
<1> QED
  BY <1>3, <1>5

LEMMA WorldReplaces ==
    ASSUME NEW p \in Procs, NEW n \in Nodes, NEW o \in Outcome, NEW o2 \in Outcome,
           NEW t2 \in Seq(Item), o2.st = Tabled(o.st, t2)
    PROVE  /\ Replaces(n, t2, ProcOf(p, n, o), ProcOf(p, n, o2))
           /\ SameRecords(o, o2) /\ o2.st.table = t2
  BY ProcType, TabledFields DEF Replaces, SameRecords

LEMMA WorldSends ==
    ASSUME NEW w \in Wires, NEW n \in Nodes, NEW o \in Outcome, NEW o2 \in Outcome, NEW m \in Nodes,
           NEW s \in Seq(Message), o2.out = Sending(o.out, m, s),
           \/ \A msg : SentS(s, msg) => IsRequest(msg)
           \/ \A msg : SentS(s, msg) => ~IsRequest(msg)
    PROVE  Sends(n, m, s, WireOf(w, n, o), WireOf(w, n, o2))
<1> DEFINE u == WireOf(w, n, o)
           v == WireOf(w, n, o2)
<1>1. o.out \in [Nodes -> Seq(Message)]
  BY OutcomeFields
<1>2. \A y \in Nodes : o2.out[y] = IF y = m THEN Then(o.out[y], s) ELSE o.out[y]
  <2>1. \A y \in Nodes : Sending(o.out, m, s)[y] = IF y = m THEN o.out[y] \o s ELSE o.out[y]
    BY <1>1, SendingType
  <2> QED
    BY <2>1 DEF Then
<1>3. /\ v \in Wires
      /\ \A x, y \in Nodes : u[x][y] = IF x = n THEN Then(w[x][y], o.out[y]) ELSE w[x][y]
      /\ \A x, y \in Nodes : v[x][y] = IF x = n THEN Then(w[x][y], o2.out[y]) ELSE w[x][y]
  <2>1. v \in Wires
    BY WireType
  <2>2. \A x, y \in Nodes : u[x][y] = IF x = n THEN Then(w[x][y], o.out[y]) ELSE w[x][y]
    BY WireType
  <2>3. \A x, y \in Nodes : v[x][y] = IF x = n THEN Then(w[x][y], o2.out[y]) ELSE w[x][y]
    BY WireType
  <2> QED
    BY <2>1, <2>2, <2>3
<1> HIDE DEF u, v
<1>4. ASSUME NEW x \in Nodes, NEW y \in Nodes
      PROVE  v[x][y] = IF x = n /\ y = m THEN Then(u[x][y], s) ELSE u[x][y]
  <2>1. w[x][y] \in Seq(Message) /\ o.out[y] \in Seq(Message)
    BY <1>1 DEF Wires
  <2>2. Then(w[x][y], Then(o.out[y], s)) = Then(Then(w[x][y], o.out[y]), s)
    BY <2>1, ThenDoes
  <2> QED
    BY <1>2, <1>3, <2>2
<1>5. \A x, y \in Nodes : v[x][y] = IF x = n /\ y = m THEN u[x][y] \o s ELSE u[x][y]
  BY <1>4 DEF Then
<1> QED
  BY <1>3, <1>5 DEF Sends, u, v
-----------------------------------------------------------------------------
(* The parts of the handlers, as operators on outcomes: each leads from a  *)
(* good world to a good world with all that was there.                     *)

GoodAt(p, w, n, o) == Good(ProcOf(p, n, o), WireOf(w, n, o))
Leads(p, w, n, o, o2) ==
    /\ o2 \in Outcome /\ GoodAt(p, w, n, o2)
    /\ Grows(ProcOf(p, n, o), WireOf(w, n, o), ProcOf(p, n, o2), WireOf(w, n, o2))
NoMoreIdle(o, o2) == \A y, r : IdleT(o2.st.table, y, r) => IdleT(o.st.table, y, r)

Unchanges(o, o2) == SameRecords(o, o2) /\ NoMoreIdle(o, o2)

LEMMA GoodTables ==
    ASSUME NEW p \in Procs, NEW w \in Wires, NEW n \in Nodes, NEW o \in Outcome, GoodAt(p, w, n, o)
    PROVE  /\ Base(ProcOf(p, n, o), WireOf(w, n, o))
           /\ o.st.table = ProcOf(p, n, o)[n].table /\ TableOK(o.st.table)
<1>1. Base(ProcOf(p, n, o), WireOf(w, n, o)) /\ ProcOf(p, n, o)[n] = o.st
  BY ProcType DEF GoodAt, Good
<1>2. TablesOK(ProcOf(p, n, o))
  BY <1>1 DEF Base
<1> QED
  BY <1>1, <1>2 DEF TablesOK

LEMMA LeadsBy ==
    ASSUME NEW p \in Procs, NEW w \in Wires, NEW n \in Nodes, NEW o \in Outcome, GoodAt(p, w, n, o),
           NEW o2 \in Outcome, NEW m \in Nodes, NEW s,
           SoundStep(n, m, s, ProcOf(p, n, o), WireOf(w, n, o), ProcOf(p, n, o2), WireOf(w, n, o2))
    PROVE  Leads(p, w, n, o, o2)
<1>1. Good(ProcOf(p, n, o2), WireOf(w, n, o2))
  BY GoodGrows DEF GoodAt
<1> QED
  BY <1>1 DEF Leads, GoodAt, SoundStep

LEMMA LeadsOn ==
    /\ \A p, w, n : \A o \in Outcome : GoodAt(p, w, n, o) => Leads(p, w, n, o, o)
    /\ \A p, w, n, o, o2, o3 : Leads(p, w, n, o, o2) /\ Leads(p, w, n, o2, o3) => Leads(p, w, n, o, o3)
  BY GrowsReflexive, GrowsTransitive DEF Leads

LEMMA OneKind ==
    /\ \A msg, a : SentS(One(msg), a) <=> a = msg
    /\ \A msg \in Message : One(msg) \in Seq(Message)
  BY DEF SentS, One

LEMMA PartSend ==
    ASSUME NEW p \in Procs, NEW w \in Wires, NEW n \in Nodes, NEW o \in Outcome, GoodAt(p, w, n, o),
           NEW m \in Nodes, NEW msg \in Message, IsRequest(msg),
           RoutesAgree => \A f \in Flows : Allowed(ProcOf(p, n, o), f, n, m, msg),
           NEW o2, o2 = SendPDU(o, m, msg)
    PROVE  /\ Leads(p, w, n, o, o2) /\ Unchanges(o, o2)
           /\ \A q : Has(ProcOf(p, n, o), n, m, q)
                       => Under(ProcOf(p, n, o2), WireOf(w, n, o2), n, m, msg)
<1> DEFINE t == o.st.table
           P == ProcOf(p, n, o)
           W == WireOf(w, n, o)
           P2 == ProcOf(p, n, o2)
           W2 == WireOf(w, n, o2)
<1>1. Base(P, W) /\ t = P[n].table /\ TableOK(t) /\ t \in Seq(Item)
  BY GoodTables, OutcomeFields
<1>2. /\ o2 \in Outcome
      /\ \/ o2 = o /\ \A i \in 1 .. Len(t) : t[i].to # m
         \/ o2.st = o.st /\ o2.out = Sending(o.out, m, One(msg))
         \/ /\ o2.out = o.out
            /\ \E i \in 1 .. Len(t) :
                  /\ t[i].to = m /\ ~t[i].ready /\ QueueAt(t, i, msg) \in Seq(Item)
                  /\ o2.st = Tabled(o.st, QueueAt(t, i, msg))
  BY SendPDUDoes
<1> HIDE DEF t
<1>3. CASE o2 = o /\ \A i \in 1 .. Len(t) : t[i].to # m
  <2>1. Leads(p, w, n, o, o2) /\ Unchanges(o, o2)
    BY <1>3, LeadsOn DEF Unchanges, SameRecords, NoMoreIdle
  <2>2. \A q : ~Has(P, n, m, q)
    BY <1>1, <1>3 DEF Has, HasT, Fits
  <2> QED
    BY <2>1, <2>2
<1>4. CASE o2.st = o.st /\ o2.out = Sending(o.out, m, One(msg))
  <2>1. P2 = P
    BY <1>4 DEF ProcOf
  <2>2. Sends(n, m, One(msg), W, W2)
    BY <1>2, <1>4, OneKind, WorldSends
  <2>3. Base(P, W) /\ (RoutesAgree => \A f \in Flows : Allowed(P, f, n, m, msg))
    BY <1>1
  <2> HIDE DEF P, W, P2, W2
  <2>4. SoundStep(n, m, One(msg), P, W, P, W2) /\ Under(P, W2, n, m, msg)
    BY <2>2, <2>3, StepSend
  <2>5. Leads(p, w, n, o, o2)
    BY <1>2, <2>1, <2>4, LeadsBy DEF P, W, P2, W2
  <2>6. Unchanges(o, o2)
    BY <1>4 DEF Unchanges, SameRecords, NoMoreIdle
  <2> QED
    BY <2>1, <2>4, <2>5, <2>6 DEF P2, W2
<1>5. CASE /\ o2.out = o.out
           /\ \E i \in 1 .. Len(t) :
                 /\ t[i].to = m /\ ~t[i].ready /\ QueueAt(t, i, msg) \in Seq(Item)
                 /\ o2.st = Tabled(o.st, QueueAt(t, i, msg))
  <2>1. PICK i \in 1 .. Len(t) :
           /\ t[i].to = m /\ ~t[i].ready /\ QueueAt(t, i, msg) \in Seq(Item)
           /\ o2.st = Tabled(o.st, QueueAt(t, i, msg))
    BY <1>5
  <2> DEFINE t2 == QueueAt(t, i, msg)
  <2>2. t2 \in Seq(Item) /\ Keeps(t, t2, m, msg)
    BY <1>1, <2>1, TableQueue
  <2> HIDE DEF t2
  <2>3. o2.st = Tabled(o.st, t2)
    BY <2>1 DEF t2
  <2>4. Replaces(n, t2, P, P2) /\ SameRecords(o, o2) /\ o2.st.table = t2
    BY <1>2, <2>2, <2>3, WorldReplaces
  <2>5. W2 = W
    BY <1>5 DEF WireOf
  <2>6. NoMoreIdle(o, o2)
    BY <2>2, <2>4 DEF Keeps, NoMoreIdle, t
  <2>7. Base(P, W) /\ Keeps(P[n].table, t2, m, msg)
        /\ (RoutesAgree => \A f \in Flows : Allowed(P, f, n, m, msg))
    BY <1>1, <2>2
  <2> HIDE DEF P, W, P2, W2
  <2>8. SoundStep(n, m, <<>>, P, W, P2, W) /\ Under(P2, W, n, m, msg)
    BY <2>4, <2>7, StepKeep
  <2> DEFINE s == <<>>
  <2>9. SoundStep(n, m, s, P, W, P2, W2)
    BY <2>5, <2>8
  <2> HIDE DEF s
  <2>10. Leads(p, w, n, o, o2)
    BY <1>2, <2>9, LeadsBy DEF P, W, P2, W2
  <2> QED
    BY <2>4, <2>5, <2>6, <2>8, <2>10 DEF P2, W2, Unchanges
<1> QED
  BY <1>2, <1>3, <1>4, <1>5
LEMMA PartBind ==
    ASSUME NEW p \in Procs, NEW w \in Wires, NEW n \in Nodes, NEW o \in Outcome, GoodAt(p, w, n, o),
           NEW m \in Nodes, NEW q \in Cubes,
           NEW o2, o2 = BindNFlowToNM1Flow(o, m, q)
    PROVE  /\ Leads(p, w, n, o, o2) /\ SameRecords(o, o2)
           /\ Has(ProcOf(p, n, o2), n, m, q)
           /\ ~IsBound(o, m, q) => Idle(ProcOf(p, n, o2), n, m, q)
           /\ IsBound(o, m, q) => Ready(ProcOf(p, n, o), n, m, q) /\ o2 = o
<1> DEFINE t == o.st.table
           P == ProcOf(p, n, o)
           W == WireOf(w, n, o)
           P2 == ProcOf(p, n, o2)
           W2 == WireOf(w, n, o2)
           c == One(NM1("nm1create", q))
<1>1. Base(P, W) /\ t = P[n].table /\ TableOK(t) /\ t \in Seq(Item)
  BY GoodTables, OutcomeFields
<1>2. o2 \in Outcome /\ SameRecords(o, o2)
  <2>1. Alike(o, o)
    BY DEF Alike
  <2> QED
    BY <2>1, BindAlike
<1>3. IsBound(o, m, q) <=> ReadyT(t, m, q)
  BY <1>1, BoundIsReady
<1>4. IsBound(o, m, q) => o2 = o
  BY DEF IsBound, BindNFlowToNM1Flow
<1>5. \/ o2 = o /\ HasT(t, m, q)
      \/ \E t2 \in Seq(Item) :
            Creates(t, t2, m, q) /\ o2.st = Tabled(o.st, t2) /\ o2.out = Sending(o.out, m, c)
  BY <1>1, BindDoes
<1> HIDE DEF t, c
<1>6. CASE o2 = o /\ HasT(t, m, q)
  <2>1. Leads(p, w, n, o, o2)
    BY <1>6, LeadsOn
  <2>2. ~ReadyT(t, m, q) => IdleT(t, m, q)
    BY <1>6 DEF ReadyT, IdleT, HasT
  <2> QED
    BY <1>1, <1>2, <1>3, <1>6, <2>1, <2>2 DEF Has, Idle, Ready
<1>7. CASE \E t2 \in Seq(Item) :
              Creates(t, t2, m, q) /\ o2.st = Tabled(o.st, t2) /\ o2.out = Sending(o.out, m, c)
  <2>1. PICK t2 \in Seq(Item) :
              Creates(t, t2, m, q) /\ o2.st = Tabled(o.st, t2) /\ o2.out = Sending(o.out, m, c)
    BY <1>7
  <2>2. Replaces(n, t2, P, P2)
    BY <1>2, <2>1, WorldReplaces
  <2>3. /\ c \in Seq(Message) /\ c = One(NM1("nm1create", q))
        /\ \A msg : SentS(c, msg) => ~IsRequest(msg)
    <3>1. NM1("nm1create", q) \in Message /\ ~IsRequest(NM1("nm1create", q))
      BY NM1Type, NM1NotRequest
    <3> QED
      BY <3>1, OneKind DEF c
  <2>4. Sends(n, m, c, W, W2)
    BY <1>2, <2>1, <2>3, WorldSends
  <2>5. Creates(P[n].table, t2, m, q) /\ Base(P, W)
    BY <1>1, <2>1
  <2> HIDE DEF P, W, P2, W2
  <2>6. SoundStep(n, m, c, P, W, P2, W2) /\ Idle(P2, n, m, q) /\ Has(P2, n, m, q)
    BY <2>2, <2>3, <2>4, <2>5, StepCreate
  <2>7. Leads(p, w, n, o, o2)
    BY <1>2, <2>6, LeadsBy DEF P, W, P2, W2
  <2> QED
    BY <1>1, <1>2, <1>3, <1>4, <2>6, <2>7 DEF P, P2, Ready
<1> QED
  BY <1>5, <1>6, <1>7

LEMMA PartPosted ==
    ASSUME NEW p \in Procs, NEW w \in Wires, NEW n \in Nodes, NEW o \in Outcome, GoodAt(p, w, n, o),
           NEW m \in Nodes, NEW q \in Cubes,
           Ready(ProcOf(p, n, o), m, n, q), Has(ProcOf(p, n, o), n, m, q),
           NEW o2, o2 = PostNM1FlowAllocation(o, m, q)
    PROVE  /\ Leads(p, w, n, o, o2) /\ SameRecords(o, o2)
           /\ Ready(ProcOf(p, n, o2), n, m, q) /\ ~IdleT(o2.st.table, m, q)
<1> DEFINE t == o.st.table
           P == ProcOf(p, n, o)
           W == WireOf(w, n, o)
           P2 == ProcOf(p, n, o2)
           W2 == WireOf(w, n, o2)
<1>1. Base(P, W) /\ t = P[n].table /\ TableOK(t) /\ t \in Seq(Item) /\ HasT(t, m, q)
  BY GoodTables, OutcomeFields DEF Has
<1>2. /\ o2 \in Outcome
      /\ \E t2 \in Seq(Item), s \in Seq(Message) :
            Opens(t, t2, m, q, s) /\ o2.st = Tabled(o.st, t2) /\ o2.out = Sending(o.out, m, s)
  BY <1>1, PostNM1FlowAllocationDoes
<1> HIDE DEF t
<1>3. PICK t2 \in Seq(Item), s \in Seq(Message) :
            Opens(t, t2, m, q, s) /\ o2.st = Tabled(o.st, t2) /\ o2.out = Sending(o.out, m, s)
  BY <1>2
<1>4. Replaces(n, t2, P, P2) /\ SameRecords(o, o2) /\ o2.st.table = t2
  BY <1>2, <1>3, WorldReplaces
<1>5. \A msg : SentS(s, msg) => IsRequest(msg)
  BY <1>3 DEF Opens
<1>6. Sends(n, m, s, W, W2)
  BY <1>2, <1>3, <1>5, WorldSends
<1>7. Opens(P[n].table, t2, m, q, s) /\ Base(P, W) /\ Ready(P, m, n, q)
  BY <1>1, <1>3
<1> HIDE DEF P, W, P2, W2
<1>8. SoundStep(n, m, s, P, W, P2, W2) /\ Ready(P2, n, m, q)
  BY <1>4, <1>6, <1>7, StepPosted
<1>9. Leads(p, w, n, o, o2)
  BY <1>2, <1>8, LeadsBy DEF P, W, P2, W2
<1> QED
  BY <1>3, <1>4, <1>8, <1>9 DEF P2, Opens

LEMMA PartAccept ==
    ASSUME NEW p \in Procs, NEW w \in Wires, NEW n \in Nodes, NEW o \in Outcome, GoodAt(p, w, n, o),
           NEW m \in Nodes, NEW q \in Cubes, Asked(ProcOf(p, n, o), m, n, q),
           NEW o2, o2 = CreateNM1FlowWithoutAllocate(o, m, q)
    PROVE  /\ Leads(p, w, n, o, o2) /\ SameRecords(o, o2)
           /\ Ready(ProcOf(p, n, o2), n, m, q)
           /\ Sent(WireOf(w, n, o2), n, m, NM1("nm1created", q))
<1> DEFINE t == o.st.table
           P == ProcOf(p, n, o)
           W == WireOf(w, n, o)
           P2 == ProcOf(p, n, o2)
           W2 == WireOf(w, n, o2)
           c == One(NM1("nm1created", q))
<1>1. Base(P, W) /\ t = P[n].table /\ TableOK(t) /\ t \in Seq(Item)
  BY GoodTables, OutcomeFields
<1>2. /\ o2 \in Outcome
      /\ \E t2 \in Seq(Item) :
            Accepts(t, t2, m, q) /\ o2.st = Tabled(o.st, t2) /\ o2.out = Sending(o.out, m, c)
  BY <1>1, CreateNM1FlowWithoutAllocateDoes
<1> HIDE DEF t, c
<1>3. PICK t2 \in Seq(Item) :
            Accepts(t, t2, m, q) /\ o2.st = Tabled(o.st, t2) /\ o2.out = Sending(o.out, m, c)
  BY <1>2
<1>4. Replaces(n, t2, P, P2) /\ SameRecords(o, o2)
  BY <1>2, <1>3, WorldReplaces
<1>5. /\ c \in Seq(Message) /\ c = One(NM1("nm1created", q))
      /\ \A msg : SentS(c, msg) => ~IsRequest(msg)
      /\ SentS(c, NM1("nm1created", q))
  <2>1. NM1("nm1created", q) \in Message /\ ~IsRequest(NM1("nm1created", q))
    BY NM1Type, NM1NotRequest
  <2> QED
    BY <2>1, OneKind DEF c
<1>6. Sends(n, m, c, W, W2)
  BY <1>2, <1>3, <1>5, WorldSends
<1>7. Accepts(P[n].table, t2, m, q) /\ Base(P, W) /\ Asked(P, m, n, q)
  BY <1>1, <1>3
<1> HIDE DEF P, W, P2, W2
<1>8. SoundStep(n, m, c, P, W, P2, W2) /\ Ready(P2, n, m, q)
  BY <1>4, <1>5, <1>6, <1>7, StepAccept
<1>9. Leads(p, w, n, o, o2)
  BY <1>2, <1>8, LeadsBy DEF P, W, P2, W2
<1>10. Sent(W2, n, m, NM1("nm1created", q))
  BY <1>5, <1>6, <1>7, SendsSent DEF Base
<1> QED
  BY <1>4, <1>8, <1>9, <1>10 DEF P2, W2

(* The DIF below says no: nothing depends on the answer. *)
LEMMA PartRefuse ==
    ASSUME NEW p \in Procs, NEW w \in Wires, NEW n \in Nodes, NEW o \in Outcome, GoodAt(p, w, n, o),
           NEW m \in Nodes, NEW q \in Cubes,
           NEW o2, o2 = Post(o, m, NM1("nm1refused", q))
    PROVE  Leads(p, w, n, o, o2) /\ SameRecords(o, o2)
<1> DEFINE P == ProcOf(p, n, o)
           W == WireOf(w, n, o)
           W2 == WireOf(w, n, o2)
           a == NM1("nm1refused", q)
           c == One(a)
<1>1. /\ a \in Message /\ ~IsRequest(a)
      /\ \A r : a # NM1("nm1create", r) /\ a # NM1("nm1created", r)
  BY NM1Type, NM1NotRequest
<1> HIDE DEF a
<1>2. c \in Seq(Message) /\ \A msg : SentS(c, msg) <=> msg = a
  BY <1>1, OneKind
<1>3. o2 \in Outcome /\ o2.st = o.st /\ o2.out = Sending(o.out, m, c)
  BY <1>1, Posted DEF a
<1> HIDE DEF c
<1>4. \A msg : SentS(c, msg) => ~IsRequest(msg)
  BY <1>1, <1>2
<1>5. Sends(n, m, c, W, W2)
  BY <1>2, <1>3, <1>4, WorldSends
<1>6. Base(P, W) /\ ProcOf(p, n, o2) = P
  BY <1>3, GoodTables DEF ProcOf
<1>7. W \in Wires
  BY <1>6 DEF Base
<1> HIDE DEF P, W, W2
<1>8. \A x, y \in Nodes : \A b :
         Sent(W2, x, y, b) <=> Sent(W, x, y, b) \/ (x = n /\ y = m /\ b = a)
  BY <1>2, <1>5, <1>7, SendsSent
<1>9. \A x, y \in Nodes : \A b :
         Under(P, W2, x, y, b) <=> Under(P, W, x, y, b) \/ (x = n /\ y = m /\ b = a)
  BY <1>8 DEF Under
<1>10. Grows(P, W, P, W2)
  BY <1>8, <1>9 DEF Grows
<1>11. SoundBase(P, W, P, W2)
  <2>1. P \in Procs /\ W2 \in Wires /\ TablesOK(P) /\ EnteredAgrees(P)
    BY <1>5, <1>6 DEF Base, Sends
  <2> QED
    BY <1>1, <1>8, <2>1 DEF SoundBase
<1>12. \A f \in Flows : SoundFlow(P, W, P, W2, f)
  <2>1. \A f, x, y : Allowed(P, f, x, y, a)
    BY <1>1, ReqAns DEF Allowed
  <2> QED
    BY <1>9, <2>1 DEF SoundFlow
<1>13. SoundStep(n, m, c, P, W, P, W2)
  BY <1>5, <1>10, <1>11, <1>12 DEF SoundStep
<1>14. Leads(p, w, n, o, o2)
  BY <1>3, <1>6, <1>13, LeadsBy DEF P, W, W2
<1> QED
  BY <1>3, <1>14 DEF SameRecords
-----------------------------------------------------------------------------
(* The flow allocator's records: n enters a flow, learns that it is up, or *)
(* has a request to forward, while its table stays as it is.               *)

SameTables(n, p, p2) ==
    /\ p2 \in Procs /\ p2[n].table = p[n].table
    /\ \A x \in Nodes : x # n => p2[x] = p[x]

LEMMA AlikeWorld ==
    ASSUME NEW p \in Procs, NEW w \in Wires, NEW n \in Nodes, NEW o \in Outcome, NEW o2 \in Outcome,
           Alike(o, o2)
    PROVE  /\ SameTables(n, ProcOf(p, n, o), ProcOf(p, n, o2))
           /\ WireOf(w, n, o2) = WireOf(w, n, o)
           /\ ProcOf(p, n, o)[n] = o.st /\ ProcOf(p, n, o2)[n] = o2.st
<1>1. WireOf(w, n, o2) = WireOf(w, n, o)
  BY DEF Alike, WireOf
<1> QED
  BY <1>1, ProcType DEF Alike, SameTables

LEMMA TablesSame ==
    ASSUME NEW n, NEW p, NEW p2, SameTables(n, p, p2)
    PROVE  /\ \A x, y \in Nodes : \A q :
                 /\ Has(p2, x, y, q) <=> Has(p, x, y, q)
                 /\ Ready(p2, x, y, q) <=> Ready(p, x, y, q)
                 /\ Asked(p2, x, y, q) <=> Asked(p, x, y, q)
                 /\ Idle(p2, x, y, q) <=> Idle(p, x, y, q)
           /\ \A w : \A x, y \in Nodes : \A msg : Under(p2, w, x, y, msg) <=> Under(p, w, x, y, msg)
           /\ TablesOK(p) => TablesOK(p2)
<1>1. \A x \in Nodes : p2[x].table = p[x].table
  BY DEF SameTables
<1> QED
  BY <1>1 DEF Has, Ready, Asked, Idle, Under, TablesOK

NoMessages == <<>>

LEMMA SendsNothing ==
    ASSUME NEW w \in Wires, NEW n \in Nodes, NEW s, s = <<>>
    PROVE  Sends(n, n, s, w, w)
<1>1. \A x, y \in Nodes : w[x][y] = w[x][y] \o s
  BY DEF Wires
<1>2. s \in Seq(Message) /\ \A a : ~SentS(s, a)
  BY DEF SentS
<1> QED
  BY <1>1, <1>2 DEF Sends

(* A step that changes records only is sound if these are. *)
SoundRecords(p, w, p2) ==
    /\ EnteredAgrees(p2)
    /\ \A x \in Nodes, f \in Flows :
          (Asks(p, x, f) => Asks(p2, x, f)) /\ (Up(p, x, f) => Up(p2, x, f))
    /\ \A x \in Nodes, f \in Flows, d \in Nodes :
          Waits(p2, x, f, d) => Waits(p, x, f, d) \/ Awaited(w, x, NextHop[x][d], QoS[f])
    /\ RoutesAgree => \A x \in Nodes, f \in Flows, d \in Nodes :
          /\ Waits(p, x, f, d) =>
                Waits(p2, x, f, d) \/ Under(p2, w, x, NextHop[x][d], Req(f, d))
          /\ Entry(p2, x, f, d) => Entry(p, x, f, d) \/ EntryOK(p2, f, x, d)
    /\ RoutesAgree => \A x \in Nodes, f \in Flows :
          /\ Asks(p2, x, f) => Asks(p, x, f) \/ AskOK(p2, f, x)
          /\ Up(p2, Caller[f], f) => Up(p, Caller[f], f) \/ Done(p2, f, 1)

LEMMA StepRecords ==
    ASSUME NEW p, NEW w, Base(p, w), NEW n \in Nodes, NEW p2, SameTables(n, p, p2),
           SoundRecords(p, w, p2)
    PROVE  SoundStep(n, n, NoMessages, p, w, p2, w)
<1>1. w \in Wires /\ TablesOK(p2) /\ p2 \in Procs
  BY TablesSame DEF Base, SameTables
<1>2. Grows(p, w, p2, w)
  BY TablesSame DEF Grows, SoundRecords
<1>3. SoundBase(p, w, p2, w)
  BY <1>1, TablesSame DEF SoundBase, SoundRecords
<1>4. ASSUME RoutesAgree, NEW f \in Flows PROVE SoundFlow(p, w, p2, w, f)
  <2>1. Caller[f] \in Nodes
    BY Constants
  <2> QED
    BY <1>1, <1>4, <2>1, TablesSame DEF SoundFlow, SoundRecords
<1>5. Sends(n, n, NoMessages, w, w)
  BY <1>1, SendsNothing DEF NoMessages
<1> QED
  BY <1>2, <1>3, <1>4, <1>5 DEF SoundStep

(* n has f at status v from now on. *)
Enters(n, f, v, p, p2) ==
    /\ SameTables(n, p, p2) /\ p2[n].forwards = p[n].forwards
    /\ \A g \in Flows : /\ p2[n].status[g] = IF g = f THEN v ELSE p[n].status[g]
                        /\ p2[n].entered[g] = IF g = f THEN p[n].entered[g] + 1 ELSE p[n].entered[g]

MayEnter(p2, n, f, v) ==
    RoutesAgree => AskOK(p2, f, n) /\ (v = "TRANSFER" => n # Caller[f])

LEMMA StepEnter ==
    ASSUME NEW p, NEW w, Base(p, w), NEW n \in Nodes, NEW f \in Flows, ~Asks(p, n, f),
           NEW v, v # "none", NEW p2, Enters(n, f, v, p, p2),
           MayEnter(p2, n, f, v)
    PROVE  /\ SoundStep(n, n, NoMessages, p, w, p2, w)
           /\ \A x \in Nodes, g \in Flows :
                 Asks(p2, x, g) <=> Asks(p, x, g) \/ (x = n /\ g = f)
           /\ Up(p2, n, f) <=> v = "TRANSFER"
<1>1. /\ SameTables(n, p, p2)
      /\ \A x \in Nodes : x # n => p2[x] = p[x]
      /\ \A x \in Nodes : p2[x].forwards = p[x].forwards
  BY DEF Enters, SameTables
<1>2. \A x \in Nodes, g \in Flows :
         /\ Asks(p2, x, g) <=> Asks(p, x, g) \/ (x = n /\ g = f)
         /\ ~(x = n /\ g = f) => (Up(p2, x, g) <=> Up(p, x, g))
  BY <1>1 DEF Enters, Asks, Up
<1>3. Up(p2, n, f) <=> v = "TRANSFER"
  BY DEF Enters, Up
<1>4. ~Up(p, n, f)
  BY DEF Up, Asks
<1>5. EnteredAgrees(p2)
  <2> SUFFICES ASSUME NEW x \in Nodes, NEW g \in Flows
               PROVE  /\ p2[x].entered[g] \in {0, 1}
                      /\ ~Asks(p2, x, g) => p2[x].entered[g] = 0
    BY DEF EnteredAgrees
  <2>1. /\ p[x].entered[g] \in {0, 1}
        /\ ~Asks(p, x, g) => p[x].entered[g] = 0
    BY DEF EnteredAgrees, Base
  <2>2. CASE x = n /\ g = f
    <3>1. p2[x].entered[g] = p[x].entered[g] + 1
      BY <2>2 DEF Enters
    <3> QED
      BY <1>2, <2>1, <2>2, <3>1
  <2>3. CASE ~(x = n /\ g = f)
    <3>1. p2[x].entered[g] = p[x].entered[g]
      BY <1>1, <2>3 DEF Enters
    <3> QED
      BY <1>2, <2>1, <2>3, <3>1
  <2> QED
    BY <2>2, <2>3
<1>6. \A x \in Nodes, g \in Flows, d \in Nodes :
         (Waits(p2, x, g, d) <=> Waits(p, x, g, d)) /\ (Entry(p2, x, g, d) <=> Entry(p, x, g, d))
  BY <1>1 DEF Waits, Entry
<1>7. \A x \in Nodes, g \in Flows :
         (Asks(p, x, g) => Asks(p2, x, g)) /\ (Up(p, x, g) => Up(p2, x, g))
  BY <1>2, <1>4
<1>8. ASSUME RoutesAgree, NEW x \in Nodes, NEW g \in Flows
      PROVE  /\ Asks(p2, x, g) => Asks(p, x, g) \/ AskOK(p2, g, x)
             /\ Up(p2, Caller[g], g) => Up(p, Caller[g], g)
  BY <1>2, <1>3, <1>8, Constants DEF MayEnter
<1>9. SoundStep(n, n, NoMessages, p, w, p2, w)
  <2>1. SoundRecords(p, w, p2)
    <3>1. \A x \in Nodes, g \in Flows, d \in Nodes : Waits(p2, x, g, d) => Waits(p, x, g, d)
      BY <1>6
    <3>2. \A x \in Nodes, g \in Flows, d \in Nodes :
             (Waits(p, x, g, d) => Waits(p2, x, g, d)) /\ (Entry(p2, x, g, d) => Entry(p, x, g, d))
      BY <1>6
    <3>3. RoutesAgree => \A x \in Nodes, g \in Flows :
             /\ Asks(p2, x, g) => Asks(p, x, g) \/ AskOK(p2, g, x)
             /\ Up(p2, Caller[g], g) => Up(p, Caller[g], g) \/ Done(p2, g, 1)
      BY <1>8
    <3> QED
      BY <1>5, <1>7, <3>1, <3>2, <3>3 DEF SoundRecords
  <2> QED
    BY <1>1, <2>1, StepRecords
<1> QED
  BY <1>2, <1>3, <1>9

(* n learns that f is up. *)
Learns(n, f, p, p2) ==
    /\ SameTables(n, p, p2) /\ p2[n].forwards = p[n].forwards /\ p2[n].entered = p[n].entered
    /\ \A g \in Flows : p2[n].status[g] = IF g = f THEN "TRANSFER" ELSE p[n].status[g]

LEMMA StepLearn ==
    ASSUME NEW p, NEW w, Base(p, w), NEW n \in Nodes, NEW f \in Flows,
           NEW p2, Learns(n, f, p, p2),
           RoutesAgree => Asks(p, n, f) /\ Done(p2, f, 1)
    PROVE  /\ SoundStep(n, n, NoMessages, p, w, p2, w) /\ Up(p2, n, f)
           /\ RoutesAgree => \A x \in Nodes, g \in Flows : Asks(p2, x, g) <=> Asks(p, x, g)
<1>1. /\ SameTables(n, p, p2)
      /\ \A x \in Nodes : x # n => p2[x] = p[x]
      /\ \A x \in Nodes : p2[x].forwards = p[x].forwards /\ p2[x].entered = p[x].entered
  BY DEF Learns, SameTables
<1>2. \A x \in Nodes, g \in Flows :
         /\ ~(x = n /\ g = f) => (Asks(p2, x, g) <=> Asks(p, x, g)) /\ (Up(p2, x, g) <=> Up(p, x, g))
         /\ x = n /\ g = f => Asks(p2, x, g) /\ Up(p2, x, g)
  BY <1>1 DEF Learns, Asks, Up
<1>3. EnteredAgrees(p2)
  BY <1>1, <1>2 DEF EnteredAgrees, Base
<1>4. \A x \in Nodes, g \in Flows, d \in Nodes :
         (Waits(p2, x, g, d) <=> Waits(p, x, g, d)) /\ (Entry(p2, x, g, d) <=> Entry(p, x, g, d))
  BY <1>1 DEF Waits, Entry
<1>5. \A x \in Nodes, g \in Flows :
         (Asks(p, x, g) => Asks(p2, x, g)) /\ (Up(p, x, g) => Up(p2, x, g))
  BY <1>2
<1>6. ASSUME RoutesAgree, NEW x \in Nodes, NEW g \in Flows
      PROVE  /\ Asks(p2, x, g) => Asks(p, x, g)
             /\ Up(p2, Caller[g], g) => Up(p, Caller[g], g) \/ Done(p2, g, 1)
  BY <1>2, <1>6, Constants
<1>7. SoundStep(n, n, NoMessages, p, w, p2, w)
  <2>1. SoundRecords(p, w, p2)
    <3>1. \A x \in Nodes, g \in Flows, d \in Nodes : Waits(p2, x, g, d) => Waits(p, x, g, d)
      BY <1>4
    <3>2. \A x \in Nodes, g \in Flows, d \in Nodes :
             (Waits(p, x, g, d) => Waits(p2, x, g, d)) /\ (Entry(p2, x, g, d) => Entry(p, x, g, d))
      BY <1>4
    <3>3. RoutesAgree => \A x \in Nodes, g \in Flows :
             /\ Asks(p2, x, g) => Asks(p, x, g) \/ AskOK(p2, g, x)
             /\ Up(p2, Caller[g], g) => Up(p, Caller[g], g) \/ Done(p2, g, 1)
      BY <1>6
    <3> QED
      BY <1>3, <1>5, <3>1, <3>2, <3>3 DEF SoundRecords
  <2> QED
    BY <1>1, <2>1, StepRecords
<1> QED
  BY <1>2, <1>5, <1>6, <1>7
(* n has one more request to forward, e. *)
Entered(n, e, p, p2) ==
    /\ SameTables(n, p, p2) /\ p2[n].status = p[n].status /\ p2[n].entered = p[n].entered
    /\ Len(p2[n].forwards) = Len(p[n].forwards) + 1 /\ Len(p[n].forwards) \in Nat
    /\ \A i \in 1 .. Len(p[n].forwards) + 1 :
          p2[n].forwards[i] = IF i = Len(p[n].forwards) + 1 THEN e ELSE p[n].forwards[i]

LEMMA StepForward ==
    ASSUME NEW p, NEW w, Base(p, w), NEW n \in Nodes, NEW e, e.flow \in Flows, e.to \in Nodes,
           NEW p2, Entered(n, e, p, p2),
           e.status = "FORWARDING" => Awaited(w, n, NextHop[n][e.to], QoS[e.flow]),
           RoutesAgree => EntryOK(p, e.flow, n, e.to)
    PROVE  /\ SoundStep(n, n, NoMessages, p, w, p2, w)
           /\ \A x \in Nodes, g \in Flows : Asks(p2, x, g) <=> Asks(p, x, g)
           /\ e.status = "FORWARDING" => Waits(p2, n, e.flow, e.to)
<1>1. /\ SameTables(n, p, p2)
      /\ \A x \in Nodes : x # n => p2[x] = p[x]
      /\ \A x \in Nodes : p2[x].status = p[x].status /\ p2[x].entered = p[x].entered
      /\ Len(p2[n].forwards) = Len(p[n].forwards) + 1 /\ Len(p[n].forwards) \in Nat
      /\ \A i \in 1 .. Len(p[n].forwards) + 1 :
            p2[n].forwards[i] = IF i = Len(p[n].forwards) + 1 THEN e ELSE p[n].forwards[i]
  BY DEF Entered, SameTables
<1>2. \A x \in Nodes, g \in Flows : (Asks(p2, x, g) <=> Asks(p, x, g)) /\ (Up(p2, x, g) <=> Up(p, x, g))
  BY <1>1 DEF Asks, Up
<1>3. EnteredAgrees(p2)
  BY <1>1, <1>2 DEF EnteredAgrees, Base
<1>4. ASSUME NEW x \in Nodes, NEW g \in Flows, NEW d \in Nodes
      PROVE  /\ Waits(p, x, g, d) => Waits(p2, x, g, d)
             /\ Waits(p2, x, g, d) =>
                   Waits(p, x, g, d) \/ (x = n /\ g = e.flow /\ d = e.to /\ e.status = "FORWARDING")
             /\ Entry(p2, x, g, d) => Entry(p, x, g, d) \/ (x = n /\ g = e.flow /\ d = e.to)
  <2>0. \A i \in 1 .. Len(p2[n].forwards) :
           \/ i \in 1 .. Len(p[n].forwards) /\ p2[n].forwards[i] = p[n].forwards[i]
           \/ p2[n].forwards[i] = e
    BY <1>1
  <2>1. CASE x # n
    <3>1. p2[x] = p[x]
      BY <1>1, <2>1
    <3> QED
      BY <3>1 DEF Waits, Entry
  <2>2. CASE x = n
    <3>0. \A i \in 1 .. Len(p[n].forwards) :
             i \in 1 .. Len(p2[n].forwards) /\ p2[n].forwards[i] = p[n].forwards[i]
      BY <1>1
    <3>1. Waits(p, x, g, d) => Waits(p2, x, g, d)
      BY <3>0, <2>2 DEF Waits
    <3>2. Waits(p2, x, g, d) =>
             Waits(p, x, g, d) \/ (x = n /\ g = e.flow /\ d = e.to /\ e.status = "FORWARDING")
      BY <1>1, <2>2, <2>0 DEF Waits
    <3>3. Entry(p2, x, g, d) => Entry(p, x, g, d) \/ (x = n /\ g = e.flow /\ d = e.to)
      BY <1>1, <2>2, <2>0 DEF Entry
    <3> QED
      BY <3>1, <3>2, <3>3
  <2> QED
    BY <2>1, <2>2
<1>5. Grows(p, w, p2, w)
  <2>1. \A x, d \in Nodes, g \in Flows : Waits(p, x, g, d) => Waits(p2, x, g, d)
    BY <1>4
  <2> QED
    BY <1>1, <1>2, <2>1, TablesSame DEF Grows
<1>6. RoutesAgree => EntryOK(p2, e.flow, n, e.to)
  BY <1>5, GrowsKeeps
<1>7. SoundRecords(p, w, p2)
  <2>1. \A x \in Nodes, f \in Flows, d \in Nodes :
           Waits(p2, x, f, d) => Waits(p, x, f, d) \/ Awaited(w, x, NextHop[x][d], QoS[f])
    BY <1>4
  <2>2. RoutesAgree => \A x \in Nodes, f \in Flows, d \in Nodes :
           /\ Waits(p, x, f, d) => Waits(p2, x, f, d)
           /\ Entry(p2, x, f, d) => Entry(p, x, f, d) \/ EntryOK(p2, f, x, d)
    BY <1>4, <1>6
  <2>3. RoutesAgree => \A x \in Nodes, f \in Flows :
           /\ Asks(p2, x, f) => Asks(p, x, f)
           /\ Up(p2, Caller[f], f) => Up(p, Caller[f], f)
    BY <1>2, Constants
  <2> QED
    BY <1>2, <1>3, <2>1, <2>2, <2>3 DEF SoundRecords
<1>8. SoundStep(n, n, NoMessages, p, w, p2, w)
  BY <1>1, <1>7, StepRecords
<1>9. e.status = "FORWARDING" => Waits(p2, n, e.flow, e.to)
  <2>1. Len(p2[n].forwards) \in 1 .. Len(p2[n].forwards) /\ p2[n].forwards[Len(p2[n].forwards)] = e
    BY <1>1
  <2> QED
    BY <2>1 DEF Waits
<1> QED
  BY <1>2, <1>8, <1>9

(* The i-th request that n has to forward has been sent on. *)
Marks(n, i, p, p2) ==
    /\ SameTables(n, p, p2) /\ p2[n].status = p[n].status /\ p2[n].entered = p[n].entered
    /\ Len(p2[n].forwards) = Len(p[n].forwards) /\ i \in 1 .. Len(p[n].forwards)
    /\ \A j \in 1 .. Len(p[n].forwards) :
          /\ p2[n].forwards[j].flow = p[n].forwards[j].flow
          /\ p2[n].forwards[j].to = p[n].forwards[j].to
          /\ p2[n].forwards[j].status = IF j = i THEN "FORWARDED" ELSE p[n].forwards[j].status

LEMMA StepMark ==
    ASSUME NEW p, NEW w, Base(p, w), NEW n \in Nodes, NEW i, NEW p2, Marks(n, i, p, p2),
           NEW e, e = p[n].forwards[i],
           RoutesAgree => Under(p, w, n, NextHop[n][e.to], Req(e.flow, e.to))
    PROVE  /\ SoundStep(n, n, NoMessages, p, w, p2, w)
           /\ \A x \in Nodes, g \in Flows : Asks(p2, x, g) <=> Asks(p, x, g)
<1>1. /\ SameTables(n, p, p2)
      /\ \A x \in Nodes : x # n => p2[x] = p[x]
      /\ \A x \in Nodes : p2[x].status = p[x].status /\ p2[x].entered = p[x].entered
      /\ Len(p2[n].forwards) = Len(p[n].forwards) /\ i \in 1 .. Len(p[n].forwards)
      /\ \A j \in 1 .. Len(p[n].forwards) :
            /\ p2[n].forwards[j].flow = p[n].forwards[j].flow
            /\ p2[n].forwards[j].to = p[n].forwards[j].to
            /\ p2[n].forwards[j].status = IF j = i THEN "FORWARDED" ELSE p[n].forwards[j].status
  BY DEF Marks, SameTables
<1>2. \A x \in Nodes, g \in Flows : (Asks(p2, x, g) <=> Asks(p, x, g)) /\ (Up(p2, x, g) <=> Up(p, x, g))
  BY <1>1 DEF Asks, Up
<1>3. EnteredAgrees(p2)
  BY <1>1, <1>2 DEF EnteredAgrees, Base
<1>4. ASSUME NEW x \in Nodes, NEW g \in Flows, NEW d \in Nodes
      PROVE  /\ Waits(p2, x, g, d) => Waits(p, x, g, d)
             /\ Waits(p, x, g, d) =>
                   Waits(p2, x, g, d) \/ (x = n /\ g = e.flow /\ d = e.to)
             /\ Entry(p2, x, g, d) => Entry(p, x, g, d)
  <2>1. CASE x # n
    <3>1. p2[x] = p[x]
      BY <1>1, <2>1
    <3> QED
      BY <3>1 DEF Waits, Entry
  <2>2. CASE x = n
    <3>1. Waits(p2, x, g, d) => Waits(p, x, g, d)
      BY <1>1, <2>2 DEF Waits
    <3>2. Waits(p, x, g, d) => Waits(p2, x, g, d) \/ (x = n /\ g = e.flow /\ d = e.to)
      BY <1>1, <2>2 DEF Waits
    <3>3. Entry(p2, x, g, d) => Entry(p, x, g, d)
      BY <1>1, <2>2 DEF Entry
    <3> QED
      BY <3>1, <3>2, <3>3
  <2> QED
    BY <2>1, <2>2
<1>5. SoundRecords(p, w, p2)
  <2>1. RoutesAgree => Under(p2, w, n, NextHop[n][e.to], Req(e.flow, e.to))
    <3> SUFFICES ASSUME RoutesAgree PROVE Under(p2, w, n, NextHop[n][e.to], Req(e.flow, e.to))
      OBVIOUS
    <3>1. p2[n].table = p[n].table
      BY <1>1 DEF SameTables
    <3> QED
      BY <3>1 DEF Under
  <2>2. \A x \in Nodes, f \in Flows, d \in Nodes : Waits(p2, x, f, d) => Waits(p, x, f, d)
    BY <1>4
  <2>3. RoutesAgree => \A x \in Nodes, f \in Flows, d \in Nodes :
           /\ Waits(p, x, f, d) => Waits(p2, x, f, d) \/ Under(p2, w, x, NextHop[x][d], Req(f, d))
           /\ Entry(p2, x, f, d) => Entry(p, x, f, d)
    BY <1>4, <2>1
  <2>4. RoutesAgree => \A x \in Nodes, f \in Flows :
           /\ Asks(p2, x, f) => Asks(p, x, f)
           /\ Up(p2, Caller[f], f) => Up(p, Caller[f], f)
    BY <1>2, Constants
  <2> QED
    BY <1>2, <1>3, <2>2, <2>3, <2>4 DEF SoundRecords
<1>6. SoundStep(n, n, NoMessages, p, w, p2, w)
  BY <1>1, <1>5, StepRecords
<1> QED
  BY <1>2, <1>6
-----------------------------------------------------------------------------
(* The same as operators on outcomes.                                      *)

Entry3 == [flow : Flows, to : Nodes, status : {"FORWARDING", "FORWARDED"}]

WithFlow(o, f, v) == [o EXCEPT !.st.status[f] = v, !.st.entered[f] = @ + 1]
WithStatus(o, f, v) == [o EXCEPT !.st.status[f] = v]
WithForwards(o, fw) == [o EXCEPT !.st.forwards = fw]
WithMark(o, i) == [o EXCEPT !.st.forwards[i].status = "FORWARDED"]
WithRefused(o, r) == [o EXCEPT !.st.refused = r]

(* What becomes of the records of an outcome, pointwise. *)
FlowRecords(o, o2, f, v) ==
    /\ o2.st.forwards = o.st.forwards
    /\ \A g \in Flows :
          /\ o2.st.status[g] = IF g = f THEN v ELSE o.st.status[g]
          /\ o2.st.entered[g] = IF g = f THEN o.st.entered[g] + 1 ELSE o.st.entered[g]
StatusRecords(o, o2, f, v) ==
    /\ o2.st.forwards = o.st.forwards /\ o2.st.entered = o.st.entered
    /\ \A g \in Flows : o2.st.status[g] = IF g = f THEN v ELSE o.st.status[g]
ForwardRecords(o, o2, e) ==
    /\ o2.st.status = o.st.status /\ o2.st.entered = o.st.entered
    /\ Len(o2.st.forwards) = Len(o.st.forwards) + 1
    /\ \A i \in 1 .. Len(o.st.forwards) + 1 :
          o2.st.forwards[i] = IF i = Len(o.st.forwards) + 1 THEN e ELSE o.st.forwards[i]
MarkRecords(o, o2, i) ==
    /\ o2.st.status = o.st.status /\ o2.st.entered = o.st.entered
    /\ Len(o2.st.forwards) = Len(o.st.forwards)
    /\ \A j \in 1 .. Len(o.st.forwards) :
          /\ o2.st.forwards[j].flow = o.st.forwards[j].flow
          /\ o2.st.forwards[j].to = o.st.forwards[j].to
          /\ o2.st.forwards[j].status = IF j = i THEN "FORWARDED" ELSE o.st.forwards[j].status

LEMMA StateOutcome ==
    ASSUME NEW o \in Outcome, NEW s \in Allocators
    PROVE  [o EXCEPT !.st = s] \in Outcome /\ [o EXCEPT !.st = s].st = s
           /\ [o EXCEPT !.st = s].out = o.out
  BY TwoFields DEF Outcome

LEMMA StateFields ==
    ASSUME NEW s \in Allocators
    PROVE  /\ \A v \in [Flows -> {"none", "ALLOC_PEND", "TRANSFER"}] :
                 LET r == [s EXCEPT !.status = v]
                 IN  /\ r \in Allocators /\ r.status = v /\ r.table = s.table
                     /\ r.entered = s.entered /\ r.forwards = s.forwards
           /\ \A v \in [Flows -> Nat] :
                 LET r == [s EXCEPT !.entered = v]
                 IN  /\ r \in Allocators /\ r.entered = v /\ r.table = s.table
                     /\ r.status = s.status /\ r.forwards = s.forwards
           /\ \A v \in Seq(Entry3) :
                 LET r == [s EXCEPT !.forwards = v]
                 IN  /\ r \in Allocators /\ r.forwards = v /\ r.table = s.table
                     /\ r.status = s.status /\ r.entered = s.entered
           /\ \A v \in SUBSET Flows :
                 LET r == [s EXCEPT !.refused = v]
                 IN  /\ r \in Allocators /\ r.forwards = s.forwards /\ r.table = s.table
                     /\ r.status = s.status /\ r.entered = s.entered
  BY DEF Allocators, Entry3

LEMMA FlowOutcome ==
    ASSUME NEW o \in Outcome, NEW f \in Flows, NEW v \in {"none", "ALLOC_PEND", "TRANSFER"},
           NEW o2, o2 = WithFlow(o, f, v)
    PROVE  o2 \in Outcome /\ Alike(o, o2) /\ FlowRecords(o, o2, f, v)
<1> DEFINE a == [o.st.status EXCEPT ![f] = v]
           b == [o.st.entered EXCEPT ![f] = o.st.entered[f] + 1]
           s == [o.st EXCEPT !.status = a]
           r == [s EXCEPT !.entered = b]
<1>1. /\ o.st \in Allocators
      /\ o.st.status \in [Flows -> {"none", "ALLOC_PEND", "TRANSFER"}]
      /\ o.st.entered \in [Flows -> Nat]
  BY OutcomeFields
<1>2. /\ a \in [Flows -> {"none", "ALLOC_PEND", "TRANSFER"}] /\ b \in [Flows -> Nat]
      /\ \A g \in Flows :
            /\ a[g] = IF g = f THEN v ELSE o.st.status[g]
            /\ b[g] = IF g = f THEN o.st.entered[g] + 1 ELSE o.st.entered[g]
  BY <1>1
<1>3. o2 = [o EXCEPT !.st = r]
  <2>1. s.entered = o.st.entered
    BY <1>1 DEF Allocators
  <2>2. o2 = [[o EXCEPT !.st = s] EXCEPT !.st = [[o EXCEPT !.st = s].st EXCEPT
                  !.entered = [[o EXCEPT !.st = s].st.entered EXCEPT ![f] = @ + 1]]]
    BY DEF WithFlow
  <2>3. [o EXCEPT !.st = s].st = s /\ \A x : [[o EXCEPT !.st = s] EXCEPT !.st = x] = [o EXCEPT !.st = x]
    BY DEF Outcome
  <2> QED
    BY <2>1, <2>2, <2>3
<1> HIDE DEF a, b
<1>4. /\ s \in Allocators /\ s.status = a /\ s.table = o.st.table
      /\ s.entered = o.st.entered /\ s.forwards = o.st.forwards
  BY <1>1, <1>2, StateFields
<1> HIDE DEF s
<1>5. /\ r \in Allocators /\ r.entered = b /\ r.table = s.table
      /\ r.status = s.status /\ r.forwards = s.forwards
  BY <1>2, <1>4, StateFields
<1> HIDE DEF r
<1>6. o2 \in Outcome /\ o2.st = r /\ o2.out = o.out
  BY <1>3, <1>5, StateOutcome
<1> QED
  BY <1>2, <1>4, <1>5, <1>6 DEF Alike, FlowRecords

LEMMA StatusOutcome ==
    ASSUME NEW o \in Outcome, NEW f \in Flows, NEW v \in {"none", "ALLOC_PEND", "TRANSFER"},
           NEW o2, o2 = WithStatus(o, f, v)
    PROVE  o2 \in Outcome /\ Alike(o, o2) /\ StatusRecords(o, o2, f, v)
<1> DEFINE a == [o.st.status EXCEPT ![f] = v]
           s == [o.st EXCEPT !.status = a]
<1>1. /\ o.st \in Allocators
      /\ o.st.status \in [Flows -> {"none", "ALLOC_PEND", "TRANSFER"}]
  BY OutcomeFields
<1>2. /\ a \in [Flows -> {"none", "ALLOC_PEND", "TRANSFER"}]
      /\ \A g \in Flows : a[g] = IF g = f THEN v ELSE o.st.status[g]
  BY <1>1
<1>3. o2 = [o EXCEPT !.st = s]
  BY DEF WithStatus
<1> HIDE DEF a
<1>4. /\ s \in Allocators /\ s.status = a /\ s.table = o.st.table
      /\ s.entered = o.st.entered /\ s.forwards = o.st.forwards
  BY <1>1, <1>2, StateFields
<1> HIDE DEF s
<1>5. o2 \in Outcome /\ o2.st = s /\ o2.out = o.out
  BY <1>3, <1>4, StateOutcome
<1> QED
  BY <1>2, <1>4, <1>5 DEF Alike, StatusRecords

LEMMA ForwardsOutcome ==
    ASSUME NEW o \in Outcome, NEW fw \in Seq(Entry3), NEW o2, o2 = WithForwards(o, fw)
    PROVE  /\ o2 \in Outcome /\ Alike(o, o2) /\ o2.st.forwards = fw
           /\ o2.st.status = o.st.status /\ o2.st.entered = o.st.entered
<1> DEFINE s == [o.st EXCEPT !.forwards = fw]
<1>1. o.st \in Allocators
  BY OutcomeFields
<1>2. o2 = [o EXCEPT !.st = s]
  BY DEF WithForwards
<1>3. /\ s \in Allocators /\ s.forwards = fw /\ s.table = o.st.table
      /\ s.entered = o.st.entered /\ s.status = o.st.status
  BY <1>1, StateFields
<1> HIDE DEF s
<1>4. o2 \in Outcome /\ o2.st = s /\ o2.out = o.out
  BY <1>2, <1>3, StateOutcome
<1> QED
  BY <1>3, <1>4 DEF Alike

LEMMA RefusedOutcome ==
    ASSUME NEW o \in Outcome, NEW r \in SUBSET Flows, NEW o2, o2 = WithRefused(o, r)
    PROVE  o2 \in Outcome /\ Alike(o, o2) /\ SameRecords(o, o2)
<1> DEFINE s == [o.st EXCEPT !.refused = r]
<1>1. o.st \in Allocators
  BY OutcomeFields
<1>2. o2 = [o EXCEPT !.st = s]
  BY DEF WithRefused
<1>3. /\ s \in Allocators /\ s.forwards = o.st.forwards /\ s.table = o.st.table
      /\ s.entered = o.st.entered /\ s.status = o.st.status
  BY <1>1, StateFields
<1> HIDE DEF s
<1>4. o2 \in Outcome /\ o2.st = s /\ o2.out = o.out
  BY <1>2, <1>3, StateOutcome
<1> QED
  BY <1>3, <1>4 DEF Alike, SameRecords

Marked(fw, i) == [fw EXCEPT ![i] = [fw[i] EXCEPT !.status = "FORWARDED"]]

LEMMA MarkOutcome ==
    ASSUME NEW o \in Outcome, NEW i \in 1 .. Len(o.st.forwards), NEW o2, o2 = WithMark(o, i)
    PROVE  /\ o2 \in Outcome /\ Alike(o, o2) /\ o2.st.forwards = Marked(o.st.forwards, i)
           /\ o2.st.status = o.st.status /\ o2.st.entered = o.st.entered
           /\ Len(o2.st.forwards) = Len(o.st.forwards)
           /\ \A j \in 1 .. Len(o.st.forwards) :
                 /\ o2.st.forwards[j].flow = o.st.forwards[j].flow
                 /\ o2.st.forwards[j].to = o.st.forwards[j].to
                 /\ o2.st.forwards[j].status =
                        IF j = i THEN "FORWARDED" ELSE o.st.forwards[j].status
<1> DEFINE fw == o.st.forwards
           g == Marked(fw, i)
<1>1. fw \in Seq(Entry3) /\ i \in 1 .. Len(fw)
  BY OutcomeFields DEF Entry3
<1>2. o2 = WithForwards(o, g)
  BY DEF WithMark, WithForwards, Marked
<1> HIDE DEF fw
<1>3. \A j \in 1 .. Len(fw) : fw[j] \in Entry3
  BY <1>1
<1>4. /\ [fw[i] EXCEPT !.status = "FORWARDED"] \in Entry3
      /\ [fw[i] EXCEPT !.status = "FORWARDED"].flow = fw[i].flow
      /\ [fw[i] EXCEPT !.status = "FORWARDED"].to = fw[i].to
      /\ [fw[i] EXCEPT !.status = "FORWARDED"].status = "FORWARDED"
  BY <1>1, <1>3 DEF Entry3
<1>5. /\ g \in Seq(Entry3) /\ Len(g) = Len(fw)
      /\ \A j \in 1 .. Len(fw) :
            g[j] = IF j = i THEN [fw[i] EXCEPT !.status = "FORWARDED"] ELSE fw[j]
  BY <1>1, <1>4 DEF Marked
<1> HIDE DEF g
<1>6. /\ o2 \in Outcome /\ Alike(o, o2) /\ o2.st.forwards = g
      /\ o2.st.status = o.st.status /\ o2.st.entered = o.st.entered
  BY <1>2, <1>5, ForwardsOutcome
<1>7. \A j \in 1 .. Len(fw) :
         /\ g[j].flow = fw[j].flow /\ g[j].to = fw[j].to
         /\ g[j].status = IF j = i THEN "FORWARDED" ELSE fw[j].status
  BY <1>4, <1>5
<1> QED
  BY <1>5, <1>6, <1>7 DEF fw, g
(* What happened to the records happened whatever was done in between. *)
LEMMA RecordsThen ==
    ASSUME NEW o, NEW o1, NEW b, NEW e, SameRecords(o, b), SameRecords(o1, e)
    PROVE  /\ \A f, v : FlowRecords(o, o1, f, v) => FlowRecords(b, e, f, v)
           /\ \A f, v : StatusRecords(o, o1, f, v) => StatusRecords(b, e, f, v)
           /\ \A x : ForwardRecords(o, o1, x) => ForwardRecords(b, e, x)
           /\ \A i : MarkRecords(o, o1, i) => MarkRecords(b, e, i)
<1>1. /\ b.st.status = o.st.status /\ b.st.entered = o.st.entered /\ b.st.forwards = o.st.forwards
      /\ e.st.status = o1.st.status /\ e.st.entered = o1.st.entered
      /\ e.st.forwards = o1.st.forwards
  BY DEF SameRecords
<1>2. \A f, v : FlowRecords(o, o1, f, v) => FlowRecords(b, e, f, v)
  BY <1>1 DEF FlowRecords
<1>3. \A f, v : StatusRecords(o, o1, f, v) => StatusRecords(b, e, f, v)
  BY <1>1 DEF StatusRecords
<1>4. \A x : ForwardRecords(o, o1, x) => ForwardRecords(b, e, x)
  BY <1>1 DEF ForwardRecords
<1>5. \A i : MarkRecords(o, o1, i) => MarkRecords(b, e, i)
  BY <1>1 DEF MarkRecords
<1> QED
  BY <1>2, <1>3, <1>4, <1>5

EntersWell(p, n, f, v) ==
    RoutesAgree =>
       /\ n \in {Caller[f], Callee[f]} /\ (v = "TRANSFER" => n # Caller[f])
       /\ n # Caller[f] => Asks(p, Caller[f], f)
       /\ Has(p, Caller[f], Way[f][1], QoS[f])

LEMMA PartEnter ==
    ASSUME NEW p \in Procs, NEW w \in Wires, NEW n \in Nodes, NEW b \in Outcome, GoodAt(p, w, n, b),
           NEW f \in Flows, ~Asks(ProcOf(p, n, b), n, f),
           NEW v, v # "none", NEW e \in Outcome, Alike(b, e), FlowRecords(b, e, f, v),
           EntersWell(ProcOf(p, n, b), n, f, v)
    PROVE  /\ Leads(p, w, n, b, e) /\ SameTables(n, ProcOf(p, n, b), ProcOf(p, n, e))
           /\ WireOf(w, n, e) = WireOf(w, n, b)
           /\ \A x \in Nodes, g \in Flows :
                 Asks(ProcOf(p, n, e), x, g) <=> Asks(ProcOf(p, n, b), x, g) \/ (x = n /\ g = f)
           /\ Up(ProcOf(p, n, e), n, f) <=> v = "TRANSFER"
<1> DEFINE P == ProcOf(p, n, b)
           W == WireOf(w, n, b)
           P2 == ProcOf(p, n, e)
           W2 == WireOf(w, n, e)
<1>1. SameTables(n, P, P2) /\ W2 = W /\ P[n] = b.st /\ P2[n] = e.st
  BY AlikeWorld
<1>2. Base(P, W)
  BY GoodTables
<1> HIDE DEF P, W, P2, W2
<1>3. Enters(n, f, v, P, P2)
  BY <1>1 DEF Enters, FlowRecords
<1>4. Asks(P2, n, f)
  BY <1>3 DEF Enters, Asks
<1>5. RoutesAgree => AskOK(P2, f, n) /\ (v = "TRANSFER" => n # Caller[f])
  <2> SUFFICES ASSUME RoutesAgree PROVE AskOK(P2, f, n) /\ (v = "TRANSFER" => n # Caller[f])
    OBVIOUS
  <2>1. /\ n \in {Caller[f], Callee[f]} /\ (v = "TRANSFER" => n # Caller[f])
        /\ n # Caller[f] => Asks(P, Caller[f], f)
        /\ Has(P, Caller[f], Way[f][1], QoS[f])
    BY DEF P, EntersWell
  <2>2. Way[f][1] \in Nodes /\ Caller[f] \in Nodes
    BY WayEnds, WayType, Constants
  <2>3. Has(P2, Caller[f], Way[f][1], QoS[f])
    BY <1>1, <2>1, <2>2, TablesSame
  <2>4. Asks(P2, Caller[f], f)
    <3>1. CASE n = Caller[f]
      BY <1>4, <3>1
    <3>2. CASE n # Caller[f]
      BY <1>1, <2>1, <2>2, <3>2 DEF SameTables, Asks
    <3> QED
      BY <3>1, <3>2
  <2> QED
    BY <2>1, <2>3, <2>4 DEF AskOK
<1>6. ~Asks(P, n, f) /\ MayEnter(P2, n, f, v)
  BY <1>5 DEF P, MayEnter
<1>7. /\ SoundStep(n, n, NoMessages, P, W, P2, W)
      /\ \A x \in Nodes, g \in Flows : Asks(P2, x, g) <=> Asks(P, x, g) \/ (x = n /\ g = f)
      /\ Up(P2, n, f) <=> v = "TRANSFER"
  <2>2. SoundStep(n, n, NoMessages, P, W, P2, W)
    BY <1>2, <1>3, <1>6, StepEnter
  <2>3. \A x \in Nodes, g \in Flows : Asks(P2, x, g) <=> Asks(P, x, g) \/ (x = n /\ g = f)
    BY <1>2, <1>3, <1>6, StepEnter
  <2>4. Up(P2, n, f) <=> v = "TRANSFER"
    BY <1>3 DEF Enters, Up
  <2> QED
    BY <2>2, <2>3, <2>4
<1>8. SoundStep(n, n, NoMessages, P, W, P2, W2)
  BY <1>1, <1>7
<1>9. Leads(p, w, n, b, e)
  BY <1>8, LeadsBy DEF P, W, P2, W2
<1> QED
  BY <1>1, <1>7, <1>9 DEF P, W, P2, W2

LEMMA PartLearn ==
    ASSUME NEW p \in Procs, NEW w \in Wires, NEW n \in Nodes, NEW b \in Outcome, GoodAt(p, w, n, b),
           NEW f \in Flows, NEW e \in Outcome, Alike(b, e), StatusRecords(b, e, f, "TRANSFER"),
           RoutesAgree => Asks(ProcOf(p, n, b), n, f) /\ Done(ProcOf(p, n, e), f, 1)
    PROVE  /\ Leads(p, w, n, b, e) /\ WireOf(w, n, e) = WireOf(w, n, b)
           /\ Up(ProcOf(p, n, e), n, f)
           /\ RoutesAgree => \A x \in Nodes, g \in Flows :
                 Asks(ProcOf(p, n, e), x, g) <=> Asks(ProcOf(p, n, b), x, g)
<1> DEFINE P == ProcOf(p, n, b)
           W == WireOf(w, n, b)
           P2 == ProcOf(p, n, e)
           W2 == WireOf(w, n, e)
<1>1. SameTables(n, P, P2) /\ W2 = W /\ P[n] = b.st /\ P2[n] = e.st
  BY AlikeWorld
<1>2. Base(P, W) /\ (RoutesAgree => Asks(P, n, f) /\ Done(P2, f, 1))
  BY GoodTables
<1> HIDE DEF P, W, P2, W2
<1>3. Learns(n, f, P, P2)
  BY <1>1 DEF Learns, StatusRecords
<1>4. /\ SoundStep(n, n, NoMessages, P, W, P2, W) /\ Up(P2, n, f)
      /\ RoutesAgree => \A x \in Nodes, g \in Flows : Asks(P2, x, g) <=> Asks(P, x, g)
  BY <1>2, <1>3, StepLearn
<1>5. SoundStep(n, n, NoMessages, P, W, P2, W2)
  BY <1>1, <1>4
<1>6. Leads(p, w, n, b, e)
  BY <1>5, LeadsBy DEF P, W, P2, W2
<1> QED
  BY <1>1, <1>4, <1>6 DEF P, W, P2, W2

LEMMA PartForward ==
    ASSUME NEW p \in Procs, NEW w \in Wires, NEW n \in Nodes, NEW b \in Outcome, GoodAt(p, w, n, b),
           NEW x, x.flow \in Flows, x.to \in Nodes,
           NEW e \in Outcome, Alike(b, e), ForwardRecords(b, e, x),
           x.status = "FORWARDING" => Awaited(WireOf(w, n, b), n, NextHop[n][x.to], QoS[x.flow]),
           RoutesAgree => EntryOK(ProcOf(p, n, b), x.flow, n, x.to)
    PROVE  /\ Leads(p, w, n, b, e) /\ WireOf(w, n, e) = WireOf(w, n, b)
           /\ \A y \in Nodes, g \in Flows :
                 Asks(ProcOf(p, n, e), y, g) <=> Asks(ProcOf(p, n, b), y, g)
           /\ x.status = "FORWARDING" => Waits(ProcOf(p, n, e), n, x.flow, x.to)
<1> DEFINE P == ProcOf(p, n, b)
           W == WireOf(w, n, b)
           P2 == ProcOf(p, n, e)
           W2 == WireOf(w, n, e)
<1>1. SameTables(n, P, P2) /\ W2 = W /\ P[n] = b.st /\ P2[n] = e.st
  BY AlikeWorld
<1>2. /\ Base(P, W) /\ (RoutesAgree => EntryOK(P, x.flow, n, x.to))
      /\ x.status = "FORWARDING" => Awaited(W, n, NextHop[n][x.to], QoS[x.flow])
  BY GoodTables
<1>3. Len(b.st.forwards) \in Nat
  BY OutcomeFields
<1> HIDE DEF P, W, P2, W2
<1>4. Entered(n, x, P, P2)
  BY <1>1, <1>3 DEF Entered, ForwardRecords
<1>5. /\ SoundStep(n, n, NoMessages, P, W, P2, W)
      /\ \A y \in Nodes, g \in Flows : Asks(P2, y, g) <=> Asks(P, y, g)
      /\ x.status = "FORWARDING" => Waits(P2, n, x.flow, x.to)
  BY <1>2, <1>4, StepForward
<1>6. SoundStep(n, n, NoMessages, P, W, P2, W2)
  BY <1>1, <1>5
<1>7. Leads(p, w, n, b, e)
  BY <1>6, LeadsBy DEF P, W, P2, W2
<1> QED
  BY <1>1, <1>5, <1>7 DEF P, W, P2, W2

LEMMA PartMark ==
    ASSUME NEW p \in Procs, NEW w \in Wires, NEW n \in Nodes, NEW b \in Outcome, GoodAt(p, w, n, b),
           NEW i \in 1 .. Len(b.st.forwards), NEW x, x = b.st.forwards[i],
           NEW e \in Outcome, Alike(b, e), MarkRecords(b, e, i),
           RoutesAgree => Under(ProcOf(p, n, b), WireOf(w, n, b), n, NextHop[n][x.to],
                                Req(x.flow, x.to))
    PROVE  /\ Leads(p, w, n, b, e) /\ WireOf(w, n, e) = WireOf(w, n, b)
           /\ \A y \in Nodes, g \in Flows :
                 Asks(ProcOf(p, n, e), y, g) <=> Asks(ProcOf(p, n, b), y, g)
<1> DEFINE P == ProcOf(p, n, b)
           W == WireOf(w, n, b)
           P2 == ProcOf(p, n, e)
           W2 == WireOf(w, n, e)
<1>1. SameTables(n, P, P2) /\ W2 = W /\ P[n] = b.st /\ P2[n] = e.st
  BY AlikeWorld
<1>2. /\ Base(P, W) /\ (RoutesAgree => Under(P, W, n, NextHop[n][x.to], Req(x.flow, x.to)))
  BY GoodTables
<1> HIDE DEF P, W, P2, W2
<1>3. Marks(n, i, P, P2) /\ x = P[n].forwards[i]
  BY <1>1 DEF Marks, MarkRecords
<1>4. /\ SoundStep(n, n, NoMessages, P, W, P2, W)
      /\ \A y \in Nodes, g \in Flows : Asks(P2, y, g) <=> Asks(P, y, g)
  BY <1>2, <1>3, StepMark
<1>5. SoundStep(n, n, NoMessages, P, W, P2, W2)
  BY <1>1, <1>4
<1>6. Leads(p, w, n, b, e)
  BY <1>5, LeadsBy DEF P, W, P2, W2
<1> QED
  BY <1>1, <1>4, <1>6 DEF P, W, P2, W2

(* Nothing that the proofs ask of an outcome is changed. *)
LEMMA PartNothing ==
    ASSUME NEW p \in Procs, NEW w \in Wires, NEW n \in Nodes, NEW b \in Outcome, GoodAt(p, w, n, b),
           NEW e \in Outcome, Alike(b, e), SameRecords(b, e)
    PROVE  /\ Leads(p, w, n, b, e) /\ WireOf(w, n, e) = WireOf(w, n, b)
           /\ \A y \in Nodes, g \in Flows :
                 Asks(ProcOf(p, n, e), y, g) <=> Asks(ProcOf(p, n, b), y, g)
<1> DEFINE P == ProcOf(p, n, b)
           W == WireOf(w, n, b)
           P2 == ProcOf(p, n, e)
           W2 == WireOf(w, n, e)
<1>1. SameTables(n, P, P2) /\ W2 = W /\ P[n] = b.st /\ P2[n] = e.st
  BY AlikeWorld
<1>2. Base(P, W)
  BY GoodTables
<1> HIDE DEF P, W, P2, W2
<1>3. /\ \A x \in Nodes : /\ P2[x].status = P[x].status /\ P2[x].entered = P[x].entered
                          /\ P2[x].forwards = P[x].forwards
  BY <1>1 DEF SameTables, SameRecords
<1>4. \A x \in Nodes, f \in Flows : (Asks(P2, x, f) <=> Asks(P, x, f)) /\ (Up(P2, x, f) <=> Up(P, x, f))
  BY <1>3 DEF Asks, Up
<1>5. \A x \in Nodes, f \in Flows, d \in Nodes :
         (Waits(P2, x, f, d) <=> Waits(P, x, f, d)) /\ (Entry(P2, x, f, d) <=> Entry(P, x, f, d))
  BY <1>3 DEF Waits, Entry
<1>6. EnteredAgrees(P2)
  BY <1>2, <1>3, <1>4 DEF EnteredAgrees, Base
<1>7. SoundRecords(P, W, P2)
  BY <1>4, <1>5, <1>6, Constants DEF SoundRecords
<1>8. SoundStep(n, n, NoMessages, P, W, P2, W)
  BY <1>1, <1>2, <1>7, StepRecords
<1>9. SoundStep(n, n, NoMessages, P, W, P2, W2)
  BY <1>1, <1>8
<1>10. Leads(p, w, n, b, e)
  BY <1>9, LeadsBy DEF P, W, P2, W2
<1> QED
  BY <1>1, <1>4, <1>10 DEF P, W, P2, W2

-----------------------------------------------------------------------------
(* The handlers, in the world where what they handle is still under way.   *)

AsksSame(p, p2) == \A x \in Nodes, g \in Flows : Asks(p2, x, g) <=> Asks(p, x, g)
SameAsks(p, w, n, o, o2) == AsksSame(ProcOf(p, n, o), ProcOf(p, n, o2))

LEMMA RecordsAsks ==
    ASSUME NEW p \in Procs, NEW n \in Nodes, NEW o \in Outcome, NEW o2 \in Outcome,
           SameRecords(o, o2)
    PROVE  AsksSame(ProcOf(p, n, o), ProcOf(p, n, o2))
<1> DEFINE P == ProcOf(p, n, o)
           P2 == ProcOf(p, n, o2)
<1>1. P[n] = o.st /\ \A x \in Nodes : x # n => P[x] = p[x]
  BY ProcType
<1>2. P2[n] = o2.st /\ \A x \in Nodes : x # n => P2[x] = p[x]
  BY ProcType
<1> HIDE DEF P, P2
<1>3. \A x \in Nodes : P2[x].status = P[x].status
  BY <1>1, <1>2 DEF SameRecords
<1>4. AsksSame(P, P2)
  BY <1>3 DEF AsksSame, Asks
<1> QED
  BY <1>4 DEF P, P2

LEMMA Good2Flow ==
    ASSUME NEW p, NEW w, NEW n, NEW o, GoodAt(p, w, n, o), RoutesAgree, NEW f \in Flows
    PROVE  FlowOK(ProcOf(p, n, o), WireOf(w, n, o), f)
  BY DEF GoodAt, Good

(* What may be sent for a flow: only messages of the flow itself matter.   *)
LEMMA AllowedReq ==
    ASSUME NEW p, NEW x, NEW y, NEW f \in Flows, NEW d \in Nodes,
           d \in {Caller[f], Callee[f]}, Asks(p, Caller[f], f),
           d = Callee[f] => OnWay(p, f, x, y)
    PROVE  \A g \in Flows : Allowed(p, g, x, y, Req(f, d))
<1>1. \A g, e : Req(f, d) = Req(g, e) => f = g /\ d = e
  BY ReqAns
<1>2. \A g, e : Req(f, d) # Ans(g, e)
  BY ReqAns
<1> QED
  BY <1>1, <1>2 DEF Allowed

LEMMA AllowedAns ==
    ASSUME NEW p, NEW x, NEW y, NEW f \in Flows, OnWayBack(p, f, x, y)
    PROVE  \A g \in Flows : Allowed(p, g, x, y, Ans(f, Caller[f]))
<1>1. \A g, e : Ans(f, Caller[f]) = Ans(g, e) => f = g /\ Caller[f] = e
  BY ReqAns
<1>2. \A g, e : Req(g, e) # Ans(f, Caller[f])
  BY ReqAns
<1> QED
  BY <1>1, <1>2 DEF Allowed

(* The i-th request is sent on. *)
LEMMA PartForwarded ==
    ASSUME NEW p \in Procs, NEW w \in Wires, NEW n \in Nodes, NEW o \in Outcome, GoodAt(p, w, n, o),
           NEW i \in 1 .. Len(o.st.forwards), NEW x, x = o.st.forwards[i],
           NEW o2, o2 = ReceiveNM1FlowCreated(o, n, i)
    PROVE  /\ Leads(p, w, n, o, o2) /\ SameAsks(p, w, n, o, o2)
           /\ MarkRecords(o, o2, i) /\ NoMoreIdle(o, o2)
<1> DEFINE P == ProcOf(p, n, o)
           W == WireOf(w, n, o)
           m == NextHop[n][x.to]
           msg == Req(x.flow, x.to)
           a == WithMark(o, i)
           b == SendPDU(o, m, msg)
<1>1. x \in Entry3
  <2>1. o.st.forwards \in Seq(Entry3)
    BY OutcomeFields DEF Entry3
  <2> QED
    BY <2>1
<1>2. x.flow \in Flows /\ x.to \in Nodes /\ m \in Nodes
  BY <1>1, Constants DEF Entry3
<1>3. msg \in Message /\ IsRequest(msg)
  BY <1>2, ReqAns
<1>4. o2 = SendPDU(a, m, msg)
  BY DEF ReceiveNM1FlowCreated, WithMark, Req
<1>5. a \in Outcome /\ Alike(o, a) /\ MarkRecords(o, a, i)
  BY MarkOutcome DEF MarkRecords
<1>6. RoutesAgree => EntryOK(P, x.flow, n, x.to)
  <2> SUFFICES ASSUME RoutesAgree PROVE EntryOK(P, x.flow, n, x.to)
    OBVIOUS
  <2>1. FlowOK(P, W, x.flow)
    BY <1>2, Good2Flow
  <2>2. P[n] = o.st
    BY ProcType
  <2>3. Entry(P, n, x.flow, x.to)
    BY <2>2 DEF Entry
  <2> QED
    BY <1>2, <2>1, <2>3 DEF FlowOK
<1> HIDE DEF P, W, m, msg, a, b
<1>7. RoutesAgree => \A f \in Flows : Allowed(P, f, n, m, msg)
  BY <1>2, <1>6, AllowedReq DEF EntryOK, m, msg
<1>8. /\ Leads(p, w, n, o, b) /\ Unchanges(o, b)
      /\ \A q : Has(P, n, m, q) => Under(ProcOf(p, n, b), WireOf(w, n, b), n, m, msg)
  <2>1. RoutesAgree => \A f \in Flows : Allowed(ProcOf(p, n, o), f, n, m, msg)
    BY <1>7 DEF P
  <2>2. b = SendPDU(o, m, msg)
    BY DEF b
  <2>3. Leads(p, w, n, o, b) /\ Unchanges(o, b)
    BY <1>2, <1>3, <2>1, <2>2, PartSend
  <2>4. \A q : Has(ProcOf(p, n, o), n, m, q) => Under(ProcOf(p, n, b), WireOf(w, n, b), n, m, msg)
    BY <1>2, <1>3, <2>1, <2>2, PartSend
  <2> QED
    BY <2>3, <2>4 DEF P
<1>9. Alike(b, o2) /\ SameRecords(o, b) /\ SameRecords(a, o2)
  BY <1>2, <1>3, <1>4, <1>5, SendPDUAlike DEF b
<1>10. o2 \in Outcome
  BY <1>2, <1>3, <1>4, <1>5, SendPDUDoes
<1>11. MarkRecords(b, o2, i)
  BY <1>5, <1>9, RecordsThen
<1>12. b \in Outcome /\ GoodAt(p, w, n, b)
  BY <1>8 DEF Leads
<1>13. b.st.forwards = o.st.forwards
  BY <1>9 DEF SameRecords
<1>14. RoutesAgree => Under(ProcOf(p, n, b), WireOf(w, n, b), n, m, msg)
  BY <1>6, <1>8 DEF EntryOK, m
<1>15. Leads(p, w, n, b, o2) /\ AsksSame(ProcOf(p, n, b), ProcOf(p, n, o2))
  <2>1. i \in 1 .. Len(b.st.forwards) /\ x = b.st.forwards[i]
    BY <1>13
  <2>2. RoutesAgree => Under(ProcOf(p, n, b), WireOf(w, n, b), n, NextHop[n][x.to], Req(x.flow, x.to))
    BY <1>14 DEF m, msg
  <2>3. Leads(p, w, n, b, o2)
    BY <1>9, <1>10, <1>11, <1>12, <2>1, <2>2, PartMark
  <2>4. \A y \in Nodes, g \in Flows :
                 Asks(ProcOf(p, n, o2), y, g) <=> Asks(ProcOf(p, n, b), y, g)
    BY <1>9, <1>10, <1>11, <1>12, <2>1, <2>2, PartMark
  <2> QED
    BY <2>3, <2>4 DEF AsksSame
<1>16. Leads(p, w, n, o, o2)
  BY <1>8, <1>15, LeadsOn
<1>17. SameAsks(p, w, n, o, o2)
  BY <1>9, <1>12, <1>15, RecordsAsks DEF AsksSame, SameAsks
<1>18. MarkRecords(o, o2, i)
  BY <1>9, <1>11 DEF MarkRecords, SameRecords
<1>19. NoMoreIdle(o, o2)
  BY <1>8, <1>9 DEF Unchanges, NoMoreIdle, Alike
<1> QED
  BY <1>16, <1>17, <1>18, <1>19

(* msg is the next that y reads from x. *)
Heads(w, x, y, msg) == w[x][y] # <<>> /\ Head(w[x][y]) = msg

LEMMA HeadIsSent ==
    ASSUME NEW w \in Wires, NEW x \in Nodes, NEW y \in Nodes, NEW msg, Heads(w, x, y, msg)
    PROVE  /\ Sent(w, x, y, msg) /\ msg \in Message
           /\ \A p : Under(p, w, x, y, msg)
           /\ \A S : ~Covered(w, x, y, S, msg)
<1> DEFINE s == w[x][y]
<1>1. s \in Seq(Message) /\ s # <<>> /\ Head(s) = msg
  BY DEF Wires, Heads
<1>2. msg \in Message
  BY <1>1
<1> HIDE DEF s
<1>3. SentS(s, msg) /\ \A S : ~CoveredS(s, S, msg)
  BY <1>1, TailSent
<1> QED
  BY <1>2, <1>3 DEF s, Sent, Covered, Under

LEMMA HeadRequest ==
    ASSUME NEW p, NEW w \in Wires, NEW f \in Flows, RoutesAgree, FlowOK(p, w, f),
           NEW x \in Nodes, NEW y \in Nodes, NEW d \in Nodes, Heads(w, x, y, Req(f, d))
    PROVE  /\ d \in {Caller[f], Callee[f]} /\ Asks(p, Caller[f], f)
           /\ d = Callee[f] => \E k \in 1 .. Length(f) :
                                  x = Way[f][k - 1] /\ y = Way[f][k] /\ Past(p, f, k)
<1>1. Req(f, d) \in Message /\ \A S : ~Covered(w, x, y, S, Req(f, d)) /\ Under(p, w, x, y, Req(f, d))
  BY HeadIsSent
<1>2. Allowed(p, f, x, y, Req(f, d))
  BY <1>1 DEF FlowOK
<1>3. d \in {Caller[f], Callee[f]} /\ Asks(p, Caller[f], f) /\ (d = Callee[f] => OnWay(p, f, x, y))
  BY <1>2 DEF Allowed
<1>4. ASSUME d = Callee[f]
      PROVE  \E k \in 1 .. Length(f) : x = Way[f][k - 1] /\ y = Way[f][k] /\ Past(p, f, k)
  <2>1. PICK k \in 1 .. Length(f) : x = Way[f][k - 1] /\ y = Way[f][k] /\ Past(p, f, k - 1)
    BY <1>3, <1>4 DEF OnWay
  <2>2. Ready(p, y, x, QoS[f]) \/ IsRefused(x, y, QoS[f])
    BY <1>1, <1>4 DEF FlowOK, RequestIsPreceded
  <2>3. RefusedHop(f, k) \/ Back(p, f, k)
    BY <2>1, <2>2 DEF RefusedHop, Back
  <2>4. Past(p, f, k)
    <3> SUFFICES ASSUME NEW j \in 1 .. k PROVE RefusedHop(f, j) \/ Back(p, f, j)
      BY DEF Past
    <3>1. j = k \/ j \in 1 .. (k - 1)
      BY WayEnds, WayType
    <3> QED
      BY <2>1, <2>3, <3>1 DEF Past
  <2> QED
    BY <2>1, <2>4
<1> QED
  BY <1>3, <1>4

LEMMA HeadAnswer ==
    ASSUME NEW p, NEW w \in Wires, NEW f \in Flows, RoutesAgree, FlowOK(p, w, f),
           NEW x \in Nodes, NEW y \in Nodes, NEW d \in Nodes, Heads(w, x, y, Ans(f, d))
    PROVE  /\ d = Caller[f] /\ Answered(p, f) /\ Asks(p, Callee[f], f)
           /\ \E k \in 1 .. Length(f) : x = Way[f][k] /\ y = Way[f][k - 1] /\ Done(p, f, k)
<1>1. Ans(f, d) \in Message /\ \A S : ~Covered(w, x, y, S, Ans(f, d)) /\ Under(p, w, x, y, Ans(f, d))
  BY HeadIsSent
<1>2. Allowed(p, f, x, y, Ans(f, d))
  BY <1>1 DEF FlowOK
<1>3. d = Caller[f] /\ OnWayBack(p, f, x, y)
  BY <1>2 DEF Allowed
<1>4. PICK k \in 1 .. Length(f) : x = Way[f][k] /\ y = Way[f][k - 1] /\ Done(p, f, k + 1)
  BY <1>3 DEF OnWayBack
<1>5. Answered(p, f) /\ Asks(p, Callee[f], f)
  BY <1>3 DEF OnWayBack
<1>6. Exempt(f, k) \/ Forth(p, f, k)
  BY <1>1, <1>3, <1>4 DEF FlowOK, AnswerIsPreceded
<1>7. Exempt(f, k) \/ (Back(p, f, k) /\ Forth(p, f, k))
  BY <1>5, <1>6 DEF Answered
<1>8. Done(p, f, k)
  <2> SUFFICES ASSUME NEW j \in k .. Length(f)
               PROVE  Exempt(f, j) \/ (Back(p, f, j) /\ Forth(p, f, j))
    BY DEF Done
  <2>1. j = k \/ j \in (k + 1) .. Length(f)
    BY WayEnds, WayType
  <2> QED
    BY <1>4, <1>7, <2>1 DEF Done
<1> QED
  BY <1>3, <1>4, <1>5, <1>8

(* The neighbours on the way to the callee, as the routes give them. *)
LEMMA WayHop ==
    ASSUME NEW f \in Flows, RoutesAgree, NEW k \in 1 .. Length(f)
    PROVE  /\ Way[f][k] \in Nodes /\ Way[f][k - 1] \in Nodes
           /\ NextHop[Way[f][k - 1]][Callee[f]] = Way[f][k] /\ Way[f][k - 1] # Callee[f]
           /\ NextHop[Way[f][k]][Caller[f]] = Way[f][k - 1] /\ Way[f][k] # Caller[f]
           /\ Way[f][k] = Callee[f] <=> k = Length(f)
           /\ Way[f][k - 1] = Caller[f] <=> k = 1
           /\ k # Length(f) => k + 1 \in 1 .. Length(f) /\ (k + 1) - 1 = k
           /\ k # 1 => k - 1 \in 1 .. Length(f)
<1> DEFINE L == Length(f)
<1>1. /\ L \in Nat /\ L >= 1 /\ \A j \in 0 .. L : Way[f][j] \in Nodes
      /\ Way[f][L] = Callee[f] /\ Way[f][0] = Caller[f]
      /\ \A j \in 0 .. (L - 1) : Way[f][j] # Callee[f] /\ Way[f][j + 1] = NextHop[Way[f][j]][Callee[f]]
      /\ \A j \in 1 .. L : Way[f][j] # Caller[f] /\ NextHop[Way[f][j]][Caller[f]] = Way[f][j - 1]
  BY WayEnds, WayType
<1> HIDE DEF L
<1>2. k \in 1 .. L
  BY DEF L
<1>3. k - 1 \in 0 .. (L - 1) /\ (k - 1) + 1 = k /\ k - 1 \in 0 .. L /\ k \in 0 .. L
  BY <1>1, <1>2
<1>4. Way[f][(k - 1) + 1] = NextHop[Way[f][k - 1]][Callee[f]]
  BY <1>1, <1>3
<1>5. k # L => k \in 0 .. (L - 1) /\ k + 1 \in 1 .. L /\ (k + 1) - 1 = k
  BY <1>1, <1>2
<1>6. k # 1 => k - 1 \in 1 .. L
  BY <1>1, <1>2
<1>7. k = 1 => k - 1 = 0
  OBVIOUS
<1> QED
  BY <1>1, <1>2, <1>3, <1>4, <1>5, <1>6, <1>7 DEF L

(* No process on the way is its own neighbour. *)
LEMMA WayMoves ==
    ASSUME NEW f \in Flows, RoutesAgree, NEW k \in 1 .. Length(f)
    PROVE  Way[f][k - 1] # Way[f][k]
<1>0. NextHop[Way[f][k - 1]][Callee[f]] = Way[f][k] /\ Way[f][k - 1] # Callee[f]
  BY WayHop
<1> SUFFICES ASSUME Way[f][k - 1] = Way[f][k] PROVE FALSE
  OBVIOUS
<1> DEFINE L == Length(f)
           N == L - k
           S == {j \in 0 .. N : Way[f][k + j] = Way[f][k]}
<1>1. L \in Nat /\ k \in 1 .. L /\ N \in Nat
  BY WayEnds, WayType
<1>2. 0 \in S
  BY <1>1
<1>3. ASSUME NEW j \in 0 .. (N - 1), j \in S PROVE j + 1 \in S
  <2>1. k + j \in 1 .. L /\ k + j # L /\ (k + j) + 1 = k + (j + 1) /\ j + 1 \in 0 .. N
    BY <1>1
  <2>2. (k + j) + 1 \in 1 .. L /\ ((k + j) + 1) - 1 = k + j
    BY <1>1, <2>1
  <2>3. NextHop[Way[f][k + j]][Callee[f]] = Way[f][(k + j) + 1]
    BY <2>2, WayHop
  <2> QED
    BY <1>0, <1>3, <2>1, <2>3
<1>4. 0 .. N \subseteq S
  <2> HIDE DEF N, S
  <2> QED
    BY <1>1, <1>2, <1>3, UpTo
<1>5. Way[f][k + N] = Way[f][k] /\ k + N = L
  BY <1>1, <1>4
<1>6. Way[f][L] = Callee[f]
  BY WayEnds
<1> QED
  BY <1>0, <1>5, <1>6

-----------------------------------------------------------------------------
(* FA::receiveCreateFlowRequestFromRibd on the way. *)

LEMMA ForwardAllowed ==
    ASSUME NEW p, NEW w \in Wires, NEW f \in Flows, RoutesAgree, FlowOK(p, w, f),
           NEW x \in Nodes, NEW n \in Nodes, NEW d \in Nodes, Heads(w, x, n, Req(f, d)), d # n,
           NEW p2, NEW w2, Grows(p, w, p2, w2), Has(p2, n, NextHop[n][d], QoS[f])
    PROVE  EntryOK(p2, f, n, d)
<1>1. /\ d \in {Caller[f], Callee[f]} /\ Asks(p, Caller[f], f)
      /\ d = Callee[f] => \E k \in 1 .. Length(f) :
                             x = Way[f][k - 1] /\ n = Way[f][k] /\ Past(p, f, k)
  BY HeadRequest
<1>2. Asks(p2, Caller[f], f)
  BY <1>1, Constants DEF Grows
<1>3. ASSUME d = Callee[f] PROVE OnWay(p2, f, n, NextHop[n][d])
  <2>1. PICK k \in 1 .. Length(f) : n = Way[f][k] /\ Past(p, f, k)
    BY <1>1, <1>3
  <2>2. k # Length(f)
    BY <1>3, <2>1, WayHop
  <2>3. k + 1 \in 1 .. Length(f) /\ (k + 1) - 1 = k
    BY <2>2, WayHop
  <2>4. NextHop[Way[f][(k + 1) - 1]][Callee[f]] = Way[f][k + 1]
    BY <2>3, WayHop
  <2>5. Past(p2, f, k)
    <3>1. k \in 0 .. Length(f)
      BY WayEnds, WayType
    <3> QED
      BY <2>1, <3>1, GrowsKeeps
  <2> QED
    BY <1>3, <2>1, <2>3, <2>4, <2>5 DEF OnWay
<1> QED
  BY <1>1, <1>2, <1>3 DEF EntryOK

Pending(f, d) == [flow |-> f, to |-> d, status |-> "FORWARDING"]
WithEntry(o, x) == WithForwards(o, Append(o.st.forwards, x))

LEMMA EntryOutcome ==
    ASSUME NEW o \in Outcome, NEW x \in Entry3, NEW a, a = WithEntry(o, x)
    PROVE  /\ a \in Outcome /\ Alike(o, a) /\ ForwardRecords(o, a, x)
           /\ Len(a.st.forwards) \in 1 .. Len(a.st.forwards)
           /\ a.st.forwards[Len(a.st.forwards)] = x
<1> DEFINE fw == o.st.forwards
           g == Append(fw, x)
<1>1. fw \in Seq(Entry3)
  BY OutcomeFields DEF Entry3
<1>2. a = WithForwards(o, g)
  BY DEF WithEntry
<1> HIDE DEF fw
<1>3. /\ g \in Seq(Entry3) /\ Len(g) = Len(fw) + 1 /\ Len(fw) \in Nat
      /\ \A i \in 1 .. Len(fw) + 1 : g[i] = IF i = Len(fw) + 1 THEN x ELSE fw[i]
  BY <1>1, AppendType
<1> HIDE DEF g
<1>4. /\ a \in Outcome /\ Alike(o, a) /\ a.st.forwards = g
      /\ a.st.status = o.st.status /\ a.st.entered = o.st.entered
  BY <1>2, <1>3, ForwardsOutcome
<1> QED
  BY <1>3, <1>4 DEF ForwardRecords, fw

(* The entry is made and marked at once. *)
LEMMA MarkedEntryOutcome ==
    ASSUME NEW o \in Outcome, NEW x \in Entry3, NEW a, a = WithEntry(o, x),
           NEW b, b = WithMark(a, Len(a.st.forwards))
    PROVE  /\ b \in Outcome /\ Alike(o, b)
           /\ \E y : /\ ForwardRecords(o, b, y)
                     /\ y.flow = x.flow /\ y.to = x.to /\ y.status = "FORWARDED"
<1> DEFINE l == Len(a.st.forwards)
           y == b.st.forwards[l]
<1>1. /\ a \in Outcome /\ Alike(o, a) /\ ForwardRecords(o, a, x)
      /\ l \in 1 .. Len(a.st.forwards) /\ a.st.forwards[l] = x
  BY EntryOutcome
<1>2. b = WithMark(a, l)
  OBVIOUS
<1>3. a.st.forwards \in Seq(Entry3)
  BY <1>1, OutcomeFields DEF Entry3
<1> HIDE DEF l
<1>4. /\ b \in Outcome /\ Alike(a, b) /\ b.st.forwards = Marked(a.st.forwards, l)
      /\ b.st.status = a.st.status /\ b.st.entered = a.st.entered
      /\ Len(b.st.forwards) = Len(a.st.forwards)
      /\ \A j \in 1 .. Len(a.st.forwards) :
                 /\ b.st.forwards[j].flow = a.st.forwards[j].flow
                 /\ b.st.forwards[j].to = a.st.forwards[j].to
                 /\ b.st.forwards[j].status =
                        IF j = l THEN "FORWARDED" ELSE a.st.forwards[j].status
  BY <1>1, <1>2, MarkOutcome
<1>5. \A j \in 1 .. Len(a.st.forwards) : j # l => b.st.forwards[j] = a.st.forwards[j]
  BY <1>3, <1>4 DEF Marked
<1>6. y.flow = x.flow /\ y.to = x.to /\ y.status = "FORWARDED"
  BY <1>1, <1>4
<1>7. l = Len(o.st.forwards) + 1
  BY <1>1 DEF ForwardRecords, l
<1>8. ForwardRecords(o, b, y)
  BY <1>1, <1>4, <1>5, <1>7 DEF ForwardRecords
<1>9. Alike(o, b)
  BY <1>1, <1>4 DEF Alike
<1> QED
  BY <1>4, <1>6, <1>8, <1>9

LEMMA HandleForward ==
    ASSUME NEW p \in Procs, NEW w \in Wires, NEW n \in Nodes, NEW o \in Outcome, GoodAt(p, w, n, o),
           NEW x \in Nodes, NEW f \in Flows, NEW d \in Nodes, d # n,
           Heads(WireOf(w, n, o), x, n, Req(f, d)),
           NEW o2, o2 = ForwardFlow(o, n, Req(f, d))
    PROVE  /\ Leads(p, w, n, o, o2) /\ SameAsks(p, w, n, o, o2)
           /\ RoutesAgree =>
                 \/ Waits(ProcOf(p, n, o2), n, f, d)
                 \/ Under(ProcOf(p, n, o2), WireOf(w, n, o2), n, NextHop[n][d], Req(f, d))
<1> DEFINE P == ProcOf(p, n, o)
           W == WireOf(w, n, o)
           m == NextHop[n][d]
           q == QoS[f]
           msg == Req(f, d)
           e == Pending(f, d)
           a == WithEntry(o, e)
           b == BindNFlowToNM1Flow(o, m, q)
           bound == BindNFlowToNM1Flow(a, m, q)
<1>1. m \in Nodes /\ q \in Cubes /\ msg \in Message /\ IsRequest(msg)
  BY Constants, QoSIsCube, ReqAns
<1>2. e \in Entry3 /\ e.flow = f /\ e.to = d /\ e.status = "FORWARDING"
  BY DEF Pending, Entry3
<1>3. o2 = IF IsBound(o, m, q) THEN ReceiveNM1FlowCreated(bound, n, Len(bound.st.forwards)) ELSE bound
  <2>1. msg.flow = f /\ msg.to = d
    BY DEF Req
  <2>a. o2 = ForwardFlow(o, n, msg)
    OBVIOUS
  <2> HIDE DEF msg
  <2>2. o2 = LET A == WithEntry(o, Pending(msg.flow, msg.to))
                 B == BindNFlowToNM1Flow(A, NextHop[n][msg.to], QoS[msg.flow])
             IN  IF IsBound(o, NextHop[n][msg.to], QoS[msg.flow])
                   THEN ReceiveNM1FlowCreated(B, n, Len(B.st.forwards)) ELSE B
    BY <2>a DEF ForwardFlow, Pending, WithEntry, WithForwards
  <2> QED
    BY <2>1, <2>2
<1> HIDE DEF e
<1>4. /\ a \in Outcome /\ Alike(o, a) /\ ForwardRecords(o, a, e)
      /\ Len(a.st.forwards) \in 1 .. Len(a.st.forwards)
      /\ a.st.forwards[Len(a.st.forwards)] = e
  BY <1>2, EntryOutcome
<1>5. /\ Leads(p, w, n, o, b) /\ SameRecords(o, b)
      /\ Has(ProcOf(p, n, b), n, m, q)
      /\ ~IsBound(o, m, q) => Idle(ProcOf(p, n, b), n, m, q)
      /\ IsBound(o, m, q) => Ready(P, n, m, q) /\ b = o
  <2>1. b = BindNFlowToNM1Flow(o, m, q)
    OBVIOUS
  <2> HIDE DEF b, m, q
  <2> QED
    BY <1>1, <2>1, PartBind
<1>6. /\ Alike(b, bound) /\ (IsBound(o, m, q) <=> IsBound(a, m, q))
      /\ bound \in Outcome /\ SameRecords(a, bound)
  <2>1. Alike(a, a)
    BY DEF Alike
  <2> HIDE DEF a, m, q
  <2>2. Alike(b, bound) /\ (IsBound(o, m, q) <=> IsBound(a, m, q))
    BY <1>1, <1>4, BindAlike
  <2>3. bound \in Outcome /\ SameRecords(a, bound)
    BY <1>1, <1>4, <2>1, BindAlike
  <2> QED
    BY <2>2, <2>3
<1>7. IsBound(a, m, q) => bound = a
  BY DEF IsBound, BindNFlowToNM1Flow
<1>8. W \in Wires /\ (RoutesAgree => FlowOK(P, W, f))
  BY WireType, Good2Flow
<1>9. ASSUME RoutesAgree, NEW p2, NEW w2, Grows(P, W, p2, w2), Has(p2, n, m, q)
      PROVE  EntryOK(p2, f, n, d)
  <2> HIDE DEF P, W
  <2> QED
    BY <1>8, <1>9, ForwardAllowed DEF W
<1>10. ProcOf(p, n, b) = ProcOf(p, n, b) /\ Grows(P, W, ProcOf(p, n, b), WireOf(w, n, b))
       /\ b \in Outcome /\ GoodAt(p, w, n, b)
  BY <1>5 DEF Leads
<1>11. AsksSame(P, ProcOf(p, n, b))
  BY <1>5, <1>10, RecordsAsks
<1>12. CASE ~IsBound(o, m, q)
  <2>1. o2 = bound
    BY <1>3, <1>6, <1>12
  <2> HIDE DEF a, b, bound
  <2>2. ForwardRecords(b, o2, e)
    BY <1>4, <1>5, <1>6, <2>1, RecordsThen
  <2>3. Awaited(WireOf(w, n, b), n, NextHop[n][e.to], QoS[e.flow])
    <3>1. Base(ProcOf(p, n, b), WireOf(w, n, b))
      BY <1>10, GoodTables
    <3> QED
      BY <1>1, <1>2, <1>5, <1>12, <3>1 DEF Base, IdleIsAwaited
  <2>4. RoutesAgree => EntryOK(ProcOf(p, n, b), e.flow, n, e.to)
    BY <1>2, <1>5, <1>9, <1>10
  <2>5. Alike(b, o2) /\ o2 \in Outcome
    BY <1>6, <2>1
  <2>6. Leads(p, w, n, b, o2)
    BY <1>2, <1>10, <2>2, <2>3, <2>4, <2>5, PartForward
  <2>7. \A y \in Nodes, g \in Flows :
           Asks(ProcOf(p, n, o2), y, g) <=> Asks(ProcOf(p, n, b), y, g)
    BY <1>2, <1>10, <2>2, <2>3, <2>4, <2>5, PartForward
  <2>8. Waits(ProcOf(p, n, o2), n, e.flow, e.to)
    BY <1>2, <1>10, <2>2, <2>3, <2>4, <2>5, PartForward
  <2>9. Leads(p, w, n, o, o2)
    BY <1>5, <2>6, LeadsOn
  <2>10. SameAsks(p, w, n, o, o2)
    BY <1>11, <2>7 DEF AsksSame, SameAsks
  <2> QED
    BY <1>2, <2>8, <2>9, <2>10
<1>13. CASE IsBound(o, m, q)
  <2> DEFINE l == Len(a.st.forwards)
             am == WithMark(a, l)
             c == SendPDU(o, m, msg)
  <2>1. o2 = SendPDU(am, m, msg)
    <3>1. o2 = ReceiveNM1FlowCreated(a, n, l)
      BY <1>3, <1>6, <1>7, <1>13
    <3> HIDE DEF a, l
    <3>2. a.st.forwards[l] = e
      BY <1>4 DEF l
    <3> QED
      BY <1>2, <3>1, <3>2 DEF ReceiveNM1FlowCreated, WithMark, Req
  <2>2. am \in Outcome /\ Alike(o, am)
        /\ \E y : ForwardRecords(o, am, y) /\ y.flow = e.flow /\ y.to = e.to /\ y.status = "FORWARDED"
    BY <1>2, MarkedEntryOutcome
  <2> HIDE DEF a, am, c, l
  <2>3. PICK y : ForwardRecords(o, am, y) /\ y.flow = e.flow /\ y.to = e.to /\ y.status = "FORWARDED"
    BY <2>2
  <2>4. Ready(P, n, m, q) /\ Has(P, n, m, q)
    BY <1>5, <1>13 DEF Ready, Has, ReadyT, HasT
  <2>5. RoutesAgree => EntryOK(P, f, n, d)
    BY <1>9, <2>4, GrowsReflexive
  <2>6. RoutesAgree => \A g \in Flows : Allowed(ProcOf(p, n, o), g, n, m, msg)
    <3> SUFFICES ASSUME RoutesAgree PROVE \A g \in Flows : Allowed(P, g, n, m, msg)
      OBVIOUS
    <3>1. d \in {Caller[f], Callee[f]} /\ Asks(P, Caller[f], f) /\ (d = Callee[f] => OnWay(P, f, n, m))
      BY <2>5 DEF EntryOK
    <3> HIDE DEF P, m
    <3> QED
      BY <3>1, AllowedReq
  <2>7. c = SendPDU(o, m, msg)
    BY DEF c
  <2> HIDE DEF msg, m, q
  <2>8. Leads(p, w, n, o, c) /\ Unchanges(o, c)
    BY <1>1, <2>6, <2>7, PartSend
  <2>9. \A r : Has(ProcOf(p, n, o), n, m, r) => Under(ProcOf(p, n, c), WireOf(w, n, c), n, m, msg)
    BY <1>1, <2>6, <2>7, PartSend
  <2>10. Alike(c, o2) /\ SameRecords(o, c) /\ SameRecords(am, o2)
    BY <1>1, <2>1, <2>2, <2>7, SendPDUAlike
  <2>11. o2 \in Outcome
    BY <1>1, <2>1, <2>2, SendPDUDoes
  <2>12. ForwardRecords(c, o2, y)
    BY <2>3, <2>10, RecordsThen
  <2>13. /\ c \in Outcome /\ GoodAt(p, w, n, c)
         /\ Grows(P, W, ProcOf(p, n, c), WireOf(w, n, c))
    BY <2>8 DEF Leads
  <2>14. y.flow = f /\ y.to = d /\ y.status # "FORWARDING"
    BY <1>2, <2>3
  <2>15. RoutesAgree => EntryOK(ProcOf(p, n, c), y.flow, n, y.to)
    <3>1. RoutesAgree => EntryOK(ProcOf(p, n, c), f, n, d)
      <4> HIDE DEF P, W
      <4> QED
        BY <2>5, <2>13, GrowsKeeps
    <3> QED
      BY <2>14, <3>1
  <2>16. Leads(p, w, n, c, o2)
    BY <2>10, <2>11, <2>12, <2>13, <2>14, <2>15, PartForward
  <2>17. \A z \in Nodes, g \in Flows :
           Asks(ProcOf(p, n, o2), z, g) <=> Asks(ProcOf(p, n, c), z, g)
    BY <2>10, <2>11, <2>12, <2>13, <2>14, <2>15, PartForward
  <2>18. Leads(p, w, n, o, o2)
    BY <2>8, <2>16, LeadsOn
  <2>19. AsksSame(P, ProcOf(p, n, c))
    BY <2>10, <2>13, RecordsAsks
  <2>20. SameAsks(p, w, n, o, o2)
    BY <2>17, <2>19 DEF AsksSame, SameAsks
  <2>21. Under(ProcOf(p, n, o2), WireOf(w, n, o2), n, m, msg)
    <3>1. Under(ProcOf(p, n, c), WireOf(w, n, c), n, m, msg)
      BY <2>4, <2>9
    <3> QED
      BY <1>1, <2>16, <3>1 DEF Leads, Grows
  <2> QED
    BY <2>18, <2>20, <2>21 DEF m, msg
<1> QED
  BY <1>12, <1>13

-----------------------------------------------------------------------------
(* The ends: FAI::receiveAllocateRequest, receiveAllocateResponsePositive. *)

LEMMA PartBindEnter ==
    ASSUME NEW p \in Procs, NEW w \in Wires, NEW n \in Nodes, NEW o \in Outcome, GoodAt(p, w, n, o),
           NEW f \in Flows, ~Asks(ProcOf(p, n, o), n, f),
           NEW v \in {"ALLOC_PEND", "TRANSFER"}, NEW m \in Nodes, NEW q, q = QoS[f],
           RoutesAgree =>
              /\ n \in {Caller[f], Callee[f]} /\ (v = "TRANSFER" => n # Caller[f])
              /\ (n = Caller[f] /\ m = Way[f][1]) \/ AskOK(ProcOf(p, n, o), f, Caller[f]),
           NEW o2, o2 = BindNFlowToNM1Flow(WithFlow(o, f, v), m, q)
    PROVE  /\ Leads(p, w, n, o, o2)
           /\ Has(ProcOf(p, n, o2), n, m, q)
           /\ ~IsBound(o, m, q) => Idle(ProcOf(p, n, o2), n, m, q)
           /\ IsBound(o, m, q) <=> Ready(ProcOf(p, n, o), n, m, q)
           /\ \A x \in Nodes, g \in Flows :
                 Asks(ProcOf(p, n, o2), x, g) <=> Asks(ProcOf(p, n, o), x, g) \/ (x = n /\ g = f)
           /\ Up(ProcOf(p, n, o2), n, f) <=> v = "TRANSFER"
<1> DEFINE P == ProcOf(p, n, o)
           W == WireOf(w, n, o)
           a == WithFlow(o, f, v)
           b == BindNFlowToNM1Flow(o, m, q)
           PB == ProcOf(p, n, b)
           P2 == ProcOf(p, n, o2)
<1>1. q \in Cubes /\ v # "none"
  BY QoSIsCube
<1>2. /\ a \in Outcome /\ Alike(o, a) /\ FlowRecords(o, a, f, v)
      /\ o2 = BindNFlowToNM1Flow(a, m, q)
  <2>1. v \in {"none", "ALLOC_PEND", "TRANSFER"} /\ a = WithFlow(o, f, v)
    OBVIOUS
  <2> HIDE DEF a
  <2>2. a \in Outcome /\ Alike(o, a)
    BY <2>1, FlowOutcome
  <2>3. FlowRecords(o, a, f, v)
    BY <2>1, FlowOutcome
  <2> QED
    BY <2>1, <2>2, <2>3
<1>3. b = BindNFlowToNM1Flow(o, m, q)
  OBVIOUS
<1> HIDE DEF a, b
<1>4. /\ Leads(p, w, n, o, b) /\ SameRecords(o, b)
      /\ Has(PB, n, m, q)
      /\ ~IsBound(o, m, q) => Idle(PB, n, m, q)
  BY <1>1, <1>3, PartBind
<1>5. Alike(b, o2)
  BY <1>1, <1>2, <1>3, BindAlike
<1>6. o2 \in Outcome /\ SameRecords(a, o2)
  <2>1. Alike(a, a)
    BY DEF Alike
  <2> QED
    BY <1>1, <1>2, <2>1, BindAlike
<1>7. FlowRecords(b, o2, f, v)
  BY <1>2, <1>4, <1>6, RecordsThen
<1>8. /\ b \in Outcome /\ GoodAt(p, w, n, b)
      /\ Grows(P, W, PB, WireOf(w, n, b))
  BY <1>4 DEF Leads
<1>9. AsksSame(P, PB)
  BY <1>4, <1>8, RecordsAsks
<1>10. ~Asks(PB, n, f)
  BY <1>9 DEF AsksSame
<1>11. EntersWell(PB, n, f, v)
  <2> SUFFICES ASSUME RoutesAgree
               PROVE  /\ n \in {Caller[f], Callee[f]} /\ (v = "TRANSFER" => n # Caller[f])
                      /\ n # Caller[f] => Asks(PB, Caller[f], f)
                      /\ Has(PB, Caller[f], Way[f][1], QoS[f])
    BY DEF EntersWell
  <2>1. CASE n = Caller[f] /\ m = Way[f][1]
    BY <1>4, <2>1
  <2>2. CASE AskOK(P, f, Caller[f])
    <3>1. Asks(P, Caller[f], f) /\ Has(P, Caller[f], Way[f][1], QoS[f])
      BY <2>2 DEF AskOK
    <3>2. Caller[f] \in Nodes /\ Way[f][1] \in Nodes
      BY WayEnds, WayType, Constants
    <3> HIDE DEF P, PB
    <3>3. Asks(PB, Caller[f], f) /\ Has(PB, Caller[f], Way[f][1], QoS[f])
      BY <1>8, <3>1, <3>2 DEF Grows
    <3> QED
      BY <3>3
  <2> QED
    BY <2>1, <2>2
<1>12. /\ Leads(p, w, n, b, o2) /\ SameTables(n, PB, P2)
       /\ \A x \in Nodes, g \in Flows : Asks(P2, x, g) <=> Asks(PB, x, g) \/ (x = n /\ g = f)
       /\ Up(P2, n, f) <=> v = "TRANSFER"
  <2>1. Leads(p, w, n, b, o2)
    BY <1>1, <1>5, <1>6, <1>7, <1>8, <1>10, <1>11, PartEnter
  <2>2. SameTables(n, PB, P2)
    BY <1>1, <1>5, <1>6, <1>7, <1>8, <1>10, <1>11, PartEnter
  <2>3. \A x \in Nodes, g \in Flows : Asks(P2, x, g) <=> Asks(PB, x, g) \/ (x = n /\ g = f)
    BY <1>1, <1>5, <1>6, <1>7, <1>8, <1>10, <1>11, PartEnter
  <2>4. Up(P2, n, f) <=> v = "TRANSFER"
    <3>1. P2[n] = o2.st
      BY <1>6, ProcType
    <3> QED
      BY <1>7, <3>1 DEF Up, FlowRecords
  <2> QED
    BY <2>1, <2>2, <2>3, <2>4
<1>13. Leads(p, w, n, o, o2)
  BY <1>4, <1>12, LeadsOn
<1>14. Has(P2, n, m, q) /\ (~IsBound(o, m, q) => Idle(P2, n, m, q))
  <2> HIDE DEF PB, P2
  <2> QED
    BY <1>4, <1>12, TablesSame
<1>15. IsBound(o, m, q) <=> Ready(P, n, m, q)
  <2>1. TableOK(o.st.table) /\ o.st.table = P[n].table
    BY GoodTables
  <2> QED
    BY <2>1, BoundIsReady DEF Ready
<1> QED
  BY <1>9, <1>12, <1>13, <1>14, <1>15 DEF AsksSame

KeepsLive(p, w, n, o, o2) ==
    \A g \in Flows : LiveOK(ProcOf(p, n, o), WireOf(w, n, o), g)
                        => LiveOK(ProcOf(p, n, o2), WireOf(w, n, o2), g)

LEMMA LeadsLive ==
    ASSUME NEW p, NEW w, NEW n, NEW o, NEW o2, Leads(p, w, n, o, o2), NEW f,
           \A x \in Nodes, g \in Flows :
              Asks(ProcOf(p, n, o2), x, g) => Asks(ProcOf(p, n, o), x, g) \/ g = f,
           NEW g \in Flows, g # f, LiveOK(ProcOf(p, n, o), WireOf(w, n, o), g)
    PROVE  LiveOK(ProcOf(p, n, o2), WireOf(w, n, o2), g)
<1> DEFINE P == ProcOf(p, n, o)
           W == WireOf(w, n, o)
           P2 == ProcOf(p, n, o2)
           W2 == WireOf(w, n, o2)
<1>1. Grows(P, W, P2, W2)
  BY DEF Leads
<1>2. Asks(P2, Caller[g], g) => Asks(P, Caller[g], g)
  BY Constants
<1>3. Asks(P2, Callee[g], g) => Asks(P, Callee[g], g)
  BY Constants
<1>4. LiveOK(P, W, g)
  OBVIOUS
<1> HIDE DEF P, W, P2, W2
<1>5. LiveOK(P2, W2, g)
  BY <1>1, <1>2, <1>3, <1>4, LiveGrows
<1> QED
  BY <1>5 DEF P2, W2

LEMMA SameAsksLive ==
    ASSUME NEW p, NEW w, NEW n, NEW o, NEW o2, Leads(p, w, n, o, o2), SameAsks(p, w, n, o, o2)
    PROVE  KeepsLive(p, w, n, o, o2)
<1> SUFFICES ASSUME NEW g \in Flows, LiveOK(ProcOf(p, n, o), WireOf(w, n, o), g)
             PROVE  LiveOK(ProcOf(p, n, o2), WireOf(w, n, o2), g)
  BY DEF KeepsLive
<1> DEFINE P == ProcOf(p, n, o)
           W == WireOf(w, n, o)
           P2 == ProcOf(p, n, o2)
           W2 == WireOf(w, n, o2)
<1>1. Grows(P, W, P2, W2) /\ LiveOK(P, W, g)
  BY DEF Leads
<1>2. \A x \in Nodes : Asks(P2, x, g) => Asks(P, x, g)
  BY DEF SameAsks, AsksSame
<1> HIDE DEF P, W, P2, W2
<1>3. LiveOK(P2, W2, g)
  BY <1>1, <1>2, Constants, LiveGrows
<1> QED
  BY <1>3 DEF P2, W2
LEMMA FirstHop ==
    ASSUME NEW f \in Flows, RoutesAgree
    PROVE  /\ 1 \in 1 .. Length(f) /\ 1 - 1 = 0 /\ Way[f][0] = Caller[f]
           /\ Way[f][1] \in Nodes /\ NextHop[Caller[f]][Callee[f]] = Way[f][1]
<1>1. 1 \in 1 .. Length(f) /\ 1 - 1 = 0 /\ Way[f][0] = Caller[f]
  BY WayEnds, WayType
<1>2. Way[f][1] \in Nodes /\ NextHop[Way[f][1 - 1]][Callee[f]] = Way[f][1]
  BY <1>1, WayHop
<1> QED
  BY <1>1, <1>2

(* RIBd::sendCreateRequestFlow, for a flow that ends here. *)
LEMMA PartSignalize ==
    ASSUME NEW p \in Procs, NEW w \in Wires, NEW n \in Nodes, NEW o \in Outcome, GoodAt(p, w, n, o),
           NEW f \in Flows, Asks(ProcOf(p, n, o), n, f),
           NEW o2, o2 = SignalizeCreateFlowRequest(o, n, f)
    PROVE  /\ Leads(p, w, n, o, o2) /\ Unchanges(o, o2)
           /\ RoutesAgree /\ n = Caller[f] =>
                 Under(ProcOf(p, n, o2), WireOf(w, n, o2), n, Way[f][1], Req(f, Callee[f]))
<1> DEFINE P == ProcOf(p, n, o)
           W == WireOf(w, n, o)
           d == OtherEnd(n, f)
           m == NextHop[n][d]
           msg == Req(f, d)
<1>1. /\ d \in {Caller[f], Callee[f]} /\ (d = Callee[f] <=> n = Caller[f])
      /\ d \in Nodes /\ m \in Nodes
  BY Constants DEF OtherEnd
<1>2. msg \in Message /\ IsRequest(msg)
  BY <1>1, ReqAns
<1>3. o2 = SendPDU(o, m, msg)
  BY DEF SignalizeCreateFlowRequest, Req
<1>4. ASSUME RoutesAgree
      PROVE  /\ Asks(P, Caller[f], f) /\ Has(P, Caller[f], Way[f][1], QoS[f])
             /\ n = Caller[f] => m = Way[f][1]
             /\ d = Callee[f] => OnWay(P, f, n, m)
  <2>1. FlowOK(P, W, f)
    BY <1>4, Good2Flow
  <2>2. AskOK(P, f, n)
    BY <2>1 DEF FlowOK
  <2>3. Asks(P, Caller[f], f) /\ Has(P, Caller[f], Way[f][1], QoS[f])
    BY <2>2 DEF AskOK
  <2>4. /\ 1 \in 1 .. Length(f) /\ Way[f][0] = Caller[f] /\ 1 - 1 = 0
        /\ NextHop[Caller[f]][Callee[f]] = Way[f][1]
    BY <1>4, FirstHop
  <2>6. n = Caller[f] => m = Way[f][1]
    BY <1>1, <2>4
  <2>7. Past(P, f, 1 - 1)
    BY <2>4 DEF Past
  <2>8. ASSUME d = Callee[f] PROVE OnWay(P, f, n, m)
    <3>1. n = Way[f][1 - 1] /\ m = Way[f][1] /\ Has(P, n, m, QoS[f])
      BY <1>1, <2>3, <2>4, <2>6, <2>8
    <3> QED
      BY <2>4, <2>7, <3>1 DEF OnWay
  <2> QED
    BY <2>3, <2>6, <2>8
<1> HIDE DEF P, W, d, m, msg
<1>5. RoutesAgree => \A g \in Flows : Allowed(ProcOf(p, n, o), g, n, m, msg)
  BY <1>1, <1>4, AllowedReq DEF P, msg
<1>6. Leads(p, w, n, o, o2) /\ Unchanges(o, o2)
  BY <1>1, <1>2, <1>3, <1>5, PartSend
<1>7. \A q : Has(ProcOf(p, n, o), n, m, q) => Under(ProcOf(p, n, o2), WireOf(w, n, o2), n, m, msg)
  BY <1>1, <1>2, <1>3, <1>5, PartSend
<1>8. ASSUME RoutesAgree, n = Caller[f]
      PROVE  Under(ProcOf(p, n, o2), WireOf(w, n, o2), n, Way[f][1], Req(f, Callee[f]))
  <2>1. m = Way[f][1] /\ msg = Req(f, Callee[f])
    BY <1>1, <1>4, <1>8 DEF msg
  <2>2. Has(ProcOf(p, n, o), n, m, QoS[f])
    BY <1>4, <1>8, <2>1 DEF P
  <2> QED
    BY <1>7, <2>1, <2>2
<1> QED
  BY <1>6, <1>8

LiveAt(p, w, n, o) == Live(ProcOf(p, n, o), WireOf(w, n, o))

LEMMA HandleAllocate ==
    ASSUME NEW p \in Procs, NEW w \in Wires, NEW n \in Nodes, NEW o \in Outcome, GoodAt(p, w, n, o),
           NEW f \in Flows, n = Caller[f], ~Asks(ProcOf(p, n, o), n, f), LiveAt(p, w, n, o),
           NEW o2, o2 = ReceiveAllocateRequest(o, n, f)
    PROVE  Leads(p, w, n, o, o2) /\ LiveAt(p, w, n, o2)
<1> DEFINE P == ProcOf(p, n, o)
           W == WireOf(w, n, o)
           m == NextHop[n][Callee[f]]
           q == QoS[f]
           v == "ALLOC_PEND"
           b == BindNFlowToNM1Flow(WithFlow(o, f, v), m, q)
           PB == ProcOf(p, n, b)
           WB == WireOf(w, n, b)
           P2 == ProcOf(p, n, o2)
           W2 == WireOf(w, n, o2)
<1>1. m \in Nodes /\ q \in Cubes /\ n # Callee[f]
  BY Constants, QoSIsCube
<1>2. RoutesAgree => m = Way[f][1] /\ 1 \in 1 .. Length(f) /\ 1 - 1 = 0 /\ Way[f][0] = n
  <2> SUFFICES ASSUME RoutesAgree
               PROVE  m = Way[f][1] /\ 1 \in 1 .. Length(f) /\ 1 - 1 = 0 /\ Way[f][0] = n
    OBVIOUS
  <2> QED
    BY FirstHop
<1>3. o2 = IF IsBound(o, m, q) THEN SignalizeCreateFlowRequest(b, n, f) ELSE b
  BY DEF ReceiveAllocateRequest, WithFlow
<1>4. /\ Leads(p, w, n, o, b)
      /\ ~IsBound(o, m, q) => Idle(PB, n, m, q)
      /\ \A x \in Nodes, g \in Flows : Asks(PB, x, g) <=> Asks(P, x, g) \/ (x = n /\ g = f)
  <2>1. v \in {"ALLOC_PEND", "TRANSFER"} /\ v # "TRANSFER"
    OBVIOUS
  <2>2. b = BindNFlowToNM1Flow(WithFlow(o, f, v), m, q) /\ q = QoS[f]
    OBVIOUS
  <2> HIDE DEF v, b, m, q
  <2>3. RoutesAgree =>
              /\ n \in {Caller[f], Callee[f]} /\ (v = "TRANSFER" => n # Caller[f])
              /\ (n = Caller[f] /\ m = Way[f][1]) \/ AskOK(ProcOf(p, n, o), f, Caller[f])
    BY <1>2, <2>1
  <2>4. Leads(p, w, n, o, b)
    BY <1>1, <2>1, <2>2, <2>3, PartBindEnter
  <2>5. ~IsBound(o, m, q) => Idle(ProcOf(p, n, b), n, m, q)
    BY <1>1, <2>1, <2>2, <2>3, PartBindEnter
  <2>6. \A x \in Nodes, g \in Flows :
           Asks(ProcOf(p, n, b), x, g) <=> Asks(ProcOf(p, n, o), x, g) \/ (x = n /\ g = f)
    BY <1>1, <2>1, <2>2, <2>3, PartBindEnter
  <2> QED
    BY <2>4, <2>5, <2>6
<1> HIDE DEF b, v
<1>5. b \in Outcome /\ GoodAt(p, w, n, b)
  BY <1>4 DEF Leads
<1>6. /\ Leads(p, w, n, o, o2)
      /\ \A x \in Nodes, g \in Flows : Asks(P2, x, g) => Asks(P, x, g) \/ (x = n /\ g = f)
      /\ RoutesAgree => Under(P2, W2, n, m, Req(f, Callee[f])) \/ Awaited(W2, n, m, q)
  <2>1. CASE ~IsBound(o, m, q)
    <3>1. o2 = b
      BY <1>3, <2>1
    <3>2. Base(PB, WB)
      BY <1>5, GoodTables
    <3>3. Idle(PB, n, m, q) /\ IdleIsAwaited(PB, WB)
      BY <1>4, <2>1, <3>2 DEF Base
    <3> HIDE DEF PB, WB, m, q
    <3>4. Awaited(WB, n, m, q)
      BY <1>1, <3>3 DEF IdleIsAwaited
    <3> QED
      BY <1>4, <3>1, <3>4 DEF PB, WB
  <2>2. CASE IsBound(o, m, q)
    <3>1. o2 = SignalizeCreateFlowRequest(b, n, f)
      BY <1>3, <2>2
    <3>2. Asks(PB, n, f)
      BY <1>4
    <3>3. Leads(p, w, n, b, o2) /\ Unchanges(b, o2)
      BY <1>5, <3>1, <3>2, PartSignalize
    <3>4. RoutesAgree => Under(P2, W2, n, Way[f][1], Req(f, Callee[f]))
      BY <1>5, <3>1, <3>2, PartSignalize
    <3>5. Leads(p, w, n, o, o2)
      BY <1>4, <3>3, LeadsOn
    <3>6. AsksSame(PB, P2)
      <4>1. o2 \in Outcome /\ SameRecords(b, o2)
        BY <3>3 DEF Leads, Unchanges
      <4> QED
        BY <1>5, <4>1, RecordsAsks
    <3> HIDE DEF P, PB, P2, W2, m
    <3> QED
      BY <1>2, <1>4, <3>4, <3>5, <3>6 DEF AsksSame
  <2> QED
    BY <2>1, <2>2
<1> HIDE DEF m, q
<1>7. LiveOK(P2, W2, f)
  <2> SUFFICES ASSUME RoutesAgree, Clear(f)
               PROVE  /\ Asks(P2, Caller[f], f) => Coming(P2, W2, f) \/ Asks(P2, Callee[f], f)
                      /\ Asks(P2, Callee[f], f) =>
                            Up(P2, Callee[f], f) /\ (Up(P2, Caller[f], f) \/ Returning(P2, W2, f))
    BY DEF LiveOK
  <2>1. FlowOK(P, W, f)
    BY Good2Flow
  <2>2. ~Asks(P, Callee[f], f)
    <3>1. Asks(P, Callee[f], f) => AskOK(P, f, Callee[f])
      BY <2>1, Constants DEF FlowOK
    <3> QED
      BY <3>1 DEF AskOK
  <2>3. ~Asks(P2, Callee[f], f)
    BY <1>1, <1>6, <2>2, Constants
  <2>4. Coming(P2, W2, f)
    <3> HIDE DEF P2, W2
    <3> QED
      BY <1>2, <1>6 DEF Coming, q
  <2> QED
    BY <2>3, <2>4
<1>8. \A g \in Flows : g # f => LiveOK(P2, W2, g)
  <2>1. \A x \in Nodes, g \in Flows : Asks(P2, x, g) => Asks(P, x, g) \/ g = f
    BY <1>6
  <2>2. \A g \in Flows : LiveOK(P, W, g)
    BY DEF LiveAt, Live
  <2> QED
    BY <1>6, <2>1, <2>2, LeadsLive
<1>9. Live(P2, W2)
  BY <1>7, <1>8 DEF Live
<1> QED
  BY <1>6, <1>9 DEF LiveAt
(* On a way that is clear no request is refused. *)
LEMMA ClearHop ==
    ASSUME NEW f \in Flows, Clear(f), NEW k \in 1 .. Length(f)
    PROVE  ~RefusedHop(f, k) /\ ~Exempt(f, k)
<1> DEFINE x == Way[f][k - 1]
           y == Way[f][k]
           t == <<x, y, QoS[f]>>
           h == <<x, y>>
<1>1. h \in HopsOf(f) /\ h[1] = x /\ h[2] = y /\ t[1] = x /\ t[2] = y
  BY DEF HopsOf
<1>2. ~MayBeStuck(x, y)
  BY <1>1 DEF Clear
<1>3. t \notin config.refused
  <2> HIDE DEF t, x, y
  <2> QED
    BY <1>1, <1>2 DEF MayBeStuck
<1> QED
  BY <1>3 DEF RefusedHop, Exempt, IsRefused

LEMMA PartAns ==
    ASSUME NEW p \in Procs, NEW w \in Wires, NEW n \in Nodes, NEW o \in Outcome, GoodAt(p, w, n, o),
           NEW f \in Flows, NEW m \in Nodes, NEW d \in Nodes,
           RoutesAgree => d = Caller[f] /\ OnWayBack(ProcOf(p, n, o), f, n, m),
           NEW o2, o2 = SendPDU(o, m, Ans(f, d))
    PROVE  /\ Leads(p, w, n, o, o2) /\ SameRecords(o, o2)
           /\ \A q : Has(ProcOf(p, n, o), n, m, q) =>
                 Under(ProcOf(p, n, o2), WireOf(w, n, o2), n, m, Ans(f, d))
<1> DEFINE msg == Ans(f, d)
<1>1. msg \in Message /\ IsRequest(msg)
  BY ReqAns
<1>2. RoutesAgree => \A g \in Flows : Allowed(ProcOf(p, n, o), g, n, m, msg)
  BY AllowedAns
<1>3. o2 = SendPDU(o, m, msg)
  OBVIOUS
<1> HIDE DEF msg
<1>4. Leads(p, w, n, o, o2) /\ Unchanges(o, o2)
  BY <1>1, <1>2, <1>3, PartSend
<1>5. \A q : Has(ProcOf(p, n, o), n, m, q) => Under(ProcOf(p, n, o2), WireOf(w, n, o2), n, m, msg)
  BY <1>1, <1>2, <1>3, PartSend
<1> QED
  BY <1>4, <1>5 DEF Unchanges, msg

(* FA::receiveCreateFlowRequestFromRibd at the end. *)
LEMMA HandleEnter ==
    ASSUME NEW p \in Procs, NEW w \in Wires, NEW n \in Nodes, NEW o \in Outcome, GoodAt(p, w, n, o),
           NEW x \in Nodes, NEW f \in Flows, ~Asks(ProcOf(p, n, o), n, f), LiveAt(p, w, n, o),
           Heads(WireOf(w, n, o), x, n, Req(f, n)),
           NEW o2, o2 = EnterFlow(o, n, f)
    PROVE  /\ Leads(p, w, n, o, o2) /\ LiveAt(p, w, n, o2)
           /\ RoutesAgree => n = Callee[f] /\ Asks(ProcOf(p, n, o2), Callee[f], f)
<1> DEFINE P == ProcOf(p, n, o)
           W == WireOf(w, n, o)
           m == NextHop[n][Caller[f]]
           d == OtherEnd(n, f)
           q == QoS[f]
           v == "TRANSFER"
           b == BindNFlowToNM1Flow(WithFlow(o, f, v), m, q)
           PB == ProcOf(p, n, b)
           WB == WireOf(w, n, b)
           P2 == ProcOf(p, n, o2)
           W2 == WireOf(w, n, o2)
           L == Length(f)
<1>1. /\ m \in Nodes /\ q \in Cubes /\ d \in Nodes /\ NextHop[n][d] \in Nodes
      /\ n = Callee[f] => d = Caller[f]
  BY Constants, QoSIsCube DEF OtherEnd
<1>2. W \in Wires /\ (RoutesAgree => FlowOK(P, W, f))
  BY WireType, Good2Flow
<1>3. RoutesAgree => /\ n = Callee[f] /\ Asks(P, Caller[f], f) /\ AskOK(P, f, Caller[f])
                     /\ L \in 1 .. L /\ n = Way[f][L] /\ m = Way[f][L - 1] /\ Past(P, f, L)
  <2> SUFFICES ASSUME RoutesAgree
               PROVE  /\ n = Callee[f] /\ Asks(P, Caller[f], f) /\ AskOK(P, f, Caller[f])
                      /\ L \in 1 .. L /\ n = Way[f][L] /\ m = Way[f][L - 1] /\ Past(P, f, L)
    OBVIOUS
  <2> HIDE DEF P, W
  <2>1. Heads(W, x, n, Req(f, n)) /\ FlowOK(P, W, f)
    BY <1>2 DEF W
  <2>2. n \in {Caller[f], Callee[f]} /\ Asks(P, Caller[f], f)
    BY <1>2, <2>1, HeadRequest
  <2>3. n = Callee[f]
    BY <2>2 DEF P
  <2>4. \E k \in 1 .. L : x = Way[f][k - 1] /\ n = Way[f][k] /\ Past(P, f, k)
    BY <1>2, <2>1, <2>3, HeadRequest
  <2>5. PICK k \in 1 .. L : n = Way[f][k] /\ Past(P, f, k)
    BY <2>4
  <2>6. k = L
    <3>1. Way[f][k] = Callee[f] <=> k = Length(f)
      BY WayHop
    <3> QED
      BY <2>3, <2>5, <3>1
  <2>7. L \in 1 .. L /\ NextHop[Way[f][L]][Caller[f]] = Way[f][L - 1]
    BY <2>6, WayHop
  <2>8. AskOK(P, f, Caller[f])
    BY <2>1, <2>2, Constants DEF FlowOK
  <2> QED
    BY <2>2, <2>3, <2>5, <2>6, <2>7, <2>8
<1>4. o2 = IF IsBound(o, m, q) THEN SendPDU(b, NextHop[n][d], Ans(f, d)) ELSE b
  BY DEF EnterFlow, WithFlow, SendCreateResponse, Ans
<1>5. /\ Leads(p, w, n, o, b)
      /\ Has(PB, n, m, q)
      /\ IsBound(o, m, q) <=> Ready(P, n, m, q)
      /\ \A y \in Nodes, g \in Flows : Asks(PB, y, g) <=> Asks(P, y, g) \/ (y = n /\ g = f)
      /\ Up(PB, n, f)
  <2>1. v \in {"ALLOC_PEND", "TRANSFER"} /\ v = "TRANSFER"
    OBVIOUS
  <2>2. b = BindNFlowToNM1Flow(WithFlow(o, f, v), m, q) /\ q = QoS[f]
    OBVIOUS
  <2> HIDE DEF v, b, m, q
  <2>3. RoutesAgree =>
              /\ n \in {Caller[f], Callee[f]} /\ (v = "TRANSFER" => n # Caller[f])
              /\ (n = Caller[f] /\ m = Way[f][1]) \/ AskOK(ProcOf(p, n, o), f, Caller[f])
    BY <1>3, Constants
  <2>4. Leads(p, w, n, o, b)
    BY <1>1, <2>1, <2>2, <2>3, PartBindEnter
  <2>5. Has(ProcOf(p, n, b), n, m, q)
    BY <1>1, <2>1, <2>2, <2>3, PartBindEnter
  <2>6. IsBound(o, m, q) <=> Ready(ProcOf(p, n, o), n, m, q)
    BY <1>1, <2>1, <2>2, <2>3, PartBindEnter
  <2>7. \A y \in Nodes, g \in Flows :
           Asks(ProcOf(p, n, b), y, g) <=> Asks(ProcOf(p, n, o), y, g) \/ (y = n /\ g = f)
    BY <1>1, <2>1, <2>2, <2>3, PartBindEnter
  <2>8. Up(ProcOf(p, n, b), n, f)
    BY <1>1, <2>1, <2>2, <2>3, PartBindEnter
  <2> QED
    BY <2>4, <2>5, <2>6, <2>7, <2>8
<1> HIDE DEF b, v
<1>6. b \in Outcome /\ GoodAt(p, w, n, b) /\ Grows(P, W, PB, WB)
  BY <1>5 DEF Leads
<1>7. RoutesAgree /\ IsBound(o, m, q) => d = Caller[f] /\ NextHop[n][d] = m /\ OnWayBack(PB, f, n, m)
  <2> SUFFICES ASSUME RoutesAgree, IsBound(o, m, q)
               PROVE  d = Caller[f] /\ NextHop[n][d] = m /\ OnWayBack(PB, f, n, m)
    OBVIOUS
  <2>1. d = Caller[f] /\ NextHop[n][d] = m
    BY <1>1, <1>3
  <2> HIDE DEF P, W, PB, WB, m, d
  <2>2. Back(P, f, L)
    BY <1>3, <1>5 DEF Back, q
  <2>3. Answered(P, f)
    BY <1>3, <2>2 DEF Past, Answered, Exempt
  <2>4. Answered(PB, f)
    BY <1>6, <2>3, GrowsKeeps
  <2>5. Asks(PB, Callee[f], f)
    BY <1>3, <1>5
  <2>6. Done(PB, f, L + 1)
    <3>1. L \in Nat
      BY WayEnds, WayType
    <3> QED
      BY <3>1 DEF Done
  <2>7. OnWayBack(PB, f, n, m)
    BY <1>3, <2>4, <2>5, <2>6 DEF OnWayBack
  <2> QED
    BY <2>1, <2>7
<1>8. /\ Leads(p, w, n, o, o2) /\ Leads(p, w, n, b, o2)
      /\ AsksSame(PB, P2)
      /\ RoutesAgree /\ IsBound(o, m, q) => Under(P2, W2, n, m, Ans(f, Caller[f]))
  <2>1. CASE ~IsBound(o, m, q)
    <3>1. o2 = b
      BY <1>4, <2>1
    <3>2. Leads(p, w, n, b, o2)
      BY <1>6, <3>1, LeadsOn
    <3> QED
      BY <1>5, <2>1, <3>1, <3>2 DEF AsksSame
  <2>2. CASE IsBound(o, m, q)
    <3> DEFINE m2 == NextHop[n][d]
    <3>1. o2 = SendPDU(b, m2, Ans(f, d)) /\ m2 \in Nodes
      BY <1>1, <1>4, <2>2
    <3>2. RoutesAgree => d = Caller[f] /\ OnWayBack(ProcOf(p, n, b), f, n, m2)
      BY <1>7, <2>2
    <3> HIDE DEF m2, d
    <3>3. Leads(p, w, n, b, o2) /\ SameRecords(b, o2)
      BY <1>1, <1>6, <3>1, <3>2, PartAns
    <3>4. \A r : Has(ProcOf(p, n, b), n, m2, r) =>
                 Under(ProcOf(p, n, o2), WireOf(w, n, o2), n, m2, Ans(f, d))
      BY <1>1, <1>6, <3>1, <3>2, PartAns
    <3>5. Leads(p, w, n, o, o2)
      BY <1>5, <3>3, LeadsOn
    <3>6. AsksSame(PB, P2)
      <4>1. o2 \in Outcome
        BY <3>3 DEF Leads
      <4> QED
        BY <1>6, <3>3, <4>1, RecordsAsks
    <3> QED
      BY <1>5, <1>7, <2>2, <3>3, <3>4, <3>5, <3>6 DEF m2
  <2> QED
    BY <2>1, <2>2
<1> HIDE DEF m, d
<1>9. Grows(PB, WB, P2, W2) /\ Up(P2, n, f) /\ Asks(P2, n, f)
  <2>1. Grows(PB, WB, P2, W2)
    BY <1>8 DEF Leads
  <2> HIDE DEF PB, WB, P2, W2
  <2>2. Up(P2, n, f)
    BY <1>5, <2>1 DEF Grows
  <2> QED
    BY <2>1, <2>2 DEF Up, Asks
<1>10. LiveOK(P2, W2, f)
  <2> SUFFICES ASSUME RoutesAgree, Clear(f)
               PROVE  /\ Asks(P2, Caller[f], f) => Coming(P2, W2, f) \/ Asks(P2, Callee[f], f)
                      /\ Asks(P2, Callee[f], f) =>
                            Up(P2, Callee[f], f) /\ (Up(P2, Caller[f], f) \/ Returning(P2, W2, f))
    BY DEF LiveOK
  <2>1. Back(P, f, L)
    <3>1. ~RefusedHop(f, L)
      BY <1>3, ClearHop
    <3> QED
      BY <1>3, <3>1 DEF Past
  <2> HIDE DEF P, P2, W2
  <2>2. Ready(P, n, m, q)
    BY <1>3, <2>1 DEF Back
  <2>3. Under(P2, W2, Way[f][L], Way[f][L - 1], Ans(f, Caller[f]))
    BY <1>3, <1>5, <1>8, <2>2
  <2>4. Returning(P2, W2, f)
    BY <1>3, <2>3 DEF Returning
  <2> QED
    BY <1>3, <1>9, <2>4
<1>11. \A g \in Flows : g # f => LiveOK(P2, W2, g)
  <2>1. \A y \in Nodes, g \in Flows : Asks(P2, y, g) => Asks(P, y, g) \/ g = f
    BY <1>5, <1>8 DEF AsksSame
  <2>2. \A g \in Flows : LiveOK(P, W, g)
    BY DEF LiveAt, Live
  <2> QED
    BY <1>8, <2>1, <2>2, LeadsLive
<1>12. Live(P2, W2)
  BY <1>10, <1>11 DEF Live
<1> QED
  BY <1>3, <1>8, <1>9, <1>12 DEF LiveAt
-----------------------------------------------------------------------------
(* What must have become of a message from x when n is done with it.       *)

RequestMoves(p, w, x, n, f) ==
    /\ x # n
    /\ \E k \in 1 .. Length(f) :
          /\ n = Way[f][k - 1]
          /\ Under(p, w, n, Way[f][k], Req(f, Callee[f])) \/ Waits(p, n, f, Callee[f])
AnswerMoves(p, w, x, n, f) ==
    /\ x # n
    /\ \E k \in 1 .. Length(f) : n = Way[f][k] /\ Under(p, w, n, Way[f][k - 1], Ans(f, Caller[f]))

SettledReq(p, w, x, n, f) == RoutesAgree => Asks(p, Callee[f], f) \/ RequestMoves(p, w, x, n, f)
SettledAns(p, w, x, n, f) ==
    RoutesAgree /\ Clear(f) => Up(p, Caller[f], f) \/ AnswerMoves(p, w, x, n, f)
SettledCreate(p, w, x, n, q) ==
    IsRefused(x, n, q) \/ (Ready(p, n, x, q) /\ Sent(w, n, x, NM1("nm1created", q)))
SettledCreated(p, w, x, n, q) ==
    /\ Ready(p, n, x, q) /\ ~Idle(p, n, x, q)
    /\ \A f \in Flows, d \in Nodes : Waits(p, n, f, d) => NextHop[n][d] # x
    /\ RoutesAgree => \A f \in Flows :
          n = Caller[f] /\ QoS[f] = q /\ Asks(p, n, f) =>
              Under(p, w, n, Way[f][1], Req(f, Callee[f]))

Settled(p, w, x, n, msg) ==
    /\ \A q \in Cubes : msg = NM1("nm1create", q) => SettledCreate(p, w, x, n, q)
    /\ \A q \in Cubes : msg = NM1("nm1created", q) => SettledCreated(p, w, x, n, q)
    /\ \A f \in Flows : msg = Req(f, Callee[f]) => SettledReq(p, w, x, n, f)
    /\ \A f \in Flows : msg = Ans(f, Caller[f]) => SettledAns(p, w, x, n, f)

LEMMA SameAsksLives ==
    ASSUME NEW p, NEW w, NEW n, NEW o, NEW o2, Leads(p, w, n, o, o2),
           RoutesAgree => SameAsks(p, w, n, o, o2), LiveAt(p, w, n, o)
    PROVE  LiveAt(p, w, n, o2)
<1>1. CASE RoutesAgree
  <2>1. KeepsLive(p, w, n, o, o2)
    BY <1>1, SameAsksLive
  <2> QED
    BY <2>1 DEF KeepsLive, LiveAt, Live
<1>2. CASE ~RoutesAgree
  BY <1>2 DEF LiveAt, Live, LiveOK
<1> QED
  BY <1>1, <1>2

LEMMA HandleRequest ==
    ASSUME NEW p \in Procs, NEW w \in Wires, NEW n \in Nodes, NEW o \in Outcome, GoodAt(p, w, n, o),
           NEW x \in Nodes, NEW f \in Flows, NEW d \in Nodes, LiveAt(p, w, n, o),
           Heads(WireOf(w, n, o), x, n, Req(f, d)),
           NEW o2, o2 = ReceiveCreate(o, n, Req(f, d))
    PROVE  /\ Leads(p, w, n, o, o2) /\ LiveAt(p, w, n, o2)
           /\ d = Callee[f] => SettledReq(ProcOf(p, n, o2), WireOf(w, n, o2), x, n, f)
<1> DEFINE P == ProcOf(p, n, o)
           W == WireOf(w, n, o)
           P2 == ProcOf(p, n, o2)
           W2 == WireOf(w, n, o2)
           msg == Req(f, d)
<1>1. o2 = IF d # n THEN ForwardFlow(o, n, msg)
           ELSE IF IsDuplicate(o, f) THEN o ELSE EnterFlow(o, n, f)
  <2>1. msg.flow = f /\ msg.to = d /\ o2 = ReceiveCreate(o, n, msg)
    BY DEF Req
  <2> HIDE DEF msg
  <2> QED
    BY <2>1 DEF ReceiveCreate
<1>2. IsDuplicate(o, f) <=> Asks(P, n, f)
  <2>1. P[n] = o.st
    BY ProcType
  <2> QED
    BY <2>1 DEF IsDuplicate, Asks
<1>3. CASE d # n
  <2>1. o2 = ForwardFlow(o, n, Req(f, d))
    BY <1>1, <1>3
  <2> HIDE DEF P, W, P2, W2
  <2>2. Leads(p, w, n, o, o2)
    BY <1>3, <2>1, HandleForward
  <2>3. SameAsks(p, w, n, o, o2)
    BY <1>3, <2>1, HandleForward
  <2>4. RoutesAgree => Waits(P2, n, f, d) \/ Under(P2, W2, n, NextHop[n][d], Req(f, d))
    BY <1>3, <2>1, HandleForward DEF P2, W2
  <2>5. LiveAt(p, w, n, o2)
    BY <2>2, <2>3, SameAsksLives
  <2>6. ASSUME RoutesAgree, d = Callee[f] PROVE RequestMoves(P2, W2, x, n, f)
    <3>1. W \in Wires /\ FlowOK(P, W, f) /\ Heads(W, x, n, Req(f, d))
      BY <2>6, WireType, Good2Flow DEF P, W
    <3>2. d = Callee[f] => \E k \in 1 .. Length(f) :
             x = Way[f][k - 1] /\ n = Way[f][k] /\ Past(P, f, k)
      BY <2>6, <3>1, HeadRequest
    <3>3. PICK k \in 1 .. Length(f) : x = Way[f][k - 1] /\ n = Way[f][k]
      BY <2>6, <3>2
    <3>4. x # n
      BY <2>6, <3>3, WayMoves
    <3>5. k # Length(f)
      <4>1. Way[f][k] = Callee[f] <=> k = Length(f)
        BY <2>6, WayHop
      <4> QED
        BY <1>3, <2>6, <3>3, <4>1
    <3>6. k + 1 \in 1 .. Length(f) /\ (k + 1) - 1 = k
      BY <2>6, <3>5, WayHop
    <3>7. NextHop[Way[f][(k + 1) - 1]][Callee[f]] = Way[f][k + 1]
      BY <2>6, <3>6, WayHop
    <3>8. n = Way[f][(k + 1) - 1] /\ NextHop[n][d] = Way[f][k + 1]
      BY <2>6, <3>3, <3>6, <3>7
    <3>9. Under(P2, W2, n, Way[f][k + 1], Req(f, Callee[f])) \/ Waits(P2, n, f, Callee[f])
      BY <2>4, <2>6, <3>8
    <3> QED
      BY <3>4, <3>6, <3>8, <3>9 DEF RequestMoves
  <2> QED
    BY <2>2, <2>5, <2>6 DEF SettledReq, P2, W2
<1>4. CASE d = n /\ IsDuplicate(o, f)
  <2>1. o2 = o
    BY <1>1, <1>4
  <2>2. Leads(p, w, n, o, o2)
    BY <2>1, LeadsOn
  <2> QED
    BY <1>2, <1>4, <2>1, <2>2 DEF SettledReq
<1>5. CASE d = n /\ ~IsDuplicate(o, f)
  <2>1. o2 = EnterFlow(o, n, f) /\ ~Asks(ProcOf(p, n, o), n, f)
        /\ Heads(WireOf(w, n, o), x, n, Req(f, n))
    BY <1>1, <1>2, <1>5
  <2>2. Leads(p, w, n, o, o2) /\ LiveAt(p, w, n, o2)
    BY <2>1, HandleEnter
  <2>3. RoutesAgree => n = Callee[f] /\ Asks(ProcOf(p, n, o2), Callee[f], f)
    BY <2>1, HandleEnter
  <2> QED
    BY <2>2, <2>3 DEF SettledReq
<1> QED
  BY <1>3, <1>4, <1>5

LEMMA HandleResponse ==
    ASSUME NEW p \in Procs, NEW w \in Wires, NEW n \in Nodes, NEW o \in Outcome, GoodAt(p, w, n, o),
           NEW x \in Nodes, NEW f \in Flows, NEW d \in Nodes, LiveAt(p, w, n, o),
           Heads(WireOf(w, n, o), x, n, Ans(f, d)),
           NEW o2, o2 = ReceiveResponse(o, n, Ans(f, d))
    PROVE  /\ Leads(p, w, n, o, o2) /\ LiveAt(p, w, n, o2)
           /\ SettledAns(ProcOf(p, n, o2), WireOf(w, n, o2), x, n, f)
<1> DEFINE P == ProcOf(p, n, o)
           W == WireOf(w, n, o)
           P2 == ProcOf(p, n, o2)
           W2 == WireOf(w, n, o2)
           m == NextHop[n][d]
           msg == Ans(f, d)
<1>1. o2 = IF d # n THEN SendPDU(o, m, msg) ELSE WithStatus(o, f, "TRANSFER")
  <2>1. msg.flow = f /\ msg.to = d /\ o2 = ReceiveResponse(o, n, msg)
    BY DEF Ans
  <2> HIDE DEF msg
  <2> QED
    BY <2>1 DEF ReceiveResponse, WithStatus
<1>2. m \in Nodes
  BY Constants
<1>3. RoutesAgree =>
         /\ d = Caller[f] /\ Answered(P, f) /\ Asks(P, Callee[f], f) /\ Asks(P, Caller[f], f)
         /\ \E k \in 1 .. Length(f) : x = Way[f][k] /\ n = Way[f][k - 1] /\ Done(P, f, k)
  <2> SUFFICES ASSUME RoutesAgree
               PROVE  /\ d = Caller[f] /\ Answered(P, f) /\ Asks(P, Callee[f], f) /\ Asks(P, Caller[f], f)
                      /\ \E k \in 1 .. Length(f) :
                            x = Way[f][k] /\ n = Way[f][k - 1] /\ Done(P, f, k)
    OBVIOUS
  <2>1. W \in Wires /\ FlowOK(P, W, f) /\ Heads(W, x, n, Ans(f, d))
    BY WireType, Good2Flow
  <2> HIDE DEF P, W
  <2>2. d = Caller[f] /\ Answered(P, f) /\ Asks(P, Callee[f], f)
    BY <2>1, HeadAnswer
  <2>3. \E k \in 1 .. Length(f) : x = Way[f][k] /\ n = Way[f][k - 1] /\ Done(P, f, k)
    BY <2>1, HeadAnswer
  <2>4. Asks(P, Caller[f], f)
    BY <2>1, <2>2, Constants DEF FlowOK, AskOK
  <2> QED
    BY <2>2, <2>3, <2>4
<1>4. CASE d # n
  <2>1. o2 = SendPDU(o, m, Ans(f, d))
    BY <1>1, <1>4
  <2>2. ASSUME RoutesAgree
        PROVE  /\ OnWayBack(P, f, n, m) /\ x # n
               /\ \E k \in 1 .. Length(f) :
                     n = Way[f][k] /\ m = Way[f][k - 1] /\ (Clear(f) => Has(P, n, m, QoS[f]))
    <3> HIDE DEF P
    <3>1. PICK k \in 1 .. Length(f) : x = Way[f][k] /\ n = Way[f][k - 1] /\ Done(P, f, k)
      BY <1>3, <2>2
    <3>2. x # n
      BY <2>2, <3>1, WayMoves
    <3>3. k # 1
      <4>1. k = 1 => k - 1 = 0
        OBVIOUS
      <4>2. Way[f][0] = Caller[f]
        BY <2>2, FirstHop
      <4> QED
        BY <1>3, <1>4, <2>2, <3>1, <4>1, <4>2
    <3> DEFINE j == k - 1
    <3>4. j \in 1 .. Length(f) /\ j + 1 = k
      <4>1. k - 1 \in 1 .. Length(f)
        BY <2>2, <3>3, WayHop
      <4> QED
        BY <4>1
    <3> HIDE DEF j
    <3>5. NextHop[Way[f][j]][Caller[f]] = Way[f][j - 1]
      BY <2>2, <3>4, WayHop
    <3>6. n = Way[f][j] /\ m = Way[f][j - 1] /\ Done(P, f, j + 1)
      BY <1>3, <2>2, <3>1, <3>4, <3>5 DEF j
    <3>7. OnWayBack(P, f, n, m)
      BY <1>3, <2>2, <3>4, <3>6 DEF OnWayBack
    <3>8. ASSUME Clear(f) PROVE Has(P, n, m, QoS[f])
      <4>1. ~Exempt(f, j)
        BY <3>4, <3>8, ClearHop
      <4>2. Back(P, f, j)
        BY <1>3, <2>2, <3>4, <4>1 DEF Answered
      <4> QED
        BY <3>6, <4>2 DEF Back, Ready, Has, ReadyT, HasT
    <3> QED
      BY <3>2, <3>4, <3>6, <3>7, <3>8
  <2>3. RoutesAgree => d = Caller[f] /\ OnWayBack(ProcOf(p, n, o), f, n, m)
    BY <1>3, <2>2
  <2> HIDE DEF m
  <2>4. Leads(p, w, n, o, o2) /\ SameRecords(o, o2)
    BY <1>2, <2>1, <2>3, PartAns
  <2>5. \A q : Has(ProcOf(p, n, o), n, m, q) =>
                 Under(ProcOf(p, n, o2), WireOf(w, n, o2), n, m, Ans(f, d))
    BY <1>2, <2>1, <2>3, PartAns
  <2>6. SameAsks(p, w, n, o, o2)
    BY <2>4, RecordsAsks DEF SameAsks, Leads
  <2>7. LiveAt(p, w, n, o2)
    BY <2>4, <2>6, SameAsksLives
  <2>8. ASSUME RoutesAgree, Clear(f) PROVE AnswerMoves(P2, W2, x, n, f)
    <3>1. PICK k \in 1 .. Length(f) : n = Way[f][k] /\ m = Way[f][k - 1] /\ Has(P, n, m, QoS[f])
      BY <2>2, <2>8
    <3>2. Under(P2, W2, n, Way[f][k - 1], Ans(f, Caller[f]))
      BY <1>3, <2>5, <2>8, <3>1
    <3> HIDE DEF P2, W2
    <3> QED
      BY <2>2, <2>8, <3>1, <3>2 DEF AnswerMoves
  <2> QED
    BY <2>4, <2>7, <2>8 DEF SettledAns
<1>5. CASE d = n
  <2> DEFINE v == "TRANSFER"
  <2>1. o2 = WithStatus(o, f, v) /\ v \in {"none", "ALLOC_PEND", "TRANSFER"} /\ v = "TRANSFER"
    BY <1>1, <1>5
  <2> HIDE DEF v
  <2>2. o2 \in Outcome /\ Alike(o, o2)
    BY <2>1, StatusOutcome
  <2>3. StatusRecords(o, o2, f, v)
    BY <2>1, StatusOutcome
  <2>4. SameTables(n, P, P2)
    BY <2>2, AlikeWorld
  <2> HIDE DEF P, W, P2, W2
  <2>5. ASSUME RoutesAgree PROVE Asks(P, n, f) /\ Done(P2, f, 1) /\ n = Caller[f]
    <3>1. PICK k \in 1 .. Length(f) : n = Way[f][k - 1] /\ Done(P, f, k)
      BY <1>3, <2>5
    <3>2. n = Caller[f] /\ Asks(P, n, f)
      BY <1>3, <1>5, <2>5
    <3>3. k = 1
      <4>1. Way[f][k - 1] = Caller[f] <=> k = 1
        BY <2>5, WayHop
      <4> QED
        BY <3>1, <3>2, <4>1
    <3>4. \A j \in 1 .. Length(f) : Way[f][j] \in Nodes /\ Way[f][j - 1] \in Nodes
      BY <2>5, WayHop
    <3>5. \A j \in 1 .. Length(f) : (Back(P, f, j) => Back(P2, f, j)) /\ (Forth(P, f, j) => Forth(P2, f, j))
      BY <2>4, <3>4, TablesSame DEF Back, Forth
    <3>6. Done(P2, f, 1)
      BY <3>1, <3>3, <3>5 DEF Done
    <3> QED
      BY <3>2, <3>6
  <2>6. RoutesAgree => Asks(ProcOf(p, n, o), n, f) /\ Done(ProcOf(p, n, o2), f, 1)
    BY <2>5 DEF P, P2
  <2>7. StatusRecords(o, o2, f, "TRANSFER")
    BY <2>1, <2>3
  <2>8. Leads(p, w, n, o, o2) /\ Up(ProcOf(p, n, o2), n, f)
    BY <2>2, <2>6, <2>7, PartLearn
  <2>9. RoutesAgree => SameAsks(p, w, n, o, o2)
    BY <2>2, <2>6, <2>7, PartLearn DEF SameAsks, AsksSame
  <2>10. LiveAt(p, w, n, o2)
    BY <2>8, <2>9, SameAsksLives
  <2> QED
    BY <2>5, <2>8, <2>10 DEF SettledAns
<1> QED
  BY <1>4, <1>5
-----------------------------------------------------------------------------
(* The DIF below asks; it refuses.                                         *)

LEMMA HandleAsked ==
    ASSUME NEW p \in Procs, NEW w \in Wires, NEW n \in Nodes, NEW o \in Outcome, GoodAt(p, w, n, o),
           NEW x \in Nodes, NEW q \in Cubes, LiveAt(p, w, n, o),
           Heads(WireOf(w, n, o), x, n, NM1("nm1create", q)),
           NEW o2, o2 = NM1FlowAsked(o, n, x, q)
    PROVE  /\ Leads(p, w, n, o, o2) /\ LiveAt(p, w, n, o2)
           /\ SettledCreate(ProcOf(p, n, o2), WireOf(w, n, o2), x, n, q)
<1> DEFINE P == ProcOf(p, n, o)
           W == WireOf(w, n, o)
<1>1. o2 = IF IsRefused(x, n, q) THEN Post(o, x, NM1("nm1refused", q))
           ELSE CreateNM1FlowWithoutAllocate(o, x, q)
  BY DEF NM1FlowAsked, IsRefused, NM1
<1>2. Asked(P, x, n, q)
  <2>1. W \in Wires /\ Heads(W, x, n, NM1("nm1create", q))
    BY WireType
  <2>2. Base(P, W)
    BY GoodTables
  <2> HIDE DEF P, W
  <2>3. Sent(W, x, n, NM1("nm1create", q))
    BY <2>1, HeadIsSent
  <2> QED
    BY <2>2, <2>3 DEF Base, CreateIsAsked
<1>3. /\ Leads(p, w, n, o, o2) /\ SameRecords(o, o2)
      /\ SettledCreate(ProcOf(p, n, o2), WireOf(w, n, o2), x, n, q)
  <2>1. CASE IsRefused(x, n, q)
    <3>1. o2 = Post(o, x, NM1("nm1refused", q))
      BY <1>1, <2>1
    <3>2. Leads(p, w, n, o, o2) /\ SameRecords(o, o2)
      BY <3>1, PartRefuse
    <3> QED
      BY <2>1, <3>2 DEF SettledCreate
  <2>2. CASE ~IsRefused(x, n, q)
    <3>1. o2 = CreateNM1FlowWithoutAllocate(o, x, q)
      BY <1>1, <2>2
    <3>2. Leads(p, w, n, o, o2) /\ SameRecords(o, o2)
      BY <1>2, <3>1, PartAccept
    <3>3. Ready(ProcOf(p, n, o2), n, x, q) /\ Sent(WireOf(w, n, o2), n, x, NM1("nm1created", q))
      BY <1>2, <3>1, PartAccept
    <3> QED
      BY <3>2, <3>3 DEF SettledCreate
  <2> QED
    BY <2>1, <2>2
<1>4. SameAsks(p, w, n, o, o2)
  BY <1>3, RecordsAsks DEF SameAsks, Leads
<1>5. LiveAt(p, w, n, o2)
  BY <1>3, <1>4, SameAsksLives
<1> QED
  BY <1>3, <1>5

LEMMA HandleRefused ==
    ASSUME NEW p \in Procs, NEW w \in Wires, NEW n \in Nodes, NEW o \in Outcome, GoodAt(p, w, n, o),
           LiveAt(p, w, n, o), NEW o2, o2 = NM1FlowRefused(o)
    PROVE  Leads(p, w, n, o, o2) /\ LiveAt(p, w, n, o2)
<1> DEFINE r == o.st.refused \union {f \in Flows : o.st.status[f] # "none"}
<1>1. r \in SUBSET Flows
  BY OutcomeFields DEF Allocators
<1>2. o2 = WithRefused(o, r)
  BY DEF NM1FlowRefused, WithRefused
<1> HIDE DEF r
<1>3. o2 \in Outcome /\ Alike(o, o2) /\ SameRecords(o, o2)
  BY <1>1, <1>2, RefusedOutcome
<1>4. Leads(p, w, n, o, o2)
  BY <1>3, PartNothing
<1>5. SameAsks(p, w, n, o, o2)
  BY <1>3, RecordsAsks DEF SameAsks
<1>6. LiveAt(p, w, n, o2)
  BY <1>4, <1>5, SameAsksLives
<1> QED
  BY <1>4, <1>6

-----------------------------------------------------------------------------
(* LisFAICreResPosiNminusOne: the FAIs of the cube, one after the other.   *)

LEMMA SignalizeType ==
    ASSUME NEW o \in Outcome, NEW n \in Nodes, NEW f \in Flows
    PROVE  SignalizeCreateFlowRequest(o, n, f) \in Outcome
<1> DEFINE d == OtherEnd(n, f)
           m == NextHop[n][d]
           msg == Req(f, d)
<1>1. d \in Nodes /\ m \in Nodes
  BY Constants
<1>2. msg \in Message /\ IsRequest(msg)
  BY <1>1, ReqAns
<1>3. SignalizeCreateFlowRequest(o, n, f) = SendPDU(o, m, msg)
  BY DEF SignalizeCreateFlowRequest, Req
<1> HIDE DEF d, m, msg
<1> QED
  BY <1>1, <1>2, <1>3, SendPDUDoes

LEMMA WakeFAIsRuns ==
    ASSUME NEW o \in Outcome, NEW n \in Nodes, NEW s \in Seq(Flows), NEW N \in Nat, N = Len(s),
           NEW q, s = SetToSeq(FlowsAt(o, q)),
           NEW o2, o2 = WakeFAIs(o, n, q)
    PROVE  \E g : /\ g[0] = o /\ g[N] = o2
                  /\ \A k \in 1 .. N : g[k] = SignalizeCreateFlowRequest(g[k - 1], n, s[k])
<1> DEFINE step(k) == [a \in Outcome |-> SignalizeCreateFlowRequest(a, n, s[k])]
           F == [k \in 1 .. N |-> step(k)]
           Body(g, k) == IF k = 0 THEN o ELSE SignalizeCreateFlowRequest(g[k - 1], n, s[k])
           Chosen == CHOOSE g : g = [k \in 0 .. N |-> Body(g, k)]
<1>1. \A k \in 1 .. N : s[k] \in Flows
  OBVIOUS
<1>2. \A k \in 1 .. N : step(k) \in [Outcome -> Outcome]
  BY <1>1, SignalizeType
<1>3. F \in [1 .. N -> [Outcome -> Outcome]]
  <2> HIDE DEF step
  <2> QED
    BY <1>2
<1>4. PICK g : Loops(g, N, Outcome, o, F)
  <2> HIDE DEF F, step
  <2> QED
    BY <1>3, Looping
<1>5. /\ g \in [0 .. N -> Outcome] /\ g[0] = o
      /\ \A k \in 1 .. N : g[k] = SignalizeCreateFlowRequest(g[k - 1], n, s[k])
  <2>1. g \in [0 .. N -> Outcome] /\ g[0] = o /\ \A k \in 1 .. N : g[k] = F[k][g[k - 1]]
    BY <1>4 DEF Loops
  <2>2. \A k \in 1 .. N : g[k - 1] \in Outcome
    BY <2>1
  <2> QED
    BY <2>1, <2>2
<1>6. g = [k \in 0 .. N |-> Body(g, k)]
  BY <1>5
<1>7. Chosen = [k \in 0 .. N |-> Body(Chosen, k)]
  <2> HIDE DEF Body
  <2> QED
    BY <1>6
<1>8. o2 = Chosen[N]
  BY DEF WakeFAIs
<1> HIDE DEF Chosen
<1>9. /\ Chosen[0] = o
      /\ \A k \in 1 .. N : Chosen[k] = SignalizeCreateFlowRequest(Chosen[k - 1], n, s[k])
  BY <1>7
<1> QED
  BY <1>8, <1>9
(* The first k of the flows of s have had their requests sent. *)
WokenFAIs(p, w, n, o, s, k, a) ==
    /\ Leads(p, w, n, o, a) /\ Unchanges(o, a)
    /\ RoutesAgree => \A j \in 1 .. k :
          n = Caller[s[j]] =>
             Under(ProcOf(p, n, a), WireOf(w, n, a), n, Way[s[j]][1], Req(s[j], Callee[s[j]]))

LEMMA WakeFAIsDoes ==
    ASSUME NEW p \in Procs, NEW w \in Wires, NEW n \in Nodes, NEW o \in Outcome, GoodAt(p, w, n, o),
           NEW q, NEW o2, o2 = WakeFAIs(o, n, q)
    PROVE  /\ Leads(p, w, n, o, o2) /\ Unchanges(o, o2)
           /\ RoutesAgree => \A f \in Flows :
                 n = Caller[f] /\ QoS[f] = q /\ Asks(ProcOf(p, n, o), n, f) =>
                    Under(ProcOf(p, n, o2), WireOf(w, n, o2), n, Way[f][1], Req(f, Callee[f]))
<1> DEFINE S == FlowsAt(o, q)
           s == SetToSeq(S)
           N == Cardinality(S)
<1>1. S \subseteq Flows /\ \A f \in Flows : f \in S <=> o.st.status[f] # "none" /\ QoS[f] = q
  BY DEF FlowsAt
<1>2. IsFiniteSet(S)
  BY <1>1, AllocationAssumption, FS_Subset
<1> HIDE DEF S
<1>3. /\ s \in Seq(S) /\ Len(s) = N /\ N \in Nat
      /\ \A f \in S : \E i \in 1 .. N : s[i] = f
  BY <1>2, SetToSeqIsInjective
<1>4. s = SetToSeq(FlowsAt(o, q))
  BY DEF S
<1> HIDE DEF s, N
<1>5. s \in Seq(Flows) /\ \A i \in 1 .. N : s[i] \in S /\ s[i] \in Flows
  BY <1>1, <1>3
<1>6. \E g : /\ g[0] = o /\ g[N] = o2
             /\ \A k \in 1 .. N : g[k] = SignalizeCreateFlowRequest(g[k - 1], n, s[k])
  BY <1>3, <1>4, <1>5, WakeFAIsRuns
<1>7. PICK g : /\ g[0] = o /\ g[N] = o2
               /\ \A k \in 1 .. N : g[k] = SignalizeCreateFlowRequest(g[k - 1], n, s[k])
  BY <1>6
<1> DEFINE T == {k \in 0 .. N : WokenFAIs(p, w, n, o, s, k, g[k])}
<1>8. WokenFAIs(p, w, n, o, s, 0, o)
  <2>1. Leads(p, w, n, o, o)
    BY LeadsOn
  <2> QED
    BY <2>1 DEF WokenFAIs, Unchanges, SameRecords, NoMoreIdle
<1>9. ASSUME NEW k \in 0 .. (N - 1), WokenFAIs(p, w, n, o, s, k, g[k])
      PROVE  WokenFAIs(p, w, n, o, s, k + 1, g[k + 1])
  <2> DEFINE a == g[k]
             b == g[k + 1]
             f == s[k + 1]
  <2>1. k + 1 \in 1 .. N /\ (k + 1) - 1 = k
    BY <1>3
  <2>2. b = SignalizeCreateFlowRequest(a, n, f) /\ f \in S /\ f \in Flows
    BY <1>5, <1>7, <2>1
  <2>3. /\ Leads(p, w, n, o, a) /\ Unchanges(o, a)
        /\ RoutesAgree => \A j \in 1 .. k :
              n = Caller[s[j]] =>
                 Under(ProcOf(p, n, a), WireOf(w, n, a), n, Way[s[j]][1], Req(s[j], Callee[s[j]]))
    BY <1>9 DEF WokenFAIs
  <2>f. f = s[k + 1]
    OBVIOUS
  <2> HIDE DEF a, b, f
  <2>4. a \in Outcome /\ GoodAt(p, w, n, a)
    BY <2>3 DEF Leads
  <2>5. Asks(ProcOf(p, n, a), n, f)
    <3>1. ProcOf(p, n, a)[n] = a.st
      BY <2>4, ProcType
    <3>2. a.st.status = o.st.status
      BY <2>3 DEF Unchanges, SameRecords
    <3> QED
      BY <1>1, <2>2, <3>1, <3>2 DEF Asks
  <2>6. Leads(p, w, n, a, b) /\ Unchanges(a, b)
    BY <2>2, <2>4, <2>5, PartSignalize
  <2>7. RoutesAgree /\ n = Caller[f] =>
           Under(ProcOf(p, n, b), WireOf(w, n, b), n, Way[f][1], Req(f, Callee[f]))
    BY <2>2, <2>4, <2>5, PartSignalize
  <2>8. Leads(p, w, n, o, b)
    BY <2>3, <2>6, LeadsOn
  <2>9. Unchanges(o, b)
    BY <2>3, <2>6 DEF Unchanges, SameRecords, NoMoreIdle
  <2>10. ASSUME RoutesAgree, NEW j \in 1 .. (k + 1), n = Caller[s[j]]
         PROVE  Under(ProcOf(p, n, b), WireOf(w, n, b), n, Way[s[j]][1], Req(s[j], Callee[s[j]]))
    <3>1. CASE j = k + 1
      BY <2>7, <2>10, <2>f, <3>1
    <3>2. CASE j \in 1 .. k
      <4> DEFINE x == Way[s[j]][1]
                 r == Req(s[j], Callee[s[j]])
      <4>1. Under(ProcOf(p, n, a), WireOf(w, n, a), n, x, r)
        BY <2>3, <2>10, <3>2
      <4>2. x \in Nodes
        <5>1. s[j] \in Flows
          BY <1>3, <1>5, <3>2
        <5> QED
          BY <2>10, <5>1, FirstHop
      <4>3. Grows(ProcOf(p, n, a), WireOf(w, n, a), ProcOf(p, n, b), WireOf(w, n, b))
        BY <2>6 DEF Leads
      <4> HIDE DEF x, r
      <4>4. Under(ProcOf(p, n, b), WireOf(w, n, b), n, x, r)
        BY <4>1, <4>2, <4>3 DEF Grows
      <4> QED
        BY <4>4 DEF x, r
    <3>3. j = k + 1 \/ j \in 1 .. k
      BY <1>3
    <3> QED
      BY <3>1, <3>2, <3>3
  <2>11. WokenFAIs(p, w, n, o, s, k + 1, b)
    BY <2>8, <2>9, <2>10 DEF WokenFAIs
  <2> QED
    BY <2>11 DEF b
<1>10. 0 .. N \subseteq T
  <2>1. 0 \in T
    BY <1>3, <1>7, <1>8
  <2>2. \A k \in 0 .. (N - 1) : k \in T => k + 1 \in T
    <3> SUFFICES ASSUME NEW k \in 0 .. (N - 1), k \in T PROVE k + 1 \in T
      OBVIOUS
    <3>1. k + 1 \in 0 .. N
      BY <1>3
    <3> QED
      BY <1>9, <3>1
  <2> HIDE DEF T
  <2> QED
    BY <1>3, <2>1, <2>2, UpTo
<1>11. WokenFAIs(p, w, n, o, s, N, o2)
  <2>1. N \in T
    BY <1>3, <1>10
  <2> QED
    BY <1>7, <2>1
<1>12. ASSUME RoutesAgree, NEW f \in Flows, n = Caller[f], QoS[f] = q, Asks(ProcOf(p, n, o), n, f)
       PROVE  Under(ProcOf(p, n, o2), WireOf(w, n, o2), n, Way[f][1], Req(f, Callee[f]))
  <2>1. f \in S
    <3>1. ProcOf(p, n, o)[n] = o.st
      BY ProcType
    <3> QED
      BY <1>1, <1>12, <3>1 DEF Asks
  <2>2. PICK i \in 1 .. N : s[i] = f
    BY <1>3, <2>1
  <2>3. n = Caller[s[i]]
    BY <1>12, <2>2
  <2>4. Under(ProcOf(p, n, o2), WireOf(w, n, o2), n, Way[s[i]][1], Req(s[i], Callee[s[i]]))
    BY <1>11, <1>12, <2>3 DEF WokenFAIs
  <2> QED
    BY <2>2, <2>4
<1> QED
  BY <1>11, <1>12 DEF WokenFAIs
-----------------------------------------------------------------------------
(* LisFACreFloPosi: the requests that wait for m, one after the other.     *)

WaitsFor(o, n, m, i) ==
    NextHop[n][o.st.forwards[i].to] = m /\ o.st.forwards[i].status = "FORWARDING"

LEMMA ForwardedType ==
    ASSUME NEW o \in Outcome, NEW n \in Nodes, NEW i \in 1 .. Len(o.st.forwards)
    PROVE  /\ ReceiveNM1FlowCreated(o, n, i) \in Outcome
           /\ Len(ReceiveNM1FlowCreated(o, n, i).st.forwards) = Len(o.st.forwards)
<1> DEFINE x == o.st.forwards[i]
           m == NextHop[n][x.to]
           msg == Req(x.flow, x.to)
           a == WithMark(o, i)
           b == ReceiveNM1FlowCreated(o, n, i)
<1>1. x.flow \in Flows /\ x.to \in Nodes /\ m \in Nodes
  <2>1. o.st.forwards \in Seq(Entry3)
    BY OutcomeFields DEF Entry3
  <2>2. x \in Entry3
    BY <2>1
  <2> QED
    BY <2>2, Constants DEF Entry3
<1>2. msg \in Message /\ IsRequest(msg)
  BY <1>1, ReqAns
<1>3. b = SendPDU(a, m, msg)
  BY DEF ReceiveNM1FlowCreated, WithMark, Req
<1>4. a \in Outcome /\ Len(a.st.forwards) = Len(o.st.forwards)
  BY MarkOutcome
<1> HIDE DEF x, m, msg, a, b
<1>5. b \in Outcome
  BY <1>1, <1>2, <1>3, <1>4, SendPDUDoes
<1>6. SameRecords(a, b)
  <2>1. Alike(a, a)
    BY DEF Alike
  <2> QED
    BY <1>1, <1>2, <1>3, <1>4, <2>1, SendPDUAlike
<1> QED
  BY <1>4, <1>5, <1>6 DEF SameRecords, b

LEMMA WakeForwardsRuns ==
    ASSUME NEW o \in Outcome, NEW n \in Nodes, NEW m, NEW N \in Nat, N = Len(o.st.forwards),
           NEW o2, o2 = WakeForwards(o, n, m)
    PROVE  \E g : /\ g[0] = o /\ g[N] = o2
                  /\ \A k \in 1 .. N :
                        g[k] = IF WaitsFor(o, n, m, k) THEN ReceiveNM1FlowCreated(g[k - 1], n, k)
                               ELSE g[k - 1]
<1> DEFINE X == {a \in Outcome : Len(a.st.forwards) = N}
           act(a, k) == IF WaitsFor(o, n, m, k) THEN ReceiveNM1FlowCreated(a, n, k) ELSE a
           step(k) == [a \in X |-> act(a, k)]
           F == [k \in 1 .. N |-> step(k)]
           Body(g, k) == IF k = 0 THEN o ELSE act(g[k - 1], k)
           Chosen == CHOOSE g : g = [k \in 0 .. N |-> Body(g, k)]
<1>1. \A k \in 1 .. N, a \in X : act(a, k) \in X
  BY ForwardedType
<1> HIDE DEF act
<1>2. \A k \in 1 .. N : step(k) \in [X -> X]
  <2> HIDE DEF X
  <2> QED
    BY <1>1
<1>3. F \in [1 .. N -> [X -> X]]
  <2> HIDE DEF step, X
  <2> QED
    BY <1>2
<1>4. PICK g : Loops(g, N, X, o, F)
  <2>1. o \in X
    OBVIOUS
  <2> HIDE DEF F, step, X
  <2> QED
    BY <1>3, <2>1, Looping
<1>5. /\ g \in [0 .. N -> X] /\ g[0] = o
      /\ \A k \in 1 .. N : g[k] = act(g[k - 1], k)
  <2>1. g \in [0 .. N -> X] /\ g[0] = o /\ \A k \in 1 .. N : g[k] = F[k][g[k - 1]]
    BY <1>4 DEF Loops
  <2> HIDE DEF X
  <2>2. \A k \in 1 .. N : g[k - 1] \in X
    BY <2>1
  <2> QED
    BY <2>1, <2>2
<1>6. g = [k \in 0 .. N |-> Body(g, k)]
  <2> HIDE DEF X
  <2> QED
    BY <1>5
<1>7. Chosen = [k \in 0 .. N |-> Body(Chosen, k)]
  <2> HIDE DEF Body
  <2> QED
    BY <1>6
<1>8. o2 = Chosen[N]
  BY DEF WakeForwards, act, WaitsFor
<1> HIDE DEF Chosen
<1>9. Chosen[0] = o /\ \A k \in 1 .. N : Chosen[k] = act(Chosen[k - 1], k)
  BY <1>7
<1> QED
  BY <1>8, <1>9 DEF act

WokenForwards(p, w, n, o, m, k, a) ==
    /\ Leads(p, w, n, o, a) /\ SameAsks(p, w, n, o, a) /\ NoMoreIdle(o, a)
    /\ Len(a.st.forwards) = Len(o.st.forwards)
    /\ \A j \in 1 .. Len(o.st.forwards) :
          /\ a.st.forwards[j].flow = o.st.forwards[j].flow
          /\ a.st.forwards[j].to = o.st.forwards[j].to
          /\ a.st.forwards[j].status = IF j <= k /\ WaitsFor(o, n, m, j) THEN "FORWARDED"
                                       ELSE o.st.forwards[j].status

LEMMA WakeForwardsDoes ==
    ASSUME NEW p \in Procs, NEW w \in Wires, NEW n \in Nodes, NEW o \in Outcome, GoodAt(p, w, n, o),
           NEW m, NEW o2, o2 = WakeForwards(o, n, m)
    PROVE  /\ Leads(p, w, n, o, o2) /\ SameAsks(p, w, n, o, o2) /\ NoMoreIdle(o, o2)
           /\ \A f \in Flows, d \in Nodes :
                 Waits(ProcOf(p, n, o2), n, f, d) => NextHop[n][d] # m
<1> DEFINE N == Len(o.st.forwards)
<1>1. N \in Nat /\ N = Len(o.st.forwards)
  BY OutcomeFields
<1> HIDE DEF N
<1>2. \E g : /\ g[0] = o /\ g[N] = o2
             /\ \A k \in 1 .. N :
                   g[k] = IF WaitsFor(o, n, m, k) THEN ReceiveNM1FlowCreated(g[k - 1], n, k)
                          ELSE g[k - 1]
  BY <1>1, WakeForwardsRuns
<1>3. PICK g : /\ g[0] = o /\ g[N] = o2
               /\ \A k \in 1 .. N :
                     g[k] = IF WaitsFor(o, n, m, k) THEN ReceiveNM1FlowCreated(g[k - 1], n, k)
                            ELSE g[k - 1]
  BY <1>2
<1> DEFINE T == {k \in 0 .. N : WokenForwards(p, w, n, o, m, k, g[k])}
<1>4. WokenForwards(p, w, n, o, m, 0, o)
  <2>1. Leads(p, w, n, o, o)
    BY LeadsOn
  <2>2. SameAsks(p, w, n, o, o) /\ NoMoreIdle(o, o)
    BY DEF SameAsks, AsksSame, NoMoreIdle
  <2>3. \A j \in 1 .. Len(o.st.forwards) : ~(j <= 0)
    OBVIOUS
  <2> QED
    BY <2>1, <2>2, <2>3 DEF WokenForwards
<1>5. ASSUME NEW k \in 0 .. (N - 1), WokenForwards(p, w, n, o, m, k, g[k])
      PROVE  WokenForwards(p, w, n, o, m, k + 1, g[k + 1])
  <2> DEFINE a == g[k]
             b == g[k + 1]
             i == k + 1
  <2>1. i \in 1 .. N /\ i - 1 = k
    BY <1>1
  <2>2. b = IF WaitsFor(o, n, m, i) THEN ReceiveNM1FlowCreated(a, n, i) ELSE a
    BY <1>3, <2>1
  <2>3. /\ Leads(p, w, n, o, a) /\ SameAsks(p, w, n, o, a) /\ NoMoreIdle(o, a)
        /\ Len(a.st.forwards) = Len(o.st.forwards)
        /\ \A j \in 1 .. Len(o.st.forwards) :
              /\ a.st.forwards[j].flow = o.st.forwards[j].flow
              /\ a.st.forwards[j].to = o.st.forwards[j].to
              /\ a.st.forwards[j].status = IF j <= k /\ WaitsFor(o, n, m, j) THEN "FORWARDED"
                                           ELSE o.st.forwards[j].status
    BY <1>5 DEF WokenForwards
  <2>4. \A j \in 1 .. Len(o.st.forwards) : j <= i <=> j <= k \/ j = i
    BY <1>1
  <2>5. i = k + 1 /\ b = g[i]
    OBVIOUS
  <2> HIDE DEF a, b, i
  <2>6. CASE ~WaitsFor(o, n, m, i)
    <3>1. b = a
      BY <2>2, <2>6
    <3>2. \A j \in 1 .. Len(o.st.forwards) :
              a.st.forwards[j].status = IF j <= i /\ WaitsFor(o, n, m, j) THEN "FORWARDED"
                                        ELSE o.st.forwards[j].status
      BY <2>3, <2>4, <2>6
    <3>3. WokenForwards(p, w, n, o, m, i, b)
      BY <2>3, <3>1, <3>2 DEF WokenForwards
    <3> QED
      BY <2>5, <3>3
  <2>7. CASE WaitsFor(o, n, m, i)
    <3> DEFINE x == a.st.forwards[i]
    <3>1. b = ReceiveNM1FlowCreated(a, n, i) /\ x = a.st.forwards[i]
      BY <2>2, <2>7
    <3>2. a \in Outcome /\ GoodAt(p, w, n, a) /\ i \in 1 .. Len(a.st.forwards)
      BY <1>1, <2>1, <2>3 DEF Leads
    <3> HIDE DEF x
    <3>3. Leads(p, w, n, a, b) /\ SameAsks(p, w, n, a, b) /\ MarkRecords(a, b, i) /\ NoMoreIdle(a, b)
      BY <3>1, <3>2, PartForwarded
    <3>4. Leads(p, w, n, o, b)
      BY <2>3, <3>3, LeadsOn
    <3>5. SameAsks(p, w, n, o, b) /\ NoMoreIdle(o, b)
      BY <2>3, <3>3 DEF SameAsks, AsksSame, NoMoreIdle
    <3>6. Len(b.st.forwards) = Len(o.st.forwards)
      BY <2>3, <3>3 DEF MarkRecords
    <3>7. \A j \in 1 .. Len(o.st.forwards) :
              /\ b.st.forwards[j].flow = o.st.forwards[j].flow
              /\ b.st.forwards[j].to = o.st.forwards[j].to
              /\ b.st.forwards[j].status = IF j <= i /\ WaitsFor(o, n, m, j) THEN "FORWARDED"
                                           ELSE o.st.forwards[j].status
      BY <2>3, <2>4, <2>7, <3>3 DEF MarkRecords
    <3>8. WokenForwards(p, w, n, o, m, i, b)
      BY <3>4, <3>5, <3>6, <3>7 DEF WokenForwards
    <3> QED
      BY <2>5, <3>8
  <2> QED
    BY <2>6, <2>7
<1>6. 0 .. N \subseteq T
  <2>1. 0 \in T
    BY <1>1, <1>3, <1>4
  <2>2. \A k \in 0 .. (N - 1) : k \in T => k + 1 \in T
    <3> SUFFICES ASSUME NEW k \in 0 .. (N - 1), k \in T PROVE k + 1 \in T
      OBVIOUS
    <3>1. k + 1 \in 0 .. N
      BY <1>1
    <3> QED
      BY <1>5, <3>1
  <2> HIDE DEF T
  <2> QED
    BY <1>1, <2>1, <2>2, UpTo
<1>7. WokenForwards(p, w, n, o, m, N, o2)
  <2>1. N \in T
    BY <1>1, <1>6
  <2> QED
    BY <1>3, <2>1
<1>8. ASSUME NEW f \in Flows, NEW d \in Nodes, Waits(ProcOf(p, n, o2), n, f, d), NextHop[n][d] = m
      PROVE  FALSE
  <2>1. ProcOf(p, n, o2)[n] = o2.st
    BY <1>7, ProcType DEF WokenForwards, Leads
  <2>2. PICK i \in 1 .. Len(o2.st.forwards) :
           o2.st.forwards[i].to = d /\ o2.st.forwards[i].status = "FORWARDING"
    BY <1>8, <2>1 DEF Waits
  <2>3. i \in 1 .. Len(o.st.forwards) /\ i <= N
    BY <1>1, <1>7, <2>2 DEF WokenForwards
  <2>4. /\ o2.st.forwards[i].to = o.st.forwards[i].to
        /\ o2.st.forwards[i].status = IF i <= N /\ WaitsFor(o, n, m, i) THEN "FORWARDED"
                                      ELSE o.st.forwards[i].status
    BY <1>7, <2>3 DEF WokenForwards
  <2> QED
    BY <1>8, <2>2, <2>3, <2>4 DEF WaitsFor
<1> QED
  BY <1>7, <1>8 DEF WokenForwards
LEMMA HandleCreated ==
    ASSUME NEW p \in Procs, NEW w \in Wires, NEW n \in Nodes, NEW o \in Outcome, GoodAt(p, w, n, o),
           NEW x \in Nodes, NEW q \in Cubes, LiveAt(p, w, n, o),
           Heads(WireOf(w, n, o), x, n, NM1("nm1created", q)),
           NEW o2, o2 = NM1FlowCreated(o, n, x, q)
    PROVE  /\ Leads(p, w, n, o, o2) /\ LiveAt(p, w, n, o2)
           /\ SettledCreated(ProcOf(p, n, o2), WireOf(w, n, o2), x, n, q)
<1> DEFINE P == ProcOf(p, n, o)
           W == WireOf(w, n, o)
           a == PostNM1FlowAllocation(o, x, q)
           b == WakeFAIs(a, n, q)
           PA == ProcOf(p, n, a)
           WA == WireOf(w, n, a)
           PB == ProcOf(p, n, b)
           WB == WireOf(w, n, b)
           P2 == ProcOf(p, n, o2)
           W2 == WireOf(w, n, o2)
<1>1. o2 = WakeForwards(b, n, x) /\ b = WakeFAIs(a, n, q) /\ a = PostNM1FlowAllocation(o, x, q)
  BY DEF NM1FlowCreated
<1> HIDE DEF a, b
<1>2. Ready(P, x, n, q) /\ Has(P, n, x, q)
  <2>1. W \in Wires /\ Heads(W, x, n, NM1("nm1created", q))
    BY WireType
  <2>2. Base(P, W)
    BY GoodTables
  <2> HIDE DEF P, W
  <2>3. Sent(W, x, n, NM1("nm1created", q))
    BY <2>1, HeadIsSent
  <2>4. Ready(P, x, n, q) /\ Asked(P, n, x, q)
    BY <2>2, <2>3 DEF Base, CreatedIsReady
  <2> QED
    BY <2>4 DEF Asked, Has, AskedT, HasT
<1>3. Leads(p, w, n, o, a) /\ SameRecords(o, a)
  BY <1>1, <1>2, PartPosted
<1>4. Ready(PA, n, x, q) /\ ~IdleT(a.st.table, x, q)
  BY <1>1, <1>2, PartPosted
<1>5. a \in Outcome /\ GoodAt(p, w, n, a)
  BY <1>3 DEF Leads
<1>6. Leads(p, w, n, a, b) /\ Unchanges(a, b)
  BY <1>1, <1>5, WakeFAIsDoes
<1>7. RoutesAgree => \A f \in Flows :
         n = Caller[f] /\ QoS[f] = q /\ Asks(PA, n, f) =>
            Under(PB, WB, n, Way[f][1], Req(f, Callee[f]))
  BY <1>1, <1>5, WakeFAIsDoes
<1>8. b \in Outcome /\ GoodAt(p, w, n, b)
  BY <1>6 DEF Leads
<1>9. Leads(p, w, n, b, o2) /\ SameAsks(p, w, n, b, o2) /\ NoMoreIdle(b, o2)
  BY <1>1, <1>8, WakeForwardsDoes
<1>10. \A f \in Flows, d \in Nodes : Waits(P2, n, f, d) => NextHop[n][d] # x
  BY <1>1, <1>8, WakeForwardsDoes
<1>11. Leads(p, w, n, o, o2) /\ Leads(p, w, n, a, o2) /\ o2 \in Outcome
  <2>1. Leads(p, w, n, a, o2)
    BY <1>6, <1>9, LeadsOn
  <2>2. Leads(p, w, n, o, o2)
    BY <1>3, <2>1, LeadsOn
  <2> QED
    BY <2>1, <2>2 DEF Leads
<1>12. SameAsks(p, w, n, o, a) /\ SameAsks(p, w, n, a, b)
  <2>1. SameAsks(p, w, n, o, a)
    BY <1>3, <1>5, RecordsAsks DEF SameAsks
  <2>2. SameRecords(a, b)
    BY <1>6 DEF Unchanges
  <2>3. SameAsks(p, w, n, a, b)
    BY <1>5, <1>8, <2>2, RecordsAsks DEF SameAsks
  <2> QED
    BY <2>1, <2>3
<1>13. SameAsks(p, w, n, o, o2) /\ AsksSame(PA, P2)
  BY <1>9, <1>12 DEF SameAsks, AsksSame
<1>14. LiveAt(p, w, n, o2)
  BY <1>11, <1>13, SameAsksLives
<1>15. Ready(P2, n, x, q) /\ ~Idle(P2, n, x, q)
  <2>1. P2[n] = o2.st
    BY <1>11, ProcType
  <2>2. ~IdleT(o2.st.table, x, q)
    BY <1>4, <1>6, <1>9 DEF Unchanges, NoMoreIdle
  <2>3. Grows(PA, WA, P2, W2)
    BY <1>11 DEF Leads
  <2> HIDE DEF PA, WA, P2, W2
  <2>4. Ready(P2, n, x, q)
    BY <1>4, <2>3 DEF Grows
  <2> QED
    BY <2>1, <2>2, <2>4 DEF Idle
<1>16. ASSUME RoutesAgree, NEW f \in Flows, n = Caller[f], QoS[f] = q, Asks(P2, n, f)
       PROVE  Under(P2, W2, n, Way[f][1], Req(f, Callee[f]))
  <2>1. Asks(PA, n, f)
    BY <1>13, <1>16 DEF AsksSame
  <2>2. Under(PB, WB, n, Way[f][1], Req(f, Callee[f]))
    BY <1>7, <1>16, <2>1
  <2>3. Grows(PB, WB, P2, W2) /\ Way[f][1] \in Nodes
    BY <1>9, <1>16, FirstHop DEF Leads
  <2> HIDE DEF PB, WB, P2, W2
  <2> QED
    BY <2>2, <2>3 DEF Grows
<1> HIDE DEF P2, W2
<1>17. SettledCreated(P2, W2, x, n, q)
  BY <1>10, <1>15, <1>16 DEF SettledCreated
<1> QED
  BY <1>11, <1>14, <1>17 DEF P2, W2

-----------------------------------------------------------------------------
(* Whatever comes, n settles it. *)

LEMMA Kinds ==
    ASSUME NEW msg \in Message
    PROVE  \/ \E q \in Cubes : \/ msg = NM1("nm1create", q) \/ msg = NM1("nm1created", q)
                               \/ msg = NM1("nm1refused", q)
           \/ \E f \in Flows : \E d \in Nodes : msg = Req(f, d) \/ msg = Ans(f, d)
<1>1. CASE msg \in [kind : {"nm1create", "nm1created", "nm1refused"}, qos : Cubes]
  BY <1>1 DEF NM1
<1>2. CASE msg \in [kind : {"M_CREATE", "M_CREATE_R"}, flow : Flows, to : Nodes]
  BY <1>2 DEF Req, Ans
<1> QED
  BY <1>1, <1>2 DEF Message

LEMMA HandledIs ==
    ASSUME NEW o, NEW n, NEW x
    PROVE  /\ \A q : Handled(o, n, x, NM1("nm1create", q)) = NM1FlowAsked(o, n, x, q)
           /\ \A q : Handled(o, n, x, NM1("nm1created", q)) = NM1FlowCreated(o, n, x, q)
           /\ \A q : Handled(o, n, x, NM1("nm1refused", q)) = NM1FlowRefused(o)
           /\ \A f, d : Handled(o, n, x, Req(f, d)) = ReceiveCreate(o, n, Req(f, d))
           /\ \A f, d : Handled(o, n, x, Ans(f, d)) = ReceiveResponse(o, n, Ans(f, d))
<1>1. /\ \A q : /\ NM1("nm1create", q).kind = "nm1create" /\ NM1("nm1create", q).qos = q
                /\ NM1("nm1created", q).kind = "nm1created" /\ NM1("nm1created", q).qos = q
                /\ NM1("nm1refused", q).kind = "nm1refused"
      /\ \A f, d : Req(f, d).kind = "M_CREATE" /\ Ans(f, d).kind = "M_CREATE_R"
  BY DEF NM1, Req, Ans
<1>2. \A msg : /\ msg.kind = "nm1create" => Handled(o, n, x, msg) = NM1FlowAsked(o, n, x, msg.qos)
               /\ msg.kind = "nm1created" => Handled(o, n, x, msg) = NM1FlowCreated(o, n, x, msg.qos)
               /\ msg.kind = "nm1refused" => Handled(o, n, x, msg) = NM1FlowRefused(o)
               /\ msg.kind = "M_CREATE" => Handled(o, n, x, msg) = ReceiveCreate(o, n, msg)
               /\ msg.kind = "M_CREATE_R" => Handled(o, n, x, msg) = ReceiveResponse(o, n, msg)
  BY DEF Handled
<1> QED
  BY <1>1, <1>2

LEMMA Apart ==
    /\ \A q, f, d : \A k \in {"nm1create", "nm1created", "nm1refused"} :
          NM1(k, q) # Req(f, d) /\ NM1(k, q) # Ans(f, d)
    /\ \A q, r : \A k, j \in {"nm1create", "nm1created", "nm1refused"} :
          NM1(k, q) = NM1(j, r) => k = j /\ q = r
  BY DEF NM1, Req, Ans

LEMMA HandleAny ==
    ASSUME NEW p \in Procs, NEW w \in Wires, NEW n \in Nodes, NEW o \in Outcome, GoodAt(p, w, n, o),
           NEW x \in Nodes, NEW msg, LiveAt(p, w, n, o), Heads(WireOf(w, n, o), x, n, msg),
           NEW o2, o2 = Handled(o, n, x, msg)
    PROVE  /\ Leads(p, w, n, o, o2) /\ LiveAt(p, w, n, o2)
           /\ Settled(ProcOf(p, n, o2), WireOf(w, n, o2), x, n, msg)
<1> DEFINE P2 == ProcOf(p, n, o2)
           W2 == WireOf(w, n, o2)
<1>0. msg \in Message
  BY WireType, HeadIsSent
<1>1. ASSUME NEW q \in Cubes, msg = NM1("nm1create", q)
      PROVE  Leads(p, w, n, o, o2) /\ LiveAt(p, w, n, o2) /\ Settled(P2, W2, x, n, msg)
  <2>1. o2 = NM1FlowAsked(o, n, x, q) /\ Heads(WireOf(w, n, o), x, n, NM1("nm1create", q))
    BY <1>1, HandledIs
  <2>2. Leads(p, w, n, o, o2) /\ LiveAt(p, w, n, o2)
    BY <2>1, HandleAsked
  <2>3. SettledCreate(P2, W2, x, n, q)
    BY <2>1, HandleAsked
  <2> HIDE DEF P2, W2
  <2>4. Settled(P2, W2, x, n, msg)
    BY <1>1, <2>3, Apart DEF Settled
  <2> QED
    BY <2>2, <2>4
<1>2. ASSUME NEW q \in Cubes, msg = NM1("nm1created", q)
      PROVE  Leads(p, w, n, o, o2) /\ LiveAt(p, w, n, o2) /\ Settled(P2, W2, x, n, msg)
  <2>1. o2 = NM1FlowCreated(o, n, x, q) /\ Heads(WireOf(w, n, o), x, n, NM1("nm1created", q))
    BY <1>2, HandledIs
  <2>2. Leads(p, w, n, o, o2) /\ LiveAt(p, w, n, o2)
    BY <2>1, HandleCreated
  <2>3. SettledCreated(P2, W2, x, n, q)
    BY <2>1, HandleCreated
  <2> HIDE DEF P2, W2
  <2>4. Settled(P2, W2, x, n, msg)
    BY <1>2, <2>3, Apart DEF Settled
  <2> QED
    BY <2>2, <2>4
<1>3. ASSUME NEW q \in Cubes, msg = NM1("nm1refused", q)
      PROVE  Leads(p, w, n, o, o2) /\ LiveAt(p, w, n, o2) /\ Settled(P2, W2, x, n, msg)
  <2>1. o2 = NM1FlowRefused(o)
    BY <1>3, HandledIs
  <2>2. Leads(p, w, n, o, o2) /\ LiveAt(p, w, n, o2)
    BY <2>1, HandleRefused
  <2> HIDE DEF P2, W2
  <2>4. Settled(P2, W2, x, n, msg)
    BY <1>3, Apart DEF Settled
  <2> QED
    BY <2>2, <2>4
<1>4. ASSUME NEW f \in Flows, NEW d \in Nodes, msg = Req(f, d)
      PROVE  Leads(p, w, n, o, o2) /\ LiveAt(p, w, n, o2) /\ Settled(P2, W2, x, n, msg)
  <2>1. o2 = ReceiveCreate(o, n, Req(f, d)) /\ Heads(WireOf(w, n, o), x, n, Req(f, d))
    BY <1>4, HandledIs
  <2>2. Leads(p, w, n, o, o2) /\ LiveAt(p, w, n, o2)
    BY <2>1, HandleRequest
  <2>3. d = Callee[f] => SettledReq(P2, W2, x, n, f)
    BY <2>1, HandleRequest
  <2> HIDE DEF P2, W2
  <2>4. Settled(P2, W2, x, n, msg)
    BY <1>4, <2>3, Apart, ReqAns DEF Settled
  <2> QED
    BY <2>2, <2>4
<1>5. ASSUME NEW f \in Flows, NEW d \in Nodes, msg = Ans(f, d)
      PROVE  Leads(p, w, n, o, o2) /\ LiveAt(p, w, n, o2) /\ Settled(P2, W2, x, n, msg)
  <2>1. o2 = ReceiveResponse(o, n, Ans(f, d)) /\ Heads(WireOf(w, n, o), x, n, Ans(f, d))
    BY <1>5, HandledIs
  <2>2. Leads(p, w, n, o, o2) /\ LiveAt(p, w, n, o2)
    BY <2>1, HandleResponse
  <2>3. SettledAns(P2, W2, x, n, f)
    BY <2>1, HandleResponse
  <2> HIDE DEF P2, W2
  <2>4. Settled(P2, W2, x, n, msg)
    BY <1>5, <2>3, Apart, ReqAns DEF Settled
  <2> QED
    BY <2>2, <2>4
<1> QED
  BY <1>0, <1>1, <1>2, <1>3, <1>4, <1>5, Kinds
-----------------------------------------------------------------------------
(* What was settled is taken away. *)

Popped(w, w3, x, n) ==
    /\ w3 \in Wires /\ w[x][n] # <<>>
    /\ \A a, b \in Nodes : w3[a][b] = IF a = x /\ b = n THEN Tail(w[a][b]) ELSE w[a][b]

LEMMA PoppedSent ==
    ASSUME NEW w \in Wires, NEW w3, NEW x \in Nodes, NEW n \in Nodes, Popped(w, w3, x, n),
           NEW msg, Heads(w, x, n, msg), NEW a \in Nodes, NEW b \in Nodes
    PROVE  /\ \A m : Sent(w3, a, b, m) => Sent(w, a, b, m)
           /\ \A m : Sent(w, a, b, m) => Sent(w3, a, b, m) \/ (a = x /\ b = n /\ m = msg)
           /\ \A S, m : Covered(w, a, b, S, m) /\ (a = x /\ b = n => msg \notin S)
                           => Covered(w3, a, b, S, m)
<1> DEFINE s == w[a][b]
<1>1. s \in Seq(Message) /\ w3[a][b] = IF a = x /\ b = n THEN Tail(s) ELSE s
  BY DEF Wires, Popped
<1>2. CASE ~(a = x /\ b = n)
  BY <1>1, <1>2 DEF Sent, Covered
<1>3. CASE a = x /\ b = n
  <2>1. s # <<>> /\ Head(s) = msg
    BY <1>3 DEF Heads
  <2> HIDE DEF s
  <2>2. \A m : SentS(s, m) <=> m = msg \/ SentS(Tail(s), m)
    BY <1>1, <2>1, TailSent
  <2>3. \A S, m : CoveredS(s, S, m) /\ msg \notin S => CoveredS(Tail(s), S, m)
    BY <1>1, <2>1, TailSent
  <2>4. s = w[a][b] /\ w3[a][b] = Tail(s)
    BY <1>1, <1>3 DEF s
  <2>5. \A m : Sent(w3, a, b, m) => Sent(w, a, b, m)
    BY <2>2, <2>4 DEF Sent
  <2>6. \A m : Sent(w, a, b, m) => Sent(w3, a, b, m) \/ (a = x /\ b = n /\ m = msg)
    BY <1>3, <2>2, <2>4 DEF Sent
  <2>7. \A S, m : Covered(w, a, b, S, m) /\ (a = x /\ b = n => msg \notin S)
                           => Covered(w3, a, b, S, m)
    BY <1>3, <2>3, <2>4 DEF Covered
  <2> QED
    BY <2>5, <2>6, <2>7
<1> QED
  BY <1>2, <1>3

LEMMA PoppedUnder ==
    ASSUME NEW p, NEW w \in Wires, NEW w3, NEW x \in Nodes, NEW n \in Nodes, Popped(w, w3, x, n),
           NEW msg, Heads(w, x, n, msg), NEW a \in Nodes, NEW b \in Nodes
    PROVE  /\ \A m : Under(p, w3, a, b, m) => Under(p, w, a, b, m)
           /\ \A m : Under(p, w, a, b, m) => Under(p, w3, a, b, m) \/ (a = x /\ b = n /\ m = msg)
<1>1. \A m : Sent(w3, a, b, m) => Sent(w, a, b, m)
  BY PoppedSent
<1>2. \A m : Sent(w, a, b, m) => Sent(w3, a, b, m) \/ (a = x /\ b = n /\ m = msg)
  BY PoppedSent
<1> QED
  BY <1>1, <1>2 DEF Under

(* What is awaited is awaited still, unless it was what was settled.       *)
LEMMA PoppedAwaited ==
    ASSUME NEW p, NEW w \in Wires, NEW w3, NEW x \in Nodes, NEW n \in Nodes, Popped(w, w3, x, n),
           NEW msg, Heads(w, x, n, msg), Settled(p, w, x, n, msg),
           NEW a \in Nodes, NEW b \in Nodes, NEW q \in Cubes, Awaited(w, a, b, q)
    PROVE  Awaited(w3, a, b, q) \/ (a = n /\ b = x /\ msg = NM1("nm1created", q))
<1> DEFINE cr == NM1("nm1create", q)
           cd == NM1("nm1created", q)
<1>0. \A y, z \in Nodes : \A m : Sent(w, y, z, m) => Sent(w3, y, z, m) \/ (y = x /\ z = n /\ m = msg)
  BY PoppedSent
<1>1. cr # cd
  BY NM1NotRequest
<1>2. Sent(w, a, b, cr) => Sent(w3, a, b, cr) \/ (a = x /\ b = n /\ cr = msg)
  BY <1>0
<1>3. Sent(w, b, a, cd) => Sent(w3, b, a, cd) \/ (b = x /\ a = n /\ cd = msg)
  BY <1>0
<1>4. ASSUME a = x, b = n, cr = msg PROVE IsRefused(a, b, q) \/ Sent(w3, b, a, cd)
  <2>1. IsRefused(x, n, q) \/ Sent(w, n, x, cd)
    BY <1>4 DEF Settled, SettledCreate
  <2>2. Sent(w, n, x, cd) => Sent(w3, n, x, cd) \/ cd = msg
    BY <1>0
  <2> QED
    BY <1>1, <1>4, <2>1, <2>2
<1> HIDE DEF cr, cd
<1>5. IsRefused(a, b, q) \/ Sent(w, a, b, cr) \/ Sent(w, b, a, cd)
  BY DEF Awaited, cr, cd
<1>6. \/ IsRefused(a, b, q) \/ Sent(w3, a, b, cr) \/ Sent(w3, b, a, cd)
      \/ (a = n /\ b = x /\ msg = cd)
  BY <1>2, <1>3, <1>4, <1>5
<1> QED
  BY <1>6 DEF Awaited, cr, cd

LEMMA PoppedBase ==
    ASSUME NEW p, NEW w, NEW w3, NEW x \in Nodes, NEW n \in Nodes, Popped(w, w3, x, n),
           NEW msg, Heads(w, x, n, msg), Settled(p, w, x, n, msg), Base(p, w)
    PROVE  Base(p, w3)
<1>1. /\ p \in Procs /\ w \in Wires /\ w3 \in Wires /\ TablesOK(p) /\ EnteredAgrees(p)
      /\ CreateIsAsked(p, w) /\ CreatedIsReady(p, w) /\ ItemIsMatched(p, w)
      /\ ReadyIsMatched(p, w) /\ IdleIsAwaited(p, w) /\ WaitIsAwaited(p, w)
  BY DEF Base, Popped
<1>2. \A a, b \in Nodes : \A m : Sent(w3, a, b, m) => Sent(w, a, b, m)
  BY <1>1, PoppedSent
<1>3. \A a, b \in Nodes : \A m : Sent(w, a, b, m) => Sent(w3, a, b, m) \/ (a = x /\ b = n /\ m = msg)
  BY <1>1, PoppedSent
<1>4. CreateIsAsked(p, w3)
  BY <1>1, <1>2 DEF CreateIsAsked
<1>5. CreatedIsReady(p, w3)
  BY <1>1, <1>2 DEF CreatedIsReady
<1>6. \A q \in Cubes :
         /\ NM1("nm1create", q) = msg => IsRefused(x, n, q) \/ Ready(p, n, x, q)
         /\ NM1("nm1created", q) = msg => Ready(p, n, x, q) /\ ~Idle(p, n, x, q)
  BY DEF Settled, SettledCreate, SettledCreated
<1>7. ItemIsMatched(p, w3)
  BY <1>1, <1>3, <1>6 DEF ItemIsMatched
<1>8. ReadyIsMatched(p, w3)
  BY <1>1, <1>3, <1>6 DEF ReadyIsMatched
<1>9. \A a, b \in Nodes, q \in Cubes :
         Awaited(w, a, b, q) => Awaited(w3, a, b, q) \/ (a = n /\ b = x /\ msg = NM1("nm1created", q))
  BY <1>1, PoppedAwaited
<1>10. IdleIsAwaited(p, w3)
  BY <1>1, <1>6, <1>9 DEF IdleIsAwaited
<1>11. WaitIsAwaited(p, w3)
  <2> SUFFICES ASSUME NEW a \in Nodes, NEW f \in Flows, NEW d \in Nodes, Waits(p, a, f, d)
               PROVE  Awaited(w3, a, NextHop[a][d], QoS[f])
    BY DEF WaitIsAwaited
  <2> DEFINE b == NextHop[a][d]
             q == QoS[f]
  <2>1. b \in Nodes /\ q \in Cubes /\ Awaited(w, a, b, q)
    BY <1>1, Constants, QoSIsCube DEF WaitIsAwaited
  <2>2. a = n /\ msg = NM1("nm1created", q) => b # x
    BY <2>1 DEF Settled, SettledCreated
  <2> HIDE DEF b, q
  <2>3. Awaited(w3, a, b, q)
    BY <1>9, <2>1, <2>2
  <2> QED
    BY <2>3 DEF b, q
<1> QED
  BY <1>1, <1>4, <1>5, <1>7, <1>8, <1>10, <1>11 DEF Base

LEMMA PoppedFlow ==
    ASSUME NEW p, NEW w \in Wires, NEW w3, NEW x \in Nodes, NEW n \in Nodes, Popped(w, w3, x, n),
           NEW msg, Heads(w, x, n, msg), Settled(p, w, x, n, msg),
           RoutesAgree, NEW f \in Flows, FlowOK(p, w, f)
    PROVE  FlowOK(p, w3, f)
<1> DEFINE q == QoS[f]
<1>1. q \in Cubes
  BY QoSIsCube
<1>2. \A a, b \in Nodes : \A m : Under(p, w3, a, b, m) => Under(p, w, a, b, m)
  BY PoppedUnder
<1>3. NM1("nm1create", q) = msg => IsRefused(x, n, q) \/ Ready(p, n, x, q)
  BY <1>1 DEF Settled, SettledCreate
<1>4. NM1("nm1created", q) = msg => Ready(p, n, x, q)
  BY <1>1 DEF Settled, SettledCreated
<1>5. \A a, b \in Nodes : \A S, m :
         Covered(w, a, b, S, m) /\ (a = x /\ b = n => msg \notin S) => Covered(w3, a, b, S, m)
  BY PoppedSent
<1>6. RequestIsPreceded(p, w3, f)
  <2> SUFFICES ASSUME NEW a \in Nodes, NEW b \in Nodes
               PROVE  \/ Ready(p, b, a, q) \/ IsRefused(a, b, q)
                      \/ Covered(w3, a, b, Announces(q), Req(f, Callee[f]))
    BY DEF RequestIsPreceded
  <2>1. \/ Ready(p, b, a, q) \/ IsRefused(a, b, q)
        \/ Covered(w, a, b, Announces(q), Req(f, Callee[f]))
    BY DEF FlowOK, RequestIsPreceded
  <2>2. msg \in Announces(q) => IsRefused(x, n, q) \/ Ready(p, n, x, q)
    BY <1>3, <1>4 DEF Announces
  <2> HIDE DEF q
  <2> QED
    BY <1>5, <2>1, <2>2
<1>7. AnswerIsPreceded(p, w3, f)
  <2> SUFFICES ASSUME NEW k \in 1 .. Length(f)
               PROVE  \/ Exempt(f, k) \/ Forth(p, f, k)
                      \/ Covered(w3, Way[f][k], Way[f][k - 1], {NM1("nm1created", QoS[f])},
                                 Ans(f, Caller[f]))
    BY DEF AnswerIsPreceded
  <2> DEFINE a == Way[f][k]
             b == Way[f][k - 1]
             S == {NM1("nm1created", q)}
             m == Ans(f, Caller[f])
  <2>1. a \in Nodes /\ b \in Nodes
    BY WayHop
  <2>2. Exempt(f, k) \/ Forth(p, f, k) \/ Covered(w, a, b, S, m)
    BY DEF FlowOK, AnswerIsPreceded
  <2>3. a = x /\ b = n /\ msg \in S => Forth(p, f, k)
    BY <1>4 DEF Forth
  <2> HIDE DEF a, b, S, m
  <2>4. Exempt(f, k) \/ Forth(p, f, k) \/ Covered(w3, a, b, S, m)
    BY <1>5, <2>1, <2>2, <2>3
  <2> QED
    BY <2>4 DEF a, b, S, m
<1> QED
  BY <1>2, <1>6, <1>7 DEF FlowOK

LEMMA PoppedLive ==
    ASSUME NEW p, NEW w \in Wires, NEW w3, NEW x \in Nodes, NEW n \in Nodes, Popped(w, w3, x, n),
           NEW msg, Heads(w, x, n, msg), Settled(p, w, x, n, msg),
           NEW f \in Flows, LiveOK(p, w, f)
    PROVE  LiveOK(p, w3, f)
<1> SUFFICES ASSUME RoutesAgree, Clear(f)
             PROVE  /\ Asks(p, Caller[f], f) => Coming(p, w3, f) \/ Asks(p, Callee[f], f)
                    /\ Asks(p, Callee[f], f) =>
                          Up(p, Callee[f], f) /\ (Up(p, Caller[f], f) \/ Returning(p, w3, f))
  BY DEF LiveOK
<1>1. /\ Asks(p, Caller[f], f) => Coming(p, w, f) \/ Asks(p, Callee[f], f)
      /\ Asks(p, Callee[f], f) =>
            Up(p, Callee[f], f) /\ (Up(p, Caller[f], f) \/ Returning(p, w, f))
  BY DEF LiveOK
<1> DEFINE rq == Req(f, Callee[f])
           an == Ans(f, Caller[f])
           q == QoS[f]
<1>2. \A a, b \in Nodes : \A m : Under(p, w, a, b, m) => Under(p, w3, a, b, m) \/ (a = x /\ b = n /\ m = msg)
  BY PoppedUnder
<1>3. \A k \in 1 .. Length(f) : Way[f][k] \in Nodes /\ Way[f][k - 1] \in Nodes
  BY WayHop
<1>4. /\ 1 \in 1 .. Length(f) /\ 1 - 1 = 0 /\ Way[f][0] = Caller[f]
      /\ Way[f][1] \in Nodes /\ Caller[f] \in Nodes /\ q \in Cubes
  BY FirstHop, Constants, QoSIsCube
<1>5. ASSUME msg = rq, ~Asks(p, Callee[f], f) PROVE Coming(p, w3, f)
  <2>1. RequestMoves(p, w, x, n, f)
    BY <1>5 DEF Settled, SettledReq
  <2>2. PICK k \in 1 .. Length(f) :
           n = Way[f][k - 1] /\ (Under(p, w, n, Way[f][k], rq) \/ Waits(p, n, f, Callee[f]))
    BY <2>1 DEF RequestMoves
  <2>3. x # n
    BY <2>1 DEF RequestMoves
  <2>4. Under(p, w, n, Way[f][k], rq) => Under(p, w3, n, Way[f][k], rq)
    BY <1>2, <1>3, <2>3
  <2> QED
    BY <2>2, <2>4 DEF Coming
<1>6. ASSUME Asks(p, Caller[f], f), Coming(p, w, f), ~Asks(p, Callee[f], f) PROVE Coming(p, w3, f)
  <2>1. CASE Awaited(w, Caller[f], Way[f][1], q)
    <3>1. \/ Awaited(w3, Caller[f], Way[f][1], q)
          \/ Caller[f] = n /\ Way[f][1] = x /\ msg = NM1("nm1created", q)
      BY <1>4, <2>1, PoppedAwaited
    <3>2. CASE Awaited(w3, Caller[f], Way[f][1], q)
      BY <3>2 DEF Coming
    <3>3. CASE Caller[f] = n /\ Way[f][1] = x /\ msg = NM1("nm1created", q)
      <4>1. Under(p, w, n, x, rq)
        BY <1>4, <1>6, <3>3 DEF Settled, SettledCreated
      <4>2. rq # msg
        BY <3>3, Apart
      <4>3. Under(p, w3, n, x, rq)
        BY <1>2, <4>1, <4>2
      <4>4. Under(p, w3, Way[f][1 - 1], Way[f][1], rq)
        BY <1>4, <3>3, <4>3
      <4> QED
        BY <1>4, <4>4 DEF Coming
    <3> QED
      BY <3>1, <3>2, <3>3
  <2>2. CASE \E k \in 1 .. Length(f) : \/ Under(p, w, Way[f][k - 1], Way[f][k], rq)
                                       \/ Waits(p, Way[f][k - 1], f, Callee[f])
    <3>1. PICK k \in 1 .. Length(f) : \/ Under(p, w, Way[f][k - 1], Way[f][k], rq)
                                      \/ Waits(p, Way[f][k - 1], f, Callee[f])
      BY <2>2
    <3>2. Under(p, w, Way[f][k - 1], Way[f][k], rq) =>
             Under(p, w3, Way[f][k - 1], Way[f][k], rq) \/ msg = rq
      BY <1>2, <1>3
    <3> QED
      BY <1>5, <1>6, <3>1, <3>2 DEF Coming
  <2> QED
    BY <1>6, <2>1, <2>2 DEF Coming
<1>7. ASSUME Returning(p, w, f), ~Up(p, Caller[f], f) PROVE Returning(p, w3, f)
  <2>1. PICK k \in 1 .. Length(f) : Under(p, w, Way[f][k], Way[f][k - 1], an)
    BY <1>7 DEF Returning
  <2>2. Under(p, w3, Way[f][k], Way[f][k - 1], an) \/ msg = an
    BY <1>2, <1>3, <2>1
  <2>3. CASE msg = an
    <3>1. AnswerMoves(p, w, x, n, f)
      BY <1>7, <2>3 DEF Settled, SettledAns
    <3>2. PICK j \in 1 .. Length(f) : n = Way[f][j] /\ Under(p, w, n, Way[f][j - 1], an)
      BY <3>1 DEF AnswerMoves
    <3>3. x # n
      BY <3>1 DEF AnswerMoves
    <3>4. Under(p, w3, Way[f][j], Way[f][j - 1], an)
      BY <1>2, <1>3, <3>2, <3>3
    <3> QED
      BY <3>4 DEF Returning
  <2> QED
    BY <2>2, <2>3 DEF Returning
<1> QED
  BY <1>1, <1>6, <1>7

LEMMA PoppedWorld ==
    ASSUME NEW p, NEW w, NEW w3, NEW x \in Nodes, NEW n \in Nodes, Popped(w, w3, x, n),
           NEW msg, Heads(w, x, n, msg), Settled(p, w, x, n, msg), Good(p, w), Live(p, w)
    PROVE  Good(p, w3) /\ Live(p, w3)
<1>1. Base(p, w) /\ w \in Wires
  BY DEF Good, Base
<1>2. Base(p, w3)
  BY <1>1, PoppedBase
<1>3. RoutesAgree => \A f \in Flows : FlowOK(p, w3, f)
  BY <1>1, PoppedFlow DEF Good
<1>4. \A f \in Flows : LiveOK(p, w3, f)
  BY <1>1, PoppedLive DEF Live
<1> QED
  BY <1>2, <1>3, <1>4 DEF Good, Live
-----------------------------------------------------------------------------
(* The steps. *)

Start(p, n) == [st |-> p[n], out |-> Nothing]
Taken(w, x, n) == [w EXCEPT ![x][n] = Tail(@)]

LEMMA Starting ==
    ASSUME NEW p \in Procs, NEW w \in Wires, NEW n \in Nodes, NEW o, o = Start(p, n)
    PROVE  o \in Outcome /\ ProcOf(p, n, o) = p /\ WireOf(w, n, o) = w
<1>0. \A y \in Nodes : Nothing[y] = <<>>
  BY DEF Nothing
<1>1. Nothing \in [Nodes -> Seq(Message)]
  BY DEF Nothing
<1>2. p[n] \in Allocators
  BY DEF Procs
<1>3. o \in Outcome /\ o.st = p[n] /\ o.out = Nothing
  <2> HIDE DEF Nothing
  <2> QED
    BY <1>1, <1>2 DEF Outcome, Start
<1>4. ProcOf(p, n, o) = p
  <2> HIDE DEF Nothing
  <2>1. ProcOf(p, n, o) = [p EXCEPT ![n] = p[n]]
    BY <1>3 DEF ProcOf
  <2> QED
    BY <2>1 DEF Procs
<1>5. \A x, y \in Nodes : WireOf(w, n, o)[x][y] = w[x][y]
  <2> SUFFICES ASSUME NEW x \in Nodes, NEW y \in Nodes PROVE WireOf(w, n, o)[x][y] = w[x][y]
    OBVIOUS
  <2>1. WireOf(w, n, o)[x][y] = IF x = n THEN Then(w[x][y], o.out[y]) ELSE w[x][y]
    BY <1>3, WireType
  <2>2. w[x][y] \in Seq(Message)
    BY DEF Wires
  <2>3. \A s \in Seq(Message) : Then(s, <<>>) = s
    BY DEF Then
  <2>4. o.out[y] = <<>>
    BY <1>0, <1>3
  <2>5. Then(w[x][y], o.out[y]) = w[x][y]
    BY <2>2, <2>3, <2>4
  <2> QED
    BY <2>1, <2>5
<1>6. WireOf(w, n, o) = w
  <2>1. WireOf(w, n, o) \in Wires
    BY <1>3, WireType
  <2>2. \A v, u \in Wires : (\A x, y \in Nodes : v[x][y] = u[x][y]) => v = u
    <3> SUFFICES ASSUME NEW v \in Wires, NEW u \in Wires, \A x, y \in Nodes : v[x][y] = u[x][y]
                 PROVE  v = u
      OBVIOUS
    <3>1. \A x \in Nodes : v[x] \in [Nodes -> Seq(Message)] /\ u[x] \in [Nodes -> Seq(Message)]
      BY DEF Wires
    <3>2. \A x \in Nodes : v[x] = u[x]
      BY <3>1
    <3> QED
      BY <3>2 DEF Wires
  <2> QED
    BY <1>5, <2>1, <2>2
<1> QED
  BY <1>3, <1>4, <1>6

LEMMA TakenType ==
    ASSUME NEW w \in Wires, NEW x \in Nodes, NEW n \in Nodes, w[x][n] # <<>>
    PROVE  /\ Taken(w, x, n) \in Wires
           /\ \A a, b \in Nodes :
                 Taken(w, x, n)[a][b] = IF a = x /\ b = n THEN Tail(w[a][b]) ELSE w[a][b]
<1> DEFINE t == Tail(w[x][n])
           r == [w[x] EXCEPT ![n] = t]
<1>1. w[x] \in [Nodes -> Seq(Message)] /\ t \in Seq(Message)
  BY DEF Wires
<1>2. Taken(w, x, n) = [w EXCEPT ![x] = r]
  BY DEF Taken
<1> HIDE DEF t
<1>3. r \in [Nodes -> Seq(Message)] /\ \A b \in Nodes : r[b] = IF b = n THEN t ELSE w[x][b]
  BY <1>1
<1> HIDE DEF r
<1>4. Taken(w, x, n) \in Wires /\ \A a \in Nodes : Taken(w, x, n)[a] = IF a = x THEN r ELSE w[a]
  BY <1>2, <1>3 DEF Wires
<1> QED
  BY <1>3, <1>4 DEF t

LEMMA TakenFirst ==
    ASSUME NEW w \in Wires, NEW x \in Nodes, NEW n \in Nodes, w[x][n] # <<>>, NEW o \in Outcome
    PROVE  /\ Popped(WireOf(w, n, o), WireOf(Taken(w, x, n), n, o), x, n)
           /\ Heads(WireOf(w, n, o), x, n, Head(w[x][n]))
<1> DEFINE v == Taken(w, x, n)
           W == WireOf(w, n, o)
           V == WireOf(v, n, o)
<1>1. /\ v \in Wires
      /\ \A a, b \in Nodes : v[a][b] = IF a = x /\ b = n THEN Tail(w[a][b]) ELSE w[a][b]
  BY TakenType
<1> HIDE DEF v
<1>2. /\ \A a, b \in Nodes : W[a][b] = IF a = n THEN Then(w[a][b], o.out[b]) ELSE w[a][b]
  BY WireType
<1>3. /\ V \in Wires
      /\ \A a, b \in Nodes : V[a][b] = IF a = n THEN Then(v[a][b], o.out[b]) ELSE v[a][b]
  BY <1>1, WireType
<1> HIDE DEF W, V
<1>4. /\ \A a, b \in Nodes : w[a][b] \in Seq(Message)
      /\ \A b \in Nodes : o.out[b] \in Seq(Message)
  BY OutcomeFields DEF Wires
<1>5. \A s, u \in Seq(Message) : s # <<>> =>
         Then(s, u) # <<>> /\ Tail(Then(s, u)) = Then(Tail(s), u) /\ Head(Then(s, u)) = Head(s)
  BY ConcatSent DEF Then
<1>6. W[x][n] # <<>> /\ Head(W[x][n]) = Head(w[x][n])
  <2>1. CASE x = n
    BY <1>2, <1>4, <1>5, <2>1
  <2>2. CASE x # n
    BY <1>2, <2>2
  <2> QED
    BY <2>1, <2>2
<1>7. ASSUME NEW a \in Nodes, NEW b \in Nodes
      PROVE  V[a][b] = IF a = x /\ b = n THEN Tail(W[a][b]) ELSE W[a][b]
  <2>1. CASE ~(a = x /\ b = n)
    <3>1. v[a][b] = w[a][b]
      BY <1>1, <2>1
    <3> QED
      BY <1>2, <1>3, <2>1, <3>1
  <2>2. CASE a = x /\ b = n
    <3>1. v[a][b] = Tail(w[a][b]) /\ w[a][b] # <<>>
      BY <1>1, <2>2
    <3>2. a = n => V[a][b] = Then(Tail(w[a][b]), o.out[b]) /\ W[a][b] = Then(w[a][b], o.out[b])
      BY <1>2, <1>3, <3>1
    <3>3. Tail(Then(w[a][b], o.out[b])) = Then(Tail(w[a][b]), o.out[b])
      BY <1>4, <1>5, <3>1
    <3>4. a # n => V[a][b] = Tail(w[a][b]) /\ W[a][b] = w[a][b]
      BY <1>2, <1>3, <3>1
    <3>5. V[a][b] = Tail(W[a][b])
      BY <3>2, <3>3, <3>4
    <3> QED
      BY <2>2, <3>5
  <2> QED
    BY <2>1, <2>2
<1>8. Popped(W, V, x, n)
  BY <1>3, <1>6, <1>7 DEF Popped
<1>9. Heads(W, x, n, Head(w[x][n]))
  BY <1>6 DEF Heads
<1> QED
  BY <1>8, <1>9 DEF W, V, v

LEMMA ArriveKeeps ==
    ASSUME NEW p, NEW w, Good(p, w), Live(p, w), NEW x \in Nodes, NEW n \in Nodes, w[x][n] # <<>>,
           NEW o, o = Handled(Start(p, n), n, x, Head(w[x][n]))
    PROVE  /\ Good(ProcOf(p, n, o), WireOf(Taken(w, x, n), n, o))
           /\ Live(ProcOf(p, n, o), WireOf(Taken(w, x, n), n, o))
<1> DEFINE s == Start(p, n)
           msg == Head(w[x][n])
<1>1. p \in Procs /\ w \in Wires
  BY DEF Good, Base
<1>2. s \in Outcome /\ ProcOf(p, n, s) = p /\ WireOf(w, n, s) = w
  BY <1>1, Starting
<1>3. GoodAt(p, w, n, s) /\ LiveAt(p, w, n, s) /\ Heads(WireOf(w, n, s), x, n, msg)
  BY <1>2 DEF GoodAt, LiveAt, Heads
<1>4. o = Handled(s, n, x, msg) /\ msg = Head(w[x][n])
  OBVIOUS
<1> HIDE DEF s, msg
<1>5. Leads(p, w, n, s, o) /\ LiveAt(p, w, n, o)
  BY <1>1, <1>2, <1>3, <1>4, HandleAny
<1>6. Settled(ProcOf(p, n, o), WireOf(w, n, o), x, n, msg)
  BY <1>1, <1>2, <1>3, <1>4, HandleAny
<1>7. o \in Outcome /\ Good(ProcOf(p, n, o), WireOf(w, n, o)) /\ Live(ProcOf(p, n, o), WireOf(w, n, o))
  BY <1>5 DEF Leads, GoodAt, LiveAt
<1>8. Popped(WireOf(w, n, o), WireOf(Taken(w, x, n), n, o), x, n)
  BY <1>1, <1>7, TakenFirst
<1>9. Heads(WireOf(w, n, o), x, n, msg)
  BY <1>1, <1>4, <1>7, TakenFirst
<1> QED
  BY <1>6, <1>7, <1>8, <1>9, PoppedWorld

LEMMA AllocateKeeps ==
    ASSUME NEW p, NEW w, Good(p, w), Live(p, w), NEW f \in Flows, NEW n, n = Caller[f],
           p[n].status[f] = "none",
           NEW o, o = ReceiveAllocateRequest(Start(p, n), n, f)
    PROVE  /\ Good(ProcOf(p, n, o), WireOf(w, n, o))
           /\ Live(ProcOf(p, n, o), WireOf(w, n, o))
<1> DEFINE s == Start(p, n)
<1>1. p \in Procs /\ w \in Wires /\ n \in Nodes
  BY Constants DEF Good, Base
<1>2. s \in Outcome /\ ProcOf(p, n, s) = p /\ WireOf(w, n, s) = w
  BY <1>1, Starting
<1>3. GoodAt(p, w, n, s) /\ LiveAt(p, w, n, s) /\ ~Asks(ProcOf(p, n, s), n, f)
  BY <1>2 DEF GoodAt, LiveAt, Asks
<1>4. o = ReceiveAllocateRequest(s, n, f)
  OBVIOUS
<1> HIDE DEF s
<1>5. Leads(p, w, n, s, o) /\ LiveAt(p, w, n, o)
  BY <1>1, <1>2, <1>3, <1>4, HandleAllocate
<1> QED
  BY <1>5 DEF Leads, GoodAt, LiveAt
-----------------------------------------------------------------------------
(* The first state: what was preallocated has been asked for.              *)

(* Preallocation k is an (N-1)-flow to m in cube q. *)
Asking(s, k, m, q) == s[k][2] = m /\ s[k][3] = q
AsksOnce(s) ==
    \A i, j \in 1 .. Len(s) : \A m, q : Asking(s, i, m, q) /\ Asking(s, j, m, q) => i = j

(* The first k of the preallocations s have been asked for. *)
Prepared(a, s, k) ==
    /\ a \in Outcome /\ TableOK(a.st.table)
    /\ a.st.status = InitAllocators.status /\ a.st.entered = InitAllocators.entered
    /\ a.st.forwards = NoMessages
    /\ \A y, r : HasT(a.st.table, y, r) => \E j \in 1 .. k : Asking(s, j, y, r)
    /\ \A y, r : ~ReadyT(a.st.table, y, r)
    /\ \A y, msg : ~KeptT(a.st.table, y, msg)
    /\ \A y \in Nodes : \A r :
          HasT(a.st.table, y, r) => SentS(a.out[y], NM1("nm1create", r))
    /\ \A y \in Nodes : \A msg :
          SentS(a.out[y], msg) => \E r : msg = NM1("nm1create", r) /\ AskedT(a.st.table, y, r)

Preallocation(n) == {t \in config.preallocated : t[1] = n}

LEMMA PreallocationType ==
    ASSUME config \in Configurations, NEW n \in Nodes,
           NEW s, s = SetToSeq(Preallocation(n))
    PROVE  /\ s \in Seq(Preallocation(n)) /\ Len(s) \in Nat
           /\ \A k \in 1 .. Len(s) : s[k][2] \in Nodes /\ s[k][3] \in Cubes
           /\ AsksOnce(s)
<1>1. config.preallocated \subseteq Nodes \X Nodes \X Cubes /\ IsFiniteSet(config.preallocated)
  BY AllocationAssumption
<1>2. IsFiniteSet(Preallocation(n))
  BY <1>1, FS_Subset DEF Preallocation
<1>3. /\ s \in Seq(Preallocation(n)) /\ Len(s) \in Nat
      /\ \A i, j \in 1 .. Len(s) : s[i] = s[j] => i = j
  BY <1>2, SetToSeqIsInjective
<1>4. \A k \in 1 .. Len(s) : s[k] \in Preallocation(n)
  BY <1>3
<1>5. \A t \in Preallocation(n) : t \in Nodes \X Nodes \X Cubes /\ t[1] = n
  BY <1>1 DEF Preallocation
<1>6. \A k \in 1 .. Len(s) : s[k] \in Nodes \X Nodes \X Cubes /\ s[k][1] = n
  BY <1>4, <1>5
<1>7. \A t, u \in Nodes \X Nodes \X Cubes :
         /\ t[2] \in Nodes /\ t[3] \in Cubes
         /\ t[1] = u[1] /\ t[2] = u[2] /\ t[3] = u[3] => t = u
  OBVIOUS
<1>8. AsksOnce(s)
  BY <1>3, <1>6, <1>7 DEF AsksOnce, Asking
<1> QED
  BY <1>3, <1>6, <1>7, <1>8

LEMMA PreparedFirst ==
    ASSUME NEW s, NEW a, a = [st |-> InitAllocators, out |-> Nothing]
    PROVE  Prepared(a, s, 0)
<1>1. InitAllocators \in Allocators
  BY DEF InitAllocators, Allocators
<1>2. Nothing \in [Nodes -> Seq(Message)] /\ \A y \in Nodes : Len(Nothing[y]) = 0
  BY DEF Nothing
<1>3. /\ InitAllocators.forwards = NoMessages
      /\ InitAllocators.table \in Seq(Item) /\ Len(InitAllocators.table) = 0
  BY DEF InitAllocators, NoMessages
<1>4. a \in Outcome /\ a.st = InitAllocators /\ a.out = Nothing
  <2> HIDE DEF InitAllocators, Nothing
  <2> QED
    BY <1>1, <1>2 DEF Outcome
<1> DEFINE t == a.st.table
<1>5. Len(t) = 0
  BY <1>3, <1>4
<1>6. TableOK(t)
  BY <1>5 DEF TableOK, OwnFirst, OthersReady, ReadyKeepsNothing, KeepsRequests,
              EstablishedIsReady, ReadyIsEstablished
<1>7. \A y, r : ~HasT(t, y, r) /\ ~ReadyT(t, y, r)
  BY <1>5 DEF HasT, ReadyT
<1>8. \A y, msg : ~KeptT(t, y, msg)
  BY <1>5 DEF KeptT
<1>9. \A y \in Nodes : \A msg : ~SentS(a.out[y], msg)
  BY <1>2, <1>4 DEF SentS
<1> QED
  BY <1>3, <1>4, <1>6, <1>7, <1>8, <1>9 DEF Prepared

LEMMA PreparedNext ==
    ASSUME NEW n \in Nodes, NEW s, NEW k \in Nat, k + 1 \in 1 .. Len(s), Len(s) \in Nat, AsksOnce(s),
           NEW a, Prepared(a, s, k), NEW m \in Nodes, NEW q \in Cubes,
           Asking(s, k + 1, m, q),
           NEW a2, a2 = CreateNM1Flow(a, m, q)
    PROVE  Prepared(a2, s, k + 1)
<1> DEFINE t == a.st.table
           t2 == Append(t, NewItem(m, q, TRUE))
           c == NM1("nm1create", q)
<1>1. /\ a \in Outcome /\ TableOK(t)
      /\ a.st.status = InitAllocators.status /\ a.st.entered = InitAllocators.entered
      /\ a.st.forwards = NoMessages
      /\ \A y, r : HasT(t, y, r) => \E j \in 1 .. k : Asking(s, j, y, r)
      /\ \A y, r : ~ReadyT(t, y, r)
      /\ \A y, msg : ~KeptT(t, y, msg)
      /\ \A y \in Nodes : \A r : HasT(t, y, r) => SentS(a.out[y], NM1("nm1create", r))
      /\ \A y \in Nodes : \A msg :
            SentS(a.out[y], msg) => \E r : msg = NM1("nm1create", r) /\ AskedT(t, y, r)
  BY DEF Prepared
<1>2. ~HasT(t, m, q)
  <2> SUFFICES ASSUME HasT(t, m, q) PROVE FALSE
    OBVIOUS
  <2>1. PICK j \in 1 .. k : Asking(s, j, m, q)
    BY <1>1
  <2>2. j \in 1 .. Len(s)
    OBVIOUS
  <2>3. j = k + 1
    BY <2>1, <2>2 DEF AsksOnce
  <2> QED
    BY <2>3
<1>3. t \in Seq(Item)
  BY <1>1, OutcomeFields
<1>4. Creates(t, t2, m, q)
  BY <1>1, <1>2, <1>3, TableCreates
<1>5. t2 \in Seq(Item)
  <2>1. NewItem(m, q, TRUE) \in Item
    BY NewItemFields
  <2> QED
    BY <1>3, <2>1, AppendType
<1>6. /\ a2 \in Outcome
      /\ a2.st = Tabled(a.st, t2)
      /\ a2.out = Sending(a.out, m, One(c))
  <2>1. a \in Outcome
    BY <1>1
  <2> QED
    BY <2>1, CreateNM1FlowDoes
<1> HIDE DEF t, t2, c
<1>7. /\ a2.st.table = t2 /\ a2.st.status = a.st.status /\ a2.st.entered = a.st.entered
      /\ a2.st.forwards = a.st.forwards
  BY <1>1, <1>5, <1>6, TabledFields
<1>8. /\ TableOK(t2)
      /\ \A y, r : /\ HasT(t2, y, r) <=> HasT(t, y, r) \/ (y = m /\ r = q)
                   /\ ReadyT(t2, y, r) <=> ReadyT(t, y, r)
                   /\ AskedT(t2, y, r) <=> AskedT(t, y, r) \/ (y = m /\ r = q)
      /\ \A y, msg : KeptT(t2, y, msg) <=> KeptT(t, y, msg)
  BY <1>4 DEF Creates
<1>9. \A y \in Nodes : \A msg :
         SentS(a2.out[y], msg) <=> SentS(a.out[y], msg) \/ (y = m /\ msg = c)
  <2> SUFFICES ASSUME NEW y \in Nodes, NEW msg
               PROVE  SentS(a2.out[y], msg) <=> SentS(a.out[y], msg) \/ (y = m /\ msg = c)
    OBVIOUS
  <2>1. c \in Message
    BY NM1Type DEF c
  <2>2. One(c) \in Seq(Message) /\ (SentS(One(c), msg) <=> msg = c)
    BY <2>1 DEF One, SentS
  <2>3. a.out \in [Nodes -> Seq(Message)]
    BY <1>1, OutcomeFields
  <2>4. a2.out[y] = IF y = m THEN a.out[y] \o One(c) ELSE a.out[y]
    <3> DEFINE u == One(c)
               out == a.out
    <3>1. u \in Seq(Message) /\ out \in [Nodes -> Seq(Message)]
      BY <2>2, <2>3
    <3> HIDE DEF u, out
    <3>2. \A z \in Nodes : Sending(out, m, u)[z] = IF z = m THEN out[z] \o u ELSE out[z]
      BY <3>1, SendingType
    <3> QED
      BY <1>6, <3>2 DEF u, out
  <2>5. a.out[y] \in Seq(Message)
    BY <2>3
  <2> DEFINE u == One(c)
             v == a.out[y]
  <2>6. SentS(v \o u, msg) <=> SentS(v, msg) \/ SentS(u, msg)
    <3>1. u \in Seq(Message) /\ v \in Seq(Message)
      BY <2>2, <2>5
    <3> HIDE DEF u, v
    <3> QED
      BY <3>1, ConcatSent
  <2>7. CASE y = m
    BY <2>2, <2>4, <2>6, <2>7
  <2>8. CASE y # m
    BY <2>4, <2>8
  <2> QED
    BY <2>7, <2>8
<1>10. \A y, r : HasT(t2, y, r) => \E j \in 1 .. (k + 1) : Asking(s, j, y, r)
  <2>1. k + 1 \in 1 .. (k + 1) /\ \A j \in 1 .. k : j \in 1 .. (k + 1)
    OBVIOUS
  <2> QED
    BY <1>1, <1>8, <2>1
<1>11. \A y \in Nodes : \A r : HasT(t2, y, r) => SentS(a2.out[y], NM1("nm1create", r))
  BY <1>1, <1>8, <1>9 DEF c
<1>12. \A y \in Nodes : \A msg :
          SentS(a2.out[y], msg) => \E r : msg = NM1("nm1create", r) /\ AskedT(t2, y, r)
  <2> SUFFICES ASSUME NEW y \in Nodes, NEW msg, SentS(a2.out[y], msg)
               PROVE  \E r : msg = NM1("nm1create", r) /\ AskedT(t2, y, r)
    OBVIOUS
  <2>1. CASE y = m /\ msg = c
    <3>1. msg = NM1("nm1create", q) /\ AskedT(t2, y, q)
      BY <1>8, <2>1 DEF c
    <3> QED
      BY <3>1
  <2>2. CASE SentS(a.out[y], msg)
    <3>1. PICK r : msg = NM1("nm1create", r) /\ AskedT(t, y, r)
      BY <1>1, <2>2
    <3>2. AskedT(t2, y, r)
      BY <1>8, <3>1
    <3> QED
      BY <3>1, <3>2
  <2> QED
    BY <1>9, <2>1, <2>2
<1>13. (\A y, r : ~ReadyT(t2, y, r)) /\ \A y, msg : ~KeptT(t2, y, msg)
  BY <1>1, <1>8
<1> QED
  BY <1>1, <1>6, <1>7, <1>8, <1>10, <1>11, <1>12, <1>13 DEF Prepared
LEMMA PreallocatedDoes ==
    ASSUME config \in Configurations, NEW n \in Nodes, NEW o, o = Preallocated(n)
    PROVE  \E s, k : Prepared(o, s, k)
<1> DEFINE s == SetToSeq(Preallocation(n))
           N == Len(s)
           first == [st |-> InitAllocators, out |-> Nothing]
           step(k) == [a \in Outcome |-> CreateNM1Flow(a, s[k][2], s[k][3])]
           F == [k \in 1 .. N |-> step(k)]
           Body(g, k) == IF k = 0 THEN first ELSE CreateNM1Flow(g[k - 1], s[k][2], s[k][3])
           Chosen == CHOOSE g : g = [k \in 0 .. N |-> Body(g, k)]
<1>1. /\ N \in Nat /\ AsksOnce(s)
      /\ \A k \in 1 .. N : s[k][2] \in Nodes /\ s[k][3] \in Cubes
  BY PreallocationType
<1>2. o = Chosen[N]
  BY DEF Preallocated, Preallocation
<1> HIDE DEF s, N
<1>3. \A k \in 1 .. N : \A a \in Outcome : CreateNM1Flow(a, s[k][2], s[k][3]) \in Outcome
  <2> SUFFICES ASSUME NEW k \in 1 .. N, NEW a \in Outcome
               PROVE  CreateNM1Flow(a, s[k][2], s[k][3]) \in Outcome
    OBVIOUS
  <2>1. \A m \in Nodes, q \in Cubes : CreateNM1Flow(a, m, q) \in Outcome
    BY CreateNM1FlowDoes
  <2> QED
    BY <1>1, <2>1
<1>4. F \in [1 .. N -> [Outcome -> Outcome]]
  <2>1. \A k \in 1 .. N : step(k) \in [Outcome -> Outcome]
    BY <1>3
  <2> HIDE DEF step
  <2> QED
    BY <2>1
<1>5. Prepared(first, s, 0) /\ first \in Outcome
  <2>1. Prepared(first, s, 0)
    BY PreparedFirst
  <2> QED
    BY <2>1 DEF Prepared
<1>6. PICK g : Loops(g, N, Outcome, first, F)
  <2> HIDE DEF F, step, first
  <2> QED
    BY <1>1, <1>4, <1>5, Looping
<1> HIDE DEF first
<1>7. /\ g \in [0 .. N -> Outcome] /\ g[0] = first
      /\ \A k \in 1 .. N : g[k] = CreateNM1Flow(g[k - 1], s[k][2], s[k][3])
  <2>1. g \in [0 .. N -> Outcome] /\ g[0] = first /\ \A k \in 1 .. N : g[k] = F[k][g[k - 1]]
    BY <1>6 DEF Loops
  <2>2. \A k \in 1 .. N : g[k - 1] \in Outcome
    BY <1>1, <2>1
  <2> QED
    BY <2>1, <2>2
<1>8. g = [k \in 0 .. N |-> Body(g, k)]
  BY <1>1, <1>7
<1>9. Chosen = [k \in 0 .. N |-> Body(Chosen, k)]
  <2> HIDE DEF Body
  <2> QED
    BY <1>8
<1>10. /\ Chosen[0] = first
       /\ \A k \in 1 .. N : Chosen[k] = CreateNM1Flow(Chosen[k - 1], s[k][2], s[k][3])
  <2> DEFINE c == Chosen
  <2>1. c = [k \in 0 .. N |-> Body(c, k)]
    BY <1>9
  <2> HIDE DEF c
  <2>2. /\ c[0] = first
        /\ \A k \in 1 .. N : c[k] = CreateNM1Flow(c[k - 1], s[k][2], s[k][3])
    BY <1>1, <2>1
  <2> QED
    BY <2>2 DEF c
<1> HIDE DEF Chosen
<1> DEFINE S == {k \in 0 .. N : Prepared(Chosen[k], s, k)}
<1>11. 0 \in S
  BY <1>1, <1>5, <1>10
<1>12. \A k \in 0 .. (N - 1) : k \in S => k + 1 \in S
  <2> SUFFICES ASSUME NEW k \in 0 .. (N - 1), Prepared(Chosen[k], s, k)
               PROVE  Prepared(Chosen[k + 1], s, k + 1)
    BY <1>1
  <2> DEFINE m == s[k + 1][2]
             q == s[k + 1][3]
             a == Chosen[k]
             a2 == Chosen[k + 1]
  <2>1. k \in Nat /\ k + 1 \in 1 .. N /\ (k + 1) - 1 = k
    BY <1>1
  <2>2. m \in Nodes /\ q \in Cubes /\ Asking(s, k + 1, m, q)
    BY <1>1, <2>1 DEF Asking
  <2>3. a2 = CreateNM1Flow(a, m, q)
    BY <1>10, <2>1
  <2>4. Prepared(a, s, k) /\ k + 1 \in 1 .. Len(s) /\ Len(s) \in Nat
    BY <1>1, <2>1 DEF N
  <2> HIDE DEF m, q, a, a2
  <2>5. Prepared(a2, s, k + 1)
    BY <1>1, <2>1, <2>2, <2>3, <2>4, PreparedNext
  <2> QED
    BY <2>5 DEF a2
<1>13. N \in 0 .. N
  BY <1>1
<1>14. 0 .. N \subseteq S
  <2> HIDE DEF S
  <2> QED
    BY <1>1, <1>11, <1>12, UpTo
<1>15. Prepared(Chosen[N], s, N)
  BY <1>13, <1>14
<1> QED
  BY <1>2, <1>15
(* Nobody has asked for a flow, no (N-1)-flow is up. *)
Fresh(p, w) ==
    /\ p \in Procs /\ w \in Wires /\ TablesOK(p) /\ EnteredAgrees(p)
    /\ \A x \in Nodes, f \in Flows : ~Asks(p, x, f)
    /\ \A x \in Nodes : \A f, d : ~Entry(p, x, f, d) /\ ~Waits(p, x, f, d)
    /\ \A x, y \in Nodes : \A r :
          ~Ready(p, x, y, r) /\ (Has(p, x, y, r) => Sent(w, x, y, NM1("nm1create", r)))
    /\ \A x, y \in Nodes : \A msg :
          Under(p, w, x, y, msg) => \E r : msg = NM1("nm1create", r) /\ Asked(p, x, y, r)

LEMMA InitIsFresh ==
    ASSUME Init
    PROVE  Fresh(proc, wire)
<1>1. /\ config \in Configurations
      /\ proc = [n \in Nodes |-> Preallocated(n).st]
      /\ wire = [n \in Nodes |-> Preallocated(n).out]
  BY DEF Init
<1>2. \A x \in Nodes : proc[x] = Preallocated(x).st /\ wire[x] = Preallocated(x).out
  BY <1>1
<1>3. \A x \in Nodes : \E s, k : Prepared(Preallocated(x), s, k)
  BY <1>1, PreallocatedDoes
<1>4. \A x \in Nodes : Preallocated(x) \in Outcome
  BY <1>3 DEF Prepared
<1>5. proc \in Procs /\ wire \in Wires
  <2>1. \A x \in Nodes : Preallocated(x).st \in Allocators
                         /\ Preallocated(x).out \in [Nodes -> Seq(Message)]
    BY <1>4, OutcomeFields
  <2> QED
    BY <1>1, <2>1 DEF Procs, Wires
<1>6. ASSUME NEW x \in Nodes
      PROVE  /\ TableOK(proc[x].table)
             /\ \A f \in Flows : proc[x].status[f] = "none" /\ proc[x].entered[f] = 0
             /\ Len(proc[x].forwards) = 0
             /\ \A y, r : ~ReadyT(proc[x].table, y, r)
             /\ \A y, msg : ~KeptT(proc[x].table, y, msg)
             /\ \A y \in Nodes : \A r :
                   HasT(proc[x].table, y, r) => SentS(wire[x][y], NM1("nm1create", r))
             /\ \A y \in Nodes : \A msg :
                   SentS(wire[x][y], msg) =>
                       \E r : msg = NM1("nm1create", r) /\ AskedT(proc[x].table, y, r)
  <2> DEFINE a == Preallocated(x)
  <2>1. PICK s, k : Prepared(a, s, k)
    BY <1>3
  <2>2. proc[x] = a.st /\ wire[x] = a.out
    BY <1>2
  <2> HIDE DEF a
  <2>3. \A f \in Flows : InitAllocators.status[f] = "none" /\ InitAllocators.entered[f] = 0
    BY DEF InitAllocators
  <2>4. Len(NoMessages) = 0
    BY DEF NoMessages
  <2> QED
    BY <2>1, <2>2, <2>3, <2>4 DEF Prepared
<1>7. TablesOK(proc)
  BY <1>6 DEF TablesOK
<1>8. \A x \in Nodes, f \in Flows : ~Asks(proc, x, f)
  BY <1>6 DEF Asks
<1>9. EnteredAgrees(proc)
  BY <1>6 DEF EnteredAgrees
<1>10. \A x \in Nodes : \A f, d : ~Entry(proc, x, f, d) /\ ~Waits(proc, x, f, d)
  <2>1. \A x \in Nodes : Len(proc[x].forwards) = 0
    BY <1>6
  <2> QED
    BY <2>1 DEF Entry, Waits
<1>11. \A x, y \in Nodes : \A r :
          ~Ready(proc, x, y, r) /\ (Has(proc, x, y, r) => Sent(wire, x, y, NM1("nm1create", r)))
  BY <1>6 DEF Ready, Has, Sent
<1>12. \A x, y \in Nodes : \A msg :
          Under(proc, wire, x, y, msg) =>
              \E r : msg = NM1("nm1create", r) /\ Asked(proc, x, y, r)
  BY <1>6 DEF Under, Asked, Sent
<1> QED
  BY <1>5, <1>7, <1>8, <1>9, <1>10, <1>11, <1>12 DEF Fresh

LEMMA FreshIsGood ==
    ASSUME NEW p, NEW w, Fresh(p, w)
    PROVE  Good(p, w) /\ Live(p, w)
<1>1. /\ p \in Procs /\ w \in Wires /\ TablesOK(p) /\ EnteredAgrees(p)
      /\ \A x \in Nodes, f \in Flows : ~Asks(p, x, f)
      /\ \A x \in Nodes : \A f, d : ~Entry(p, x, f, d) /\ ~Waits(p, x, f, d)
      /\ \A x, y \in Nodes : \A r :
            ~Ready(p, x, y, r) /\ (Has(p, x, y, r) => Sent(w, x, y, NM1("nm1create", r)))
      /\ \A x, y \in Nodes : \A msg :
            Under(p, w, x, y, msg) => \E r : msg = NM1("nm1create", r) /\ Asked(p, x, y, r)
  BY DEF Fresh
<1>2. \A x, y \in Nodes : \A msg :
         Sent(w, x, y, msg) => \E r : msg = NM1("nm1create", r) /\ Asked(p, x, y, r)
  BY <1>1 DEF Under
<1>3. \A x, y \in Nodes : \A q : Sent(w, x, y, NM1("nm1create", q)) => Asked(p, x, y, q)
  BY <1>2, NM1NotRequest
<1>4. \A x, y \in Nodes : \A q : ~Sent(w, x, y, NM1("nm1created", q))
  BY <1>2, NM1NotRequest
<1>5. \A x, y \in Nodes : \A f, d : ~Under(p, w, x, y, Req(f, d)) /\ ~Under(p, w, x, y, Ans(f, d))
  BY <1>1, NM1NotRequest, ReqAns
<1>6. \A x, y \in Nodes : \A q : Idle(p, x, y, q) => Sent(w, x, y, NM1("nm1create", q))
  <2>1. \A x, y, q : Idle(p, x, y, q) => Has(p, x, y, q)
    BY DEF Idle, Has, IdleT, HasT
  <2> QED
    BY <1>1, <2>1
<1>7. Base(p, w)
  <2>1. CreateIsAsked(p, w)
    BY <1>3 DEF CreateIsAsked
  <2>2. CreatedIsReady(p, w)
    BY <1>4 DEF CreatedIsReady
  <2>3. ItemIsMatched(p, w)
    BY <1>1 DEF ItemIsMatched
  <2>4. ReadyIsMatched(p, w)
    BY <1>1 DEF ReadyIsMatched
  <2>5. IdleIsAwaited(p, w)
    BY <1>6 DEF IdleIsAwaited, Awaited
  <2>6. WaitIsAwaited(p, w)
    BY <1>1 DEF WaitIsAwaited
  <2> QED
    BY <1>1, <2>1, <2>2, <2>3, <2>4, <2>5, <2>6 DEF Base
<1>8. ASSUME NEW f \in Flows, RoutesAgree
      PROVE  FlowOK(p, w, f)
  <2>1. ~Up(p, Caller[f], f)
    BY <1>1, Constants DEF Up, Asks
  <2>2. \A x, y \in Nodes : \A msg \in Message :
           Under(p, w, x, y, msg) => Allowed(p, f, x, y, msg)
    BY <1>5 DEF Allowed
  <2>3. RequestIsPreceded(p, w, f)
    <3>1. \A x, y \in Nodes : ~Sent(w, x, y, Req(f, Callee[f]))
      BY <1>5 DEF Under
    <3>2. \A x, y \in Nodes : Covered(w, x, y, Announces(QoS[f]), Req(f, Callee[f]))
      BY <3>1 DEF Covered, CoveredS, Sent, SentS
    <3> QED
      BY <3>2 DEF RequestIsPreceded
  <2>4. AnswerIsPreceded(p, w, f)
    <3> SUFFICES ASSUME NEW k \in 1 .. Length(f)
                 PROVE  Covered(w, Way[f][k], Way[f][k - 1], {NM1("nm1created", QoS[f])},
                                Ans(f, Caller[f]))
      BY DEF AnswerIsPreceded
    <3>1. Way[f][k] \in Nodes /\ Way[f][k - 1] \in Nodes
      <4>1. Length(f) \in Nat /\ \A j \in 0 .. Length(f) : Way[f][j] \in Nodes
        BY <1>8, WayEnds
      <4>2. k \in 0 .. Length(f) /\ k - 1 \in 0 .. Length(f)
        BY <4>1
      <4> QED
        BY <4>1, <4>2
    <3>2. ~Sent(w, Way[f][k], Way[f][k - 1], Ans(f, Caller[f]))
      BY <1>5, <3>1 DEF Under
    <3> QED
      BY <3>2 DEF Covered, CoveredS, Sent, SentS
  <2> QED
    BY <1>1, <2>1, <2>2, <2>3, <2>4 DEF FlowOK
<1>9. Live(p, w)
  BY <1>1, Constants DEF Live, LiveOK
<1> QED
  BY <1>7, <1>8, <1>9 DEF Good
-----------------------------------------------------------------------------
(* No step changes the configuration. *)

LEMMA SameBase ==
    ASSUME config' = config
    PROVE  /\ \A p, w : Base(p, w)' <=> Base(p, w)
           /\ \A w, x, y, q : Awaited(w, x, y, q)' <=> Awaited(w, x, y, q)
<1>1. \A x, y, q : IsRefused(x, y, q)' <=> IsRefused(x, y, q)
  BY DEF IsRefused
<1>2. \A w, x, y, q : Awaited(w, x, y, q)' <=> Awaited(w, x, y, q)
  BY <1>1 DEF Awaited
<1>3. \A p, w : ItemIsMatched(p, w)' <=> ItemIsMatched(p, w)
  BY <1>1 DEF ItemIsMatched
<1>4. \A p, w : IdleIsAwaited(p, w)' <=> IdleIsAwaited(p, w)
  BY <1>2 DEF IdleIsAwaited
<1>5. \A p, w : WaitIsAwaited(p, w)' <=> WaitIsAwaited(p, w)
  BY <1>2 DEF WaitIsAwaited
<1> QED
  BY <1>2, <1>3, <1>4, <1>5 DEF Base

LEMMA SameFlow ==
    ASSUME config' = config
    PROVE  \A p, w, f : FlowOK(p, w, f)' <=> FlowOK(p, w, f)
<1>1. \A x, y, q : IsRefused(x, y, q)' <=> IsRefused(x, y, q)
  BY DEF IsRefused
<1>2. \A f, k : RefusedHop(f, k)' <=> RefusedHop(f, k)
  BY <1>1 DEF RefusedHop
<1>3. \A f, k : Exempt(f, k)' <=> Exempt(f, k)
  BY <1>2 DEF Exempt
<1>4. \A p, f, k : Past(p, f, k)' <=> Past(p, f, k)
  BY <1>2 DEF Past
<1>5. \A p, f : Answered(p, f)' <=> Answered(p, f)
  BY <1>3 DEF Answered
<1>6. \A p, f, k : Done(p, f, k)' <=> Done(p, f, k)
  BY <1>3 DEF Done
<1>7. \A p, f, x, y : OnWay(p, f, x, y)' <=> OnWay(p, f, x, y)
  BY <1>4 DEF OnWay
<1>8. \A p, f, x, y : OnWayBack(p, f, x, y)' <=> OnWayBack(p, f, x, y)
  BY <1>5, <1>6 DEF OnWayBack
<1>9. \A p, f, x, y, msg : Allowed(p, f, x, y, msg)' <=> Allowed(p, f, x, y, msg)
  BY <1>7, <1>8 DEF Allowed
<1>10. \A p, w, f : RequestIsPreceded(p, w, f)' <=> RequestIsPreceded(p, w, f)
  BY <1>1 DEF RequestIsPreceded
<1>11. \A p, w, f : AnswerIsPreceded(p, w, f)' <=> AnswerIsPreceded(p, w, f)
  BY <1>3 DEF AnswerIsPreceded
<1>12. \A p, f, x, d : EntryOK(p, f, x, d)' <=> EntryOK(p, f, x, d)
  BY <1>7 DEF EntryOK
<1> QED
  BY <1>6, <1>9, <1>10, <1>11, <1>12 DEF FlowOK

LEMMA SameLive ==
    ASSUME config' = config
    PROVE  \A p, w : Live(p, w)' <=> Live(p, w)
<1>1. \A w, x, y, q : Awaited(w, x, y, q)' <=> Awaited(w, x, y, q)
  BY SameBase
<1>2. \A n, m : MayBeStuck(n, m)' <=> MayBeStuck(n, m)
  BY DEF MayBeStuck
<1>3. \A f : Clear(f)' <=> Clear(f)
  BY <1>2 DEF Clear
<1>4. \A p, w, f : Coming(p, w, f)' <=> Coming(p, w, f)
  BY <1>1 DEF Coming
<1>5. \A p, w, f : LiveOK(p, w, f)' <=> LiveOK(p, w, f)
  BY <1>3, <1>4 DEF LiveOK
<1> QED
  BY <1>5 DEF Live

LEMMA SameWorlds ==
    ASSUME config' = config
    PROVE  \A p, w : (Good(p, w)' <=> Good(p, w)) /\ (Live(p, w)' <=> Live(p, w))
<1>1. \A p, w : Good(p, w)' <=> Good(p, w)
  BY SameBase, SameFlow DEF Good
<1> QED
  BY <1>1, SameLive

LEMMA BecomesIs ==
    ASSUME NEW n, NEW o, NEW channel, Becomes(n, o, channel)
    PROVE  /\ config' = config
           /\ proc' = ProcOf(proc, n, o) /\ wire' = WireOf(channel, n, o)
  BY DEF Becomes, ProcOf, WireOf, Then

-----------------------------------------------------------------------------
(* The inductive invariant. *)

IInv == config \in Configurations /\ Good(proc, wire) /\ Live(proc, wire)

LEMMA InvInit == Init => IInv
<1> SUFFICES ASSUME Init PROVE IInv
  OBVIOUS
<1>1. Good(proc, wire) /\ Live(proc, wire)
  BY InitIsFresh, FreshIsGood
<1>2. config \in Configurations
  BY DEF Init
<1> QED
  BY <1>1, <1>2 DEF IInv

LEMMA InvNext == IInv /\ [Next]_vars => IInv'
<1> SUFFICES ASSUME IInv, [Next]_vars PROVE IInv'
  OBVIOUS
<1>1. config \in Configurations /\ Good(proc, wire) /\ Live(proc, wire)
  BY DEF IInv
<1>2. proc \in Procs /\ wire \in Wires
  BY <1>1 DEF Good, Base
<1>3. ASSUME config' = config, Good(proc', wire'), Live(proc', wire')
      PROVE  IInv'
  BY <1>1, <1>3, SameWorlds DEF IInv
<1>4. ASSUME NEW f \in Flows, AllocateRequest(f)
      PROVE  IInv'
  <2> DEFINE n == Caller[f]
             o == ReceiveAllocateRequest(Start(proc, n), n, f)
  <2>1. n \in Nodes
    BY Constants
  <2>2. proc[n].status[f] = "none" /\ Becomes(n, o, wire)
    BY <1>4 DEF AllocateRequest, Start
  <2>3. n = Caller[f] /\ o = ReceiveAllocateRequest(Start(proc, n), n, f)
    OBVIOUS
  <2> HIDE DEF n, o
  <2>4. /\ Good(ProcOf(proc, n, o), WireOf(wire, n, o))
        /\ Live(ProcOf(proc, n, o), WireOf(wire, n, o))
    BY <1>1, <1>2, <2>1, <2>2, <2>3, AllocateKeeps
  <2>5. /\ config' = config
        /\ proc' = ProcOf(proc, n, o) /\ wire' = WireOf(wire, n, o)
    BY <2>2, BecomesIs
  <2> QED
    BY <1>3, <2>4, <2>5
<1>5. ASSUME NEW m \in Nodes, NEW n \in Nodes, Arrive(m, n)
      PROVE  IInv'
  <2> DEFINE o == Handled(Start(proc, n), n, m, Head(wire[m][n]))
             u == Taken(wire, m, n)
  <2>1. wire[m][n] # <<>> /\ Becomes(n, o, u)
    BY <1>5 DEF Arrive, Start, Taken
  <2>2. o = Handled(Start(proc, n), n, m, Head(wire[m][n])) /\ u = Taken(wire, m, n)
    OBVIOUS
  <2> HIDE DEF o, u
  <2>3. /\ Good(ProcOf(proc, n, o), WireOf(Taken(wire, m, n), n, o))
        /\ Live(ProcOf(proc, n, o), WireOf(Taken(wire, m, n), n, o))
    BY <1>1, <1>2, <2>1, <2>2, ArriveKeeps
  <2>4. /\ config' = config
        /\ proc' = ProcOf(proc, n, o) /\ wire' = WireOf(u, n, o)
    BY <2>1, BecomesIs
  <2> QED
    BY <1>3, <2>2, <2>3, <2>4
<1>6. CASE UNCHANGED vars
  <2>1. config' = config /\ proc' = proc /\ wire' = wire
    BY <1>6 DEF vars
  <2> QED
    BY <1>1, <1>3, <2>1
<1> QED
  BY <1>4, <1>5, <1>6 DEF Next
-----------------------------------------------------------------------------
(* What the invariant says of the processes one by one.                    *)

LEMMA InRange ==
    ASSUME NEW T, NEW s \in Seq(T), NEW x
    PROVE  x \in Range(s) <=> \E i \in 1 .. Len(s) : s[i] = x
  BY DEF Range

LEMMA InvItemsAgree == IInv => ItemsAgree
<1> SUFFICES ASSUME IInv PROVE ItemsAgree
  OBVIOUS
<1>1. config \in Configurations /\ Base(proc, wire)
  BY DEF IInv, Good
<1>2. proc \in Procs /\ wire \in Wires /\ TablesOK(proc) /\ EnteredAgrees(proc)
  BY <1>1 DEF Base
<1>3. TypeOK
  BY <1>1, <1>2 DEF TypeOK, Procs, Wires
<1>4. AskedOnce
  <2> SUFFICES ASSUME NEW n \in Nodes, NEW i \in DOMAIN proc[n].table,
                      NEW j \in DOMAIN proc[n].table,
                      proc[n].table[i].own, proc[n].table[j].own,
                      proc[n].table[i].to = proc[n].table[j].to,
                      proc[n].table[i].qos = proc[n].table[j].qos
               PROVE  i = j
    BY DEF AskedOnce
  <2> DEFINE t == proc[n].table
  <2>1. t \in Seq(Item)
    BY <1>2 DEF Procs, Allocators
  <2>2. i \in 1 .. Len(t) /\ j \in 1 .. Len(t)
    BY <2>1
  <2>3. OwnFirst(t)
    BY <1>2 DEF TablesOK, TableOK
  <2>4. i <= j /\ j <= i
    BY <2>2, <2>3 DEF OwnFirst, Fits
  <2> QED
    BY <2>2, <2>4
<1>5. EnteredOnce
  <2> SUFFICES ASSUME NEW n \in Nodes, NEW f \in Flows PROVE proc[n].entered[f] <= 1
    BY DEF EnteredOnce
  <2>1. proc[n].entered[f] \in {0, 1}
    BY <1>2 DEF EnteredAgrees
  <2> QED
    BY <2>1
<1> QED
  BY <1>3, <1>4, <1>5 DEF ItemsAgree

-----------------------------------------------------------------------------
(* What it says of whole paths. *)

LEMMA HopIs ==
    ASSUME NEW f \in Flows, RoutesAgree, NEW h \in HopsOf(f)
    PROVE  \E k \in 1 .. Length(f) :
              /\ h[1] = Way[f][k - 1] /\ h[2] = Way[f][k]
              /\ h[1] \in Nodes /\ h[2] \in Nodes
              /\ k # Length(f) => h[2] # Callee[f]
<1>1. PICK k \in 1 .. Length(f) : h = <<Way[f][k - 1], Way[f][k]>>
  BY DEF HopsOf
<1>2. /\ Length(f) \in Nat
      /\ \A j \in 0 .. Length(f) : Way[f][j] \in Nodes
      /\ \A j \in 0 .. (Length(f) - 1) : Way[f][j] # Callee[f]
  BY WayEnds
<1>3. k \in 0 .. Length(f) /\ k - 1 \in 0 .. Length(f)
      /\ (k # Length(f) => k \in 0 .. (Length(f) - 1))
  BY <1>2
<1>4. h[1] = Way[f][k - 1] /\ h[2] = Way[f][k]
  BY <1>1
<1> QED
  BY <1>2, <1>3, <1>4

LEMMA ReadyPort ==
    ASSUME proc \in Procs, NEW x \in Nodes, NEW y, NEW q, Ready(proc, x, y, q)
    PROVE  HasReadyPort(x, y, q)
<1> DEFINE t == proc[x].table
<1>1. t \in Seq(Item)
  BY DEF Procs, Allocators
<1>2. PICK i \in 1 .. Len(t) : Fits(t[i], y, q) /\ t[i].ready
  BY DEF Ready, ReadyT
<1>3. t[i] \in Range(t)
  BY <1>1, InRange
<1> QED
  BY <1>2, <1>3 DEF HasReadyPort, Fits

LEMMA InvPathIsReady ==
    ASSUME IInv, RoutesAgree
    PROVE  PathIsReady
<1> SUFFICES ASSUME NEW f \in Flows, proc[Caller[f]].status[f] = "TRANSFER",
                    NEW h \in HopsOf(f),
                    ~IsRefused(h[1], h[2], QoS[f]) \/ h[2] = Callee[f]
             PROVE  HasReadyPort(h[1], h[2], QoS[f]) /\ HasReadyPort(h[2], h[1], QoS[f])
  BY DEF PathIsReady
<1>1. proc \in Procs /\ FlowOK(proc, wire, f)
  BY DEF IInv, Good, Base
<1>2. Done(proc, f, 1)
  BY <1>1 DEF FlowOK, Up
<1>3. PICK k \in 1 .. Length(f) :
              /\ h[1] = Way[f][k - 1] /\ h[2] = Way[f][k]
              /\ h[1] \in Nodes /\ h[2] \in Nodes
              /\ k # Length(f) => h[2] # Callee[f]
  BY HopIs
<1>4. ~Exempt(f, k)
  BY <1>3 DEF Exempt, RefusedHop
<1>5. Back(proc, f, k) /\ Forth(proc, f, k)
  BY <1>2, <1>4 DEF Done
<1>6. Ready(proc, h[2], h[1], QoS[f]) /\ Ready(proc, h[1], h[2], QoS[f])
  BY <1>3, <1>5 DEF Back, Forth
<1> QED
  BY <1>1, <1>3, <1>6, ReadyPort

-----------------------------------------------------------------------------
(* What it says when nothing is under way.                                 *)

LEMMA QuietSent ==
    ASSUME IInv, Quiet
    PROVE  /\ \A x, y \in Nodes : \A msg : ~Sent(wire, x, y, msg)
           /\ \A x, y \in Nodes, q \in Cubes : Idle(proc, x, y, q) => IsRefused(x, y, q)
           /\ \A x \in Nodes, f \in Flows, d \in Nodes :
                 Waits(proc, x, f, d) => IsRefused(x, NextHop[x][d], QoS[f])
<1>1. Base(proc, wire)
  BY DEF IInv, Good
<1>2. \A x, y \in Nodes : Len(wire[x][y]) = 0
  BY DEF Quiet
<1>3. \A x, y \in Nodes : \A msg : ~Sent(wire, x, y, msg)
  BY <1>2 DEF Sent, SentS
<1>4. \A x, y \in Nodes : \A q : Awaited(wire, x, y, q) => IsRefused(x, y, q)
  BY <1>3 DEF Awaited
<1>5. \A x, y \in Nodes, q \in Cubes : Idle(proc, x, y, q) => IsRefused(x, y, q)
  BY <1>1, <1>4 DEF Base, IdleIsAwaited
<1>6. \A x \in Nodes, f \in Flows, d \in Nodes :
         Waits(proc, x, f, d) => IsRefused(x, NextHop[x][d], QoS[f])
  BY <1>1, <1>4, Constants DEF Base, WaitIsAwaited
<1> QED
  BY <1>3, <1>5, <1>6

LEMMA RefusedIsStuck ==
    ASSUME NEW x, NEW y, NEW q, IsRefused(x, y, q)
    PROVE  MayBeStuck(x, y) /\ MayBeStuck(y, x)
<1> DEFINE t == <<x, y, q>>
<1>1. t \in config.refused /\ t[1] = x /\ t[2] = y
  BY DEF IsRefused
<1> HIDE DEF t
<1>2. {t[1], t[2]} = {x, y} /\ {t[1], t[2]} = {y, x}
  BY <1>1
<1> QED
  BY <1>1, <1>2 DEF MayBeStuck

(* A port that keeps something belongs to an (N-1)-flow that was refused.  *)
LEMMA KeepsIsStuck ==
    ASSUME IInv, Quiet, NEW x \in Nodes, NEW i \in 1 .. Len(proc[x].table)
    PROVE  /\ proc[x].table[i].ready \/ IsRefused(x, proc[x].table[i].to, proc[x].table[i].qos)
           /\ proc[x].table[i].queue = <<>> \/ MayBeStuck(x, proc[x].table[i].to)
<1> DEFINE t == proc[x].table
           e == t[i]
<1>1. proc \in Procs /\ TableOK(t)
  BY DEF IInv, Good, Base, TablesOK
<1>2. t \in Seq(Item)
  BY <1>1 DEF Procs, Allocators
<1>3. e \in Item
  BY <1>2
<1>4. e.to \in Nodes /\ e.qos \in Cubes
  <2> HIDE DEF e
  <2> QED
    BY <1>3, ItemFields
<1>5. ~e.ready => Idle(proc, x, e.to, e.qos)
  BY DEF Idle, IdleT, Fits
<1>6. e.ready => e.queue = <<>>
  BY <1>1 DEF TableOK, ReadyKeepsNothing
<1>7. e.ready \/ IsRefused(x, e.to, e.qos)
  BY <1>4, <1>5, QuietSent
<1>8. IsRefused(x, e.to, e.qos) => MayBeStuck(x, e.to)
  BY RefusedIsStuck
<1> QED
  BY <1>6, <1>7, <1>8

LEMMA UnderIsStuck ==
    ASSUME IInv, Quiet, NEW x \in Nodes, NEW y \in Nodes, NEW msg, Under(proc, wire, x, y, msg)
    PROVE  MayBeStuck(x, y)
<1> DEFINE t == proc[x].table
<1>1. KeptT(t, y, msg)
  BY QuietSent DEF Under
<1>2. PICK i \in 1 .. Len(t) : t[i].to = y /\ \E j \in 1 .. Len(t[i].queue) : t[i].queue[j] = msg
  BY <1>1 DEF KeptT
<1>3. t[i].queue # <<>>
  BY <1>2
<1>4. t[i].queue = <<>> \/ MayBeStuck(x, t[i].to)
  BY KeepsIsStuck
<1> QED
  BY <1>2, <1>3, <1>4

LEMMA InvUpAtBothEnds ==
    ASSUME IInv, RoutesAgree, Quiet, NEW f \in Flows, Asks(proc, Caller[f], f), Clear(f)
    PROVE  Up(proc, Caller[f], f) /\ Up(proc, Callee[f], f)
<1>1. LiveOK(proc, wire, f)
  BY DEF IInv, Live
<1>2. /\ Length(f) \in Nat /\ 1 \in 1 .. Length(f)
      /\ \A k \in 0 .. Length(f) : Way[f][k] \in Nodes
      /\ \A k \in 0 .. (Length(f) - 1) : Way[f][k + 1] = NextHop[Way[f][k]][Callee[f]]
  BY WayEnds
<1>3. Way[f][0] = Caller[f] /\ QoS[f] \in Cubes /\ Callee[f] \in Nodes
  BY WayType, QoSIsCube, Constants
<1>4. ASSUME NEW k \in 1 .. Length(f)
      PROVE  /\ Way[f][k - 1] \in Nodes /\ Way[f][k] \in Nodes
             /\ Way[f][k] = NextHop[Way[f][k - 1]][Callee[f]]
             /\ ~MayBeStuck(Way[f][k - 1], Way[f][k]) /\ ~MayBeStuck(Way[f][k], Way[f][k - 1])
  <2>1. k \in 0 .. Length(f) /\ k - 1 \in 0 .. Length(f) /\ k - 1 \in 0 .. (Length(f) - 1)
        /\ (k - 1) + 1 = k
    BY <1>2
  <2> DEFINE h == <<Way[f][k - 1], Way[f][k]>>
  <2>2. h \in HopsOf(f)
    BY DEF HopsOf
  <2>3. ~MayBeStuck(h[1], h[2])
    <3> HIDE DEF h
    <3> QED
      BY <2>2 DEF Clear
  <2>4. ~MayBeStuck(Way[f][k - 1], Way[f][k])
    BY <2>3
  <2>5. \A x, y : MayBeStuck(x, y) => MayBeStuck(y, x)
    BY DEF MayBeStuck
  <2> QED
    BY <1>2, <2>1, <2>4, <2>5
<1>5. ~Coming(proc, wire, f)
  <2>1. ~Awaited(wire, Caller[f], Way[f][1], QoS[f])
    <3>1. Caller[f] = Way[f][1 - 1] /\ Caller[f] \in Nodes /\ Way[f][1] \in Nodes
      BY <1>2, <1>3, <1>4
    <3>2. Awaited(wire, Caller[f], Way[f][1], QoS[f]) => IsRefused(Caller[f], Way[f][1], QoS[f])
      BY <3>1, QuietSent DEF Awaited
    <3>3. ~MayBeStuck(Caller[f], Way[f][1])
      BY <1>2, <1>4, <3>1
    <3> QED
      BY <3>2, <3>3, RefusedIsStuck
  <2>2. \A k \in 1 .. Length(f) : ~Under(proc, wire, Way[f][k - 1], Way[f][k], Req(f, Callee[f]))
    BY <1>4, UnderIsStuck
  <2>3. \A k \in 1 .. Length(f) : ~Waits(proc, Way[f][k - 1], f, Callee[f])
    <3> SUFFICES ASSUME NEW k \in 1 .. Length(f), Waits(proc, Way[f][k - 1], f, Callee[f])
                 PROVE  FALSE
      OBVIOUS
    <3>1. IsRefused(Way[f][k - 1], Way[f][k], QoS[f])
      BY <1>3, <1>4, QuietSent
    <3> QED
      BY <1>4, <3>1, RefusedIsStuck
  <2> QED
    BY <2>1, <2>2, <2>3 DEF Coming
<1>6. ~Returning(proc, wire, f)
  BY <1>4, UnderIsStuck DEF Returning
<1> QED
  BY <1>1, <1>5, <1>6 DEF LiveOK

LEMMA InvNothingIsStranded ==
    ASSUME IInv, RoutesAgree
    PROVE  NothingIsStranded
<1> SUFFICES ASSUME Quiet
             PROVE  /\ \A f \in Flows :
                          (proc[Caller[f]].status[f] # "none"
                              /\ \A h \in HopsOf(f) : ~MayBeStuck(h[1], h[2]))
                          => \A n \in {Caller[f], Callee[f]} : proc[n].status[f] = "TRANSFER"
                    /\ \A n \in Nodes :
                          /\ \A i \in Range(proc[n].table) :
                                /\ i.ready \/ IsRefused(n, i.to, i.qos)
                                /\ i.queue = <<>> \/ MayBeStuck(n, i.to)
                          /\ \A e \in Range(proc[n].forwards) :
                                e.status = "FORWARDED"
                                  \/ IsRefused(n, NextHop[n][e.to], QoS[e.flow])
  BY DEF NothingIsStranded
<1>1. proc \in Procs
  BY DEF IInv, Good, Base
<1>2. \A f \in Flows :
         (proc[Caller[f]].status[f] # "none" /\ \A h \in HopsOf(f) : ~MayBeStuck(h[1], h[2]))
         => \A n \in {Caller[f], Callee[f]} : proc[n].status[f] = "TRANSFER"
  BY InvUpAtBothEnds DEF Asks, Up, Clear
<1>3. ASSUME NEW n \in Nodes, NEW i \in Range(proc[n].table)
      PROVE  /\ i.ready \/ IsRefused(n, i.to, i.qos)
             /\ i.queue = <<>> \/ MayBeStuck(n, i.to)
  <2>1. proc[n].table \in Seq(Item)
    BY <1>1 DEF Procs, Allocators
  <2>2. PICK k \in 1 .. Len(proc[n].table) : proc[n].table[k] = i
    BY <1>3, <2>1, InRange
  <2> QED
    BY <2>2, KeepsIsStuck
<1>4. ASSUME NEW n \in Nodes, NEW e \in Range(proc[n].forwards)
      PROVE  e.status = "FORWARDED" \/ IsRefused(n, NextHop[n][e.to], QoS[e.flow])
  <2> DEFINE fw == proc[n].forwards
             R == [flow : Flows, to : Nodes, status : {"FORWARDING", "FORWARDED"}]
  <2>1. fw \in Seq(R)
    BY <1>1 DEF Procs, Allocators
  <2>2. PICK k \in 1 .. Len(fw) : fw[k] = e
    <3> HIDE DEF R
    <3> QED
      BY <1>4, <2>1, InRange
  <2>3. e \in R
    <3> HIDE DEF fw, R
    <3> QED
      BY <2>1, <2>2
  <2>4. e.status # "FORWARDED" => Waits(proc, n, e.flow, e.to)
    BY <2>2, <2>3 DEF Waits
  <2>5. e.flow \in Flows /\ e.to \in Nodes
    BY <2>3
  <2> QED
    BY <2>4, <2>5, QuietSent
<1> QED
  BY <1>2, <1>3, <1>4

-----------------------------------------------------------------------------
(* The RA asks for an (N-1)-flow to a neighbour once per cube, and a flow  *)
(* is entered once at each end (RA::bindNFlowToNM1Flow,                    *)
(* FA::receiveCreateFlowRequestFromRibd): the tables agree in every        *)
(* reachable state, whatever the routes.                                   *)
THEOREM ItemsAlwaysAgree == Spec => []ItemsAgree
<1>1. Spec => []IInv
  BY InvInit, InvNext, PTL DEF Spec
<1> QED
  BY <1>1, InvItemsAgree, PTL

(* When the caller learns that its flow is up                              *)
(* (FAI::receiveCreateResponsePositive), every hop has a ready (N-1)-flow  *)
(* of its cube both ways, but those before the callee that were refused:   *)
(* for any routes that come back the way they went.                        *)
THEOREM PathAlwaysReady ==
    ASSUME RoutesAgree
    PROVE  Spec => []PathIsReady
<1>1. Spec => []IInv
  BY InvInit, InvNext, PTL DEF Spec
<1>2. IInv => PathIsReady
  BY InvPathIsReady
<1> QED
  BY <1>1, <1>2, PTL

(* Whatever waits for an (N-1)-flow goes on when that comes up             *)
(* (LisRACreResPosi, LisFAICreResPosiNminusOne, LisFACreFloPosi): when     *)
(* nothing is under way, no flow that cannot meet a refusal is stranded.   *)
THEOREM NothingEverStranded ==
    ASSUME RoutesAgree
    PROVE  Spec => []NothingIsStranded
<1>1. Spec => []IInv
  BY InvInit, InvNext, PTL DEF Spec
<1>2. IInv => NothingIsStranded
  BY InvNothingIsStranded
<1> QED
  BY <1>1, <1>2, PTL
=============================================================================
