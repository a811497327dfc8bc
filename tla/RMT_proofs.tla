----------------------------- MODULE RMT_proofs -----------------------------
(***************************************************************************)
(* Proofs about the relaying and multiplexing task, for any number of      *)
(* ports, queues and PDUs, any queue lengths and every policy: no PDU is   *)
(* sent while the medium transmits another, no open port gets stuck, a     *)
(* queue at its limit is dealt with as its policy promises, the PDUs of a  *)
(* source and a QoS leave in order, and every PDU is accounted for. What a *)
(* handler does to one direction of a port is an operator on it, so the    *)
(* lemmas say what each operator does to a direction.                      *)
(***************************************************************************)
EXTENDS RMT, TLAPS, FiniteSetTheorems, WellFoundedInduction

WellQueued(d) ==
    \A q \in QoS : \A i \in DOMAIN d.queue[q] : d.queue[q][i].pdu.qos = q

GoodDirection == {d \in Direction : WellQueued(d)}

(* What may keep an output port from sending: at most one may be there on  *)
(* the medium.                                                             *)
Tokens(d) == Len(d.link) + d.wakeups + (IF d.ready THEN 1 ELSE 0)

(* The direction is ready or an event scheduled will make it so. *)
WillServe(d) == d.ready \/ d.wakeups > 0 \/ (d.type = "out" /\ d.link # <<>>)

(* e is d after calls that neither lose nor add a chance to serve. *)
Like(d, e) ==
    /\ e \in GoodDirection
    /\ e.type = d.type
    /\ e.blocked = d.blocked
    /\ d.type = "out" => Tokens(e) <= Tokens(d)
    /\ WillServe(d) => WillServe(e)

-----------------------------------------------------------------------------
(* Min, which takes any least element, finds the one there is. *)
LEMMA LeastOfNats ==
    ASSUME NEW S \in SUBSET Nat, S # {}
    PROVE  Min(S) \in S
<1>1. IsWellFoundedOn(OpToRel(<, Nat), Nat)
  BY NatLessThanWellFounded
<1>2. PICK x \in S : \A y \in S : ~(<<y, x>> \in OpToRel(<, Nat))
  BY <1>1, WFMin
<1>3. \A y \in S : x <= y
  <2> SUFFICES ASSUME NEW y \in S, y < x PROVE FALSE
    OBVIOUS
  <2>1. <<y, x>> \in OpToRel(<, Nat)
    BY DEF OpToRel
  <2> QED
    BY <2>1, <1>2
<1> QED
  BY <1>2, <1>3 DEF Min

LEMMA DirectionFields ==
    ASSUME NEW d \in Direction
    PROVE  /\ d.type \in Types
           /\ d.ready \in BOOLEAN /\ d.blocked \in BOOLEAN
           /\ d.waiting \in Int /\ d.wakeups \in Nat
           /\ d.queue \in [QoS -> Seq(FlaggedPDU)]
           /\ d.link \in Seq(FlaggedPDU)
           /\ d.smart \in Seq(QoS)
           /\ d.dropped \in SUBSET PDU /\ d.slowed \in SUBSET PDU
BY DEF Direction

LEMMA TokensType ==
    ASSUME NEW d \in Direction
    PROVE  Tokens(d) \in Nat
<1>1. d.wakeups \in Nat /\ d.link \in Seq(FlaggedPDU)
  BY DirectionFields
<1>2. Len(d.link) \in Nat
  BY <1>1
<1> QED
  BY <1>1, <1>2 DEF Tokens

LEMMA LikeTransitive ==
    ASSUME NEW d \in GoodDirection, NEW e, NEW f, Like(d, e), Like(e, f)
    PROVE  Like(d, f)
<1>1. d \in Direction /\ e \in Direction /\ f \in Direction
  BY DEF Like, GoodDirection
<1>2. Tokens(d) \in Nat /\ Tokens(e) \in Nat /\ Tokens(f) \in Nat
  BY <1>1, TokensType
<1> QED
  BY <1>2 DEF Like

(* Among the queues of a port one is at least as long as the others: the   *)
(* fewest queues are longer than it.                                       *)
LEMMA LongestQueueType ==
    ASSUME NEW d \in Direction
    PROVE  /\ LongestQueue(d) \in QoS
           /\ \A q \in QoS : Len(d.queue[q]) <= Len(d.queue[LongestQueue(d)])
<1> DEFINE D == DOMAIN QueueIds
           L(i) == Len(d.queue[QueueIds[i]])
           Longer(i) == {j \in D : L(j) > L(i)}
           T == {Cardinality(Longer(i)) : i \in D}
<1>1. D = 1..Len(QueueIds) /\ Len(QueueIds) \in Nat \ {0}
  BY QueueAssumption
<1>2. IsFiniteSet(D)
  BY <1>1, FS_Interval
<1>3. \A i \in D : QueueIds[i] \in QoS
  BY <1>1, QueueAssumption DEF QoS, Range
<1>4. \A i \in D : L(i) \in Nat
  BY <1>3 DEF Direction
<1>5. \A i \in D : IsFiniteSet(Longer(i)) /\ Cardinality(Longer(i)) \in Nat
  BY <1>2, FS_Subset, FS_CardinalityType
<1>6. IsWellFoundedOn(OpToRel(<, Nat), Nat)
  BY NatLessThanWellFounded
<1>7. T \subseteq Nat /\ T # {}
  <2>1. 1 \in D
    BY <1>1
  <2>2. Cardinality(Longer(1)) \in T
    BY <2>1
  <2>3. T \subseteq Nat
    BY <1>5
  <2> QED
    BY <2>2, <2>3
<1>8. PICK c \in T : \A x \in T : ~(<<x, c>> \in OpToRel(<, Nat))
  BY <1>6, <1>7, WFMin
<1>9. PICK i \in D : c = Cardinality(Longer(i))
  BY <1>8
<1>10. \A j \in D : L(j) <= L(i)
  <2> SUFFICES ASSUME NEW j \in D, L(j) > L(i) PROVE FALSE
    BY <1>4
  <2>1. Longer(j) \subseteq Longer(i)
    BY <1>4
  <2>2. j \in Longer(i) /\ j \notin Longer(j)
    BY <1>4
  <2>3. /\ Cardinality(Longer(j)) <= Cardinality(Longer(i))
        /\ Cardinality(Longer(j)) # Cardinality(Longer(i))
    <3>1. IsFiniteSet(Longer(i)) /\ Longer(j) \in SUBSET Longer(i)
      BY <2>1, <1>5
    <3>2. Longer(j) # Longer(i)
      BY <2>2
    <3> HIDE DEF Longer
    <3> QED
      BY <3>1, <3>2, FS_Subset
  <2>4. Cardinality(Longer(j)) < Cardinality(Longer(i))
    <3>1. Cardinality(Longer(i)) \in Nat /\ Cardinality(Longer(j)) \in Nat
      BY <1>5
    <3> HIDE DEF Longer
    <3> QED
      BY <2>3, <3>1
  <2>5. <<Cardinality(Longer(j)), c>> \in OpToRel(<, Nat)
    BY <2>4, <1>5, <1>9 DEF OpToRel
  <2> QED
    BY <2>5, <1>8
<1> DEFINE S == {k \in D : \A j \in D : L(j) <= L(k)}
<1>11. S \subseteq Nat /\ S # {}
  BY <1>1, <1>10
<1>12. Min(S) \in S
  BY <1>11, LeastOfNats
<1>13. LongestQueue(d) = QueueIds[Min(S)]
  BY DEF LongestQueue
<1>14. ASSUME NEW q \in QoS PROVE Len(d.queue[q]) <= Len(d.queue[LongestQueue(d)])
  <2>1. PICK j \in D : q = QueueIds[j]
    BY <1>14 DEF QoS, Range
  <2> QED
    BY <1>12, <1>13, <2>1
<1> QED
  BY <1>12, <1>13, <1>14, <1>3

-----------------------------------------------------------------------------
(* What each call does to a direction. *)

LEMMA TailFacts ==
    ASSUME NEW S, NEW s \in Seq(S), s # <<>>
    PROVE  /\ Tail(s) \in Seq(S) /\ Head(s) \in S
           /\ Len(Tail(s)) = Len(s) - 1 /\ Len(s) \in Nat \ {0}
           /\ \A i \in DOMAIN Tail(s) : i + 1 \in DOMAIN s /\ Tail(s)[i] = s[i + 1]
OBVIOUS

LEMMA FrontFacts ==
    ASSUME NEW S, NEW s \in Seq(S), s # <<>>
    PROVE  /\ Front(s) \in Seq(S) /\ Last(s) \in S
           /\ \A i \in DOMAIN Front(s) : i \in DOMAIN s /\ Front(s)[i] = s[i]
           /\ Len(s) \in DOMAIN s /\ Last(s) = s[Len(s)]
BY DEF Front, Last

(* A released PDU takes the place of the port's being ready. *)
LEMMA ReleaseLike ==
    ASSUME NEW d \in GoodDirection, NEW q \in QoS, d.ready
    PROVE  Like(d, ReleasePDU(d, q))
<1>1. CASE d.queue[q] = <<>>
  <2>1. ReleasePDU(d, q) = d
    BY <1>1 DEF ReleasePDU
  <2>2. Tokens(d) \in Nat
    BY TokensType DEF GoodDirection
  <2> QED
    BY <2>1, <2>2 DEF Like
<1>2. CASE d.queue[q] # <<>>
  <2> DEFINE e == ReleasePDU(d, q)
  <2>1. d \in Direction /\ WellQueued(d)
    BY DEF GoodDirection
  <2>2. /\ d.type \in Types /\ d.blocked \in BOOLEAN /\ d.waiting \in Int
        /\ d.wakeups \in Nat /\ d.queue \in [QoS -> Seq(FlaggedPDU)]
        /\ d.link \in Seq(FlaggedPDU) /\ d.smart \in Seq(QoS)
        /\ d.dropped \in SUBSET PDU /\ d.slowed \in SUBSET PDU
    BY <2>1, DirectionFields
  <2>3. d.queue[q] \in Seq(FlaggedPDU)
    BY <2>2
  <2>4. /\ Tail(d.queue[q]) \in Seq(FlaggedPDU) /\ Head(d.queue[q]) \in FlaggedPDU
        /\ \A i \in DOMAIN Tail(d.queue[q]) :
              i + 1 \in DOMAIN d.queue[q] /\ Tail(d.queue[q])[i] = d.queue[q][i + 1]
    BY <2>3, <1>2, TailFacts
  <2>5. e = [type |-> d.type, ready |-> FALSE, blocked |-> d.blocked,
             waiting |-> d.waiting - 1,
             queue |-> [d.queue EXCEPT ![q] = Tail(@)],
             link |-> Append(d.link, Head(d.queue[q])),
             wakeups |-> IF d.type = "in" THEN d.wakeups + 1 ELSE d.wakeups,
             smart |-> d.smart, dropped |-> d.dropped, slowed |-> d.slowed]
    BY <1>2, <2>1 DEF ReleasePDU, PostQueueDeparture, Direction
  <2> HIDE DEF e
  <2>6. e \in Direction
    <3>1. Append(d.link, Head(d.queue[q])) \in Seq(FlaggedPDU)
      BY <2>2, <2>4
    <3>2. [d.queue EXCEPT ![q] = Tail(@)] \in [QoS -> Seq(FlaggedPDU)]
      BY <2>2, <2>4
    <3> QED
      BY <2>2, <2>5, <3>1, <3>2 DEF Direction
  <2>7. WellQueued(e)
    <3>1. \A r \in QoS : e.queue[r] = IF r = q THEN Tail(d.queue[q]) ELSE d.queue[r]
      BY <2>2, <2>5
    <3> SUFFICES ASSUME NEW r \in QoS, NEW i \in DOMAIN e.queue[r]
                 PROVE  e.queue[r][i].pdu.qos = r
      BY DEF WellQueued
    <3>2. CASE r = q
      <4>1. i \in DOMAIN Tail(d.queue[q]) /\ e.queue[r][i] = d.queue[q][i + 1]
        BY <2>4, <3>1, <3>2
      <4> QED
        BY <4>1, <2>1, <2>4, <3>2 DEF WellQueued
    <3>3. CASE r # q
      BY <2>1, <3>1, <3>3 DEF WellQueued
    <3> QED
      BY <3>2, <3>3
  <2>8. d.type = "out" => Tokens(e) <= Tokens(d)
    <3>1. Len(e.link) = Len(d.link) + 1 /\ Len(d.link) \in Nat
      BY <2>2, <2>4, <2>5
    <3>2. d.type = "out" => e.wakeups = d.wakeups
      BY <2>5
    <3>3. e.ready = FALSE
      BY <2>5
    <3> QED
      BY <2>2, <3>1, <3>2, <3>3 DEF Tokens
  <2>9. WillServe(e)
    <3>1. CASE d.type = "in"
      BY <3>1, <2>2, <2>5 DEF WillServe
    <3>2. CASE d.type = "out"
      <4>1. e.link # <<>> /\ e.type = "out"
        <5>1. Len(e.link) = Len(d.link) + 1 /\ Len(d.link) \in Nat
          BY <2>2, <2>4, <2>5
        <5>2. e.type = d.type
          BY <2>5
        <5> QED
          BY <5>1, <5>2, <3>2
      <4> QED
        BY <4>1 DEF WillServe
    <3> QED
      BY <3>1, <3>2, <2>2 DEF Types
  <2>10. e.type = d.type /\ e.blocked = d.blocked
    BY <2>5
  <2> QED
    BY <2>6, <2>7, <2>8, <2>9, <2>10 DEF Like, GoodDirection, e
<1> QED
  BY <1>1, <1>2

(* Whichever queue the scheduler picks, the port serves it or stays ready. *)
LEMMA ProcessQueuesLike ==
    ASSUME NEW d \in GoodDirection
    PROVE  Like(d, ProcessQueues(d))
<1>0. d \in Direction /\ Tokens(d) \in Nat
  BY TokensType DEF GoodDirection
<1>1. CASE ~d.ready \/ d.waiting = 0
  <2>1. ProcessQueues(d) = d
    BY <1>1 DEF ProcessQueues
  <2> QED
    BY <2>1, <1>0 DEF Like
<1>2. CASE d.ready /\ d.waiting # 0 /\ Scheduler = "LongestQFirst"
  <2>1. ProcessQueues(d) = ReleasePDU(d, LongestQueue(d))
    BY <1>2 DEF ProcessQueues
  <2> QED
    BY <2>1, <1>0, <1>2, LongestQueueType, ReleaseLike
<1>3. CASE d.ready /\ d.waiting # 0 /\ Scheduler # "LongestQFirst" /\ d.smart = <<>>
  <2>1. ProcessQueues(d) = d
    BY <1>3 DEF ProcessQueues
  <2> QED
    BY <2>1, <1>0 DEF Like
<1>4. CASE d.ready /\ d.waiting # 0 /\ Scheduler # "LongestQFirst" /\ d.smart # <<>>
  <2> DEFINE e == [d EXCEPT !.smart = Tail(@)]
  <2>1. ProcessQueues(d) = ReleasePDU(e, Head(d.smart))
    BY <1>4 DEF ProcessQueues
  <2>2. Tail(d.smart) \in Seq(QoS) /\ Head(d.smart) \in QoS
    BY <1>0, <1>4, DirectionFields, TailFacts
  <2>3. e \in Direction
    BY <1>0, <2>2 DEF Direction
  <2>4. /\ e.type = d.type /\ e.ready = d.ready /\ e.blocked = d.blocked
        /\ e.link = d.link /\ e.wakeups = d.wakeups /\ e.queue = d.queue
    BY <1>0 DEF Direction
  <2> HIDE DEF e
  <2>5. e \in GoodDirection
    BY <2>3, <2>4 DEF GoodDirection, WellQueued
  <2>6. Like(d, e)
    <3>1. Tokens(e) = Tokens(d) /\ WillServe(e) = WillServe(d)
      BY <2>4 DEF Tokens, WillServe
    <3> QED
      BY <3>1, <1>0, <2>4, <2>5 DEF Like
  <2>7. Like(e, ReleasePDU(e, Head(d.smart)))
    BY <1>4, <2>2, <2>4, <2>5, ReleaseLike
  <2> QED
    BY <2>1, <2>5, <2>6, <2>7, LikeTransitive DEF Like
<1> QED
  BY <1>1, <1>2, <1>3, <1>4

(* Getting ready adds at most one chance to serve, and only an output that *)
(* is blocked gets none.                                                   *)
LEMMA SetReadyFacts ==
    ASSUME NEW d \in GoodDirection
    PROVE  LET e == SetReady(d)
           IN  /\ e \in GoodDirection
               /\ e.type = d.type /\ e.blocked = d.blocked
               /\ d.type = "out" => Tokens(e) <= Tokens(d) + 1
               /\ d.blocked \/ WillServe(e)
<1>0. d \in Direction /\ Tokens(d) \in Nat
  BY TokensType DEF GoodDirection
<1>1. CASE d.blocked
  <2>1. SetReady(d) = d
    BY <1>1 DEF SetReady
  <2> QED
    BY <2>1, <1>0, <1>1
<1>2. CASE ~d.blocked
  <2> DEFINE r == [d EXCEPT !.ready = TRUE]
  <2>1. SetReady(d) = ProcessQueues(r)
    BY <1>2 DEF SetReady
  <2>2. r \in GoodDirection /\ r.type = d.type /\ r.blocked = d.blocked /\ WillServe(r)
    BY <1>0 DEF GoodDirection, Direction, WellQueued, WillServe
  <2>3. Tokens(r) <= Tokens(d) + 1
    <3>1. d.wakeups \in Nat /\ Len(d.link) \in Nat /\ d.ready \in BOOLEAN
      BY <1>0, DirectionFields
    <3>2. r.link = d.link /\ r.wakeups = d.wakeups /\ r.ready = TRUE
      BY <1>0 DEF Direction
    <3> QED
      BY <3>1, <3>2 DEF Tokens
  <2>4. Tokens(r) \in Nat
    BY <2>2, TokensType DEF GoodDirection
  <2>5. Like(r, ProcessQueues(r))
    BY <2>2, ProcessQueuesLike
  <2>6. ProcessQueues(r) \in GoodDirection /\ Tokens(ProcessQueues(r)) \in Nat
    BY <2>5, TokensType DEF Like, GoodDirection
  <2> HIDE DEF r
  <2> QED
    BY <1>0, <1>2, <2>1, <2>2, <2>3, <2>4, <2>5, <2>6 DEF Like
<1> QED
  BY <1>1, <1>2

(* A change to what is queued, and to nothing that matters for serving. *)
Keeps(d, e) ==
    /\ e \in GoodDirection
    /\ e.type = d.type /\ e.ready = d.ready /\ e.blocked = d.blocked
    /\ e.link = d.link /\ e.wakeups = d.wakeups

LEMMA KeepsLike ==
    ASSUME NEW d \in GoodDirection, NEW e, Keeps(d, e)
    PROVE  Like(d, e)
<1>1. Tokens(d) \in Nat
  BY TokensType DEF GoodDirection
<1>2. Tokens(e) = Tokens(d) /\ WillServe(e) = WillServe(d)
  BY DEF Keeps, Tokens, WillServe
<1> QED
  BY <1>1, <1>2 DEF Keeps, Like

(* A queue whose PDUs all have its QoS may replace it. *)
LEMMA NewQueueKeeps ==
    ASSUME NEW d \in GoodDirection, NEW q \in QoS, NEW s \in Seq(FlaggedPDU),
           \A i \in DOMAIN s : s[i].pdu.qos = q
    PROVE  Keeps(d, [d EXCEPT !.queue[q] = s])
<1> DEFINE e == [d EXCEPT !.queue[q] = s]
<1>1. d \in Direction /\ WellQueued(d)
  BY DEF GoodDirection
<1>2. d.queue \in [QoS -> Seq(FlaggedPDU)]
  BY <1>1, DirectionFields
<1>3. [d.queue EXCEPT ![q] = s] \in [QoS -> Seq(FlaggedPDU)]
  BY <1>2
<1>4. /\ e \in Direction /\ e.queue = [d.queue EXCEPT ![q] = s]
      /\ e.type = d.type /\ e.ready = d.ready /\ e.blocked = d.blocked
      /\ e.link = d.link /\ e.wakeups = d.wakeups
  BY <1>1, <1>3 DEF Direction
<1> HIDE DEF e
<1>5. \A r \in QoS : e.queue[r] = IF r = q THEN s ELSE d.queue[r]
  BY <1>2, <1>4
<1>6. WellQueued(e)
  <2> SUFFICES ASSUME NEW r \in QoS, NEW i \in DOMAIN e.queue[r]
               PROVE  e.queue[r][i].pdu.qos = r
    BY DEF WellQueued
  <2>1. CASE r = q
    BY <1>5, <2>1
  <2>2. CASE r # q
    BY <1>1, <1>5, <2>2 DEF WellQueued
  <2> QED
    BY <2>1, <2>2
<1> QED
  BY <1>4, <1>6 DEF Keeps, GoodDirection, e

(* A change of the other fields does not matter for serving either. *)
LEMMA NewCountsKeep ==
    ASSUME NEW d \in GoodDirection, NEW e \in Direction,
           e.type = d.type, e.ready = d.ready, e.blocked = d.blocked,
           e.link = d.link, e.wakeups = d.wakeups, e.queue = d.queue
    PROVE  Keeps(d, e)
BY DEF Keeps, GoodDirection, WellQueued

LEMMA KeepsTransitive ==
    ASSUME NEW d, NEW e, NEW f, Keeps(d, e), Keeps(e, f)
    PROVE  Keeps(d, f)
BY DEF Keeps

(* The queue of a direction, and what its ends are. *)
LEMMA QueueFacts ==
    ASSUME NEW d \in GoodDirection, NEW q \in QoS
    PROVE  /\ d \in Direction /\ d.queue[q] \in Seq(FlaggedPDU)
           /\ \A i \in DOMAIN d.queue[q] : d.queue[q][i].pdu.qos = q
BY DirectionFields DEF GoodDirection, WellQueued

LEMMA DropLastKeeps ==
    ASSUME NEW d \in GoodDirection, NEW q \in QoS, d.queue[q] # <<>>
    PROVE  Keeps(d, DropLast(d, q))
<1> DEFINE s == d.queue[q]
           e == [d EXCEPT !.queue[q] = Front(s)]
<1>1. d \in Direction /\ s \in Seq(FlaggedPDU) /\ \A i \in DOMAIN s : s[i].pdu.qos = q
  BY QueueFacts
<1>2. /\ Front(s) \in Seq(FlaggedPDU) /\ Last(s) \in FlaggedPDU
      /\ \A i \in DOMAIN Front(s) : Front(s)[i].pdu.qos = q
  <2> HIDE DEF s
  <2> QED
    BY <1>1, FrontFacts DEF s
<1>3. Keeps(d, e)
  BY <1>2, NewQueueKeeps
<1>4. DropLast(d, q) = [e EXCEPT !.dropped = d.dropped \union {Last(s).pdu}]
  BY <1>1 DEF DropLast, Direction
<1>5. e \in GoodDirection /\ e \in Direction
  BY <1>3 DEF Keeps, GoodDirection
<1>6. d.dropped \union {Last(s).pdu} \in SUBSET PDU
  BY <1>1, <1>2, DirectionFields DEF FlaggedPDU
<1> HIDE DEF e, s
<1>7. Keeps(e, [e EXCEPT !.dropped = d.dropped \union {Last(s).pdu}])
  <2> DEFINE f == [e EXCEPT !.dropped = d.dropped \union {Last(s).pdu}]
  <2>1. /\ f \in Direction /\ f.type = e.type /\ f.ready = e.ready /\ f.blocked = e.blocked
        /\ f.link = e.link /\ f.wakeups = e.wakeups /\ f.queue = e.queue
    BY <1>5, <1>6 DEF Direction
  <2> HIDE DEF f
  <2>2. Keeps(e, f)
    BY <1>5, <2>1, NewCountsKeep
  <2> QED
    BY <2>2 DEF f
<1> QED
  BY <1>3, <1>4, <1>7, KeepsTransitive

LEMMA OnMessageDropKeeps ==
    ASSUME NEW d \in GoodDirection, NEW q \in QoS
    PROVE  Keeps(d, OnMessageDrop(d, q))
<1>1. d \in Direction /\ d.smart \in Seq(QoS)
  BY DirectionFields DEF GoodDirection
<1>2. CASE OnMessageDrop(d, q) = d
  BY <1>1, <1>2, NewCountsKeep
<1>3. CASE d.smart # <<>> /\ OnMessageDrop(d, q) = [d EXCEPT !.smart = Front(@)]
  <2> DEFINE f == [d EXCEPT !.smart = Front(@)]
  <2>1. Front(d.smart) \in Seq(QoS)
    BY <1>1, <1>3, FrontFacts
  <2>2. /\ f \in Direction /\ f.type = d.type /\ f.ready = d.ready /\ f.blocked = d.blocked
        /\ f.link = d.link /\ f.wakeups = d.wakeups /\ f.queue = d.queue
    BY <1>1, <2>1 DEF Direction
  <2> HIDE DEF f
  <2>3. Keeps(d, f)
    BY <2>2, NewCountsKeep
  <2> QED
    BY <2>3, <1>3 DEF f
<1> QED
  BY <1>2, <1>3 DEF OnMessageDrop

LEMMA RunMaxQKeeps ==
    ASSUME NEW d \in GoodDirection, NEW q \in QoS, d.queue[q] # <<>>
    PROVE  Keeps(d, RunMaxQ(d, q))
<1> DEFINE s == d.queue[q]
<1>1. d \in Direction /\ s \in Seq(FlaggedPDU) /\ \A i \in DOMAIN s : s[i].pdu.qos = q
  BY QueueFacts
<1>2. /\ Front(s) \in Seq(FlaggedPDU) /\ Last(s) \in FlaggedPDU /\ Last(s).pdu.qos = q
      /\ \A i \in DOMAIN Front(s) : Front(s)[i].pdu.qos = q
  <2>0. s # <<>>
    OBVIOUS
  <2> HIDE DEF s
  <2>1. /\ Front(s) \in Seq(FlaggedPDU) /\ Last(s) \in FlaggedPDU
        /\ \A i \in DOMAIN Front(s) : i \in DOMAIN s /\ Front(s)[i] = s[i]
        /\ Len(s) \in DOMAIN s /\ Last(s) = s[Len(s)]
    BY <1>1, <2>0, FrontFacts
  <2> QED
    BY <1>1, <2>1
<1>3. CASE RunMaxQ(d, q) = MarkCongestionOnLast(d, q)
  <2> DEFINE m == Append(Front(s), Marked(Last(s).pdu))
  <2>1. Marked(Last(s).pdu) \in FlaggedPDU /\ Marked(Last(s).pdu).pdu.qos = q
    BY <1>2 DEF Marked, FlaggedPDU
  <2>2. m \in Seq(FlaggedPDU) /\ \A i \in DOMAIN m : m[i].pdu.qos = q
    <3> HIDE DEF s
    <3>1. \A i \in DOMAIN m :
             m[i] = IF i = Len(Front(s)) + 1 THEN Marked(Last(s).pdu) ELSE Front(s)[i]
      BY <1>2, <2>1
    <3>2. \A i \in DOMAIN m : i = Len(Front(s)) + 1 \/ i \in DOMAIN Front(s)
      BY <1>2, <2>1
    <3> QED
      BY <1>2, <2>1, <3>1, <3>2
  <2>3. Keeps(d, [d EXCEPT !.queue[q] = m])
    <3> HIDE DEF m
    <3> QED
      BY <2>2, NewQueueKeeps
  <2>4. MarkCongestionOnLast(d, q) = [d EXCEPT !.queue[q] = m]
    BY <1>1 DEF MarkCongestionOnLast, Direction
  <2> QED
    BY <1>3, <2>3, <2>4
<1>4. CASE RunMaxQ(d, q) = NotifySenderOfCongestion(d, q)
  <2> DEFINE S == d.slowed \union {Last(s).pdu}
             f == [d EXCEPT !.slowed = S]
  <2>1. S \in SUBSET PDU
    BY <1>1, <1>2, DirectionFields DEF FlaggedPDU
  <2>2. NotifySenderOfCongestion(d, q) = f
    BY DEF NotifySenderOfCongestion
  <2> HIDE DEF S
  <2>3. /\ f \in Direction /\ f.type = d.type /\ f.ready = d.ready /\ f.blocked = d.blocked
        /\ f.link = d.link /\ f.wakeups = d.wakeups /\ f.queue = d.queue
    BY <1>1, <2>1 DEF Direction
  <2> HIDE DEF f
  <2> QED
    BY <1>4, <2>2, <2>3, NewCountsKeep
<1>5. CASE RunMaxQ(d, q) = d
  BY <1>1, <1>5, NewCountsKeep
<1> QED
  BY <1>3, <1>4, <1>5 DEF RunMaxQ

(* A PDU that arrives in a queue leaves the port a chance to serve.        *)
LEMMA EnqueueLike ==
    ASSUME NEW d \in GoodDirection, NEW u \in FlaggedPDU, u.pdu.qos \in QoS, NEW error
    PROVE  Like(d, EnqueuePDU(d, u, error))
<1> DEFINE q == u.pdu.qos
           s == Append(d.queue[q], u)
           e == [d EXCEPT !.queue[q] = s]
<1>1. d \in Direction /\ d.queue[q] \in Seq(FlaggedPDU)
      /\ \A i \in DOMAIN d.queue[q] : d.queue[q][i].pdu.qos = q
  BY QueueFacts
<1>2. s \in Seq(FlaggedPDU) /\ (\A i \in DOMAIN s : s[i].pdu.qos = q) /\ Len(s) # 0
  <2>1. \A i \in DOMAIN s : s[i] = IF i = Len(d.queue[q]) + 1 THEN u ELSE d.queue[q][i]
    BY <1>1
  <2>2. \A i \in DOMAIN s : i = Len(d.queue[q]) + 1 \/ i \in DOMAIN d.queue[q]
    BY <1>1
  <2>3. s \in Seq(FlaggedPDU) /\ Len(s) # 0
    BY <1>1
  <2> HIDE DEF s
  <2> QED
    BY <1>1, <2>1, <2>2, <2>3
<1>3. EnqueuePDU(d, u, error) = PostQueueArrival(e, q, error)
  BY <1>1 DEF EnqueuePDU
<1>4. Keeps(d, e) /\ e \in GoodDirection /\ e \in Direction
  <2>1. Keeps(d, e)
    <3> HIDE DEF s
    <3> QED
      BY <1>2, NewQueueKeeps
  <2> QED
    BY <2>1 DEF Keeps, GoodDirection
<1>5. e.queue[q] = s /\ q \in QoS
  BY <1>1, DirectionFields
<1>6. e.queue[q] # <<>>
  BY <1>2, <1>5
<1> HIDE DEF e, s, q
<1>7. CASE PostQueueArrival(e, q, error) = DropLast(e, q)
  BY <1>3, <1>4, <1>5, <1>6, <1>7, DropLastKeeps, KeepsTransitive, KeepsLike
<1>8. CASE PostQueueArrival(e, q, error) = OnMessageDrop(DropLast(e, q), q)
  <2>1. Keeps(e, DropLast(e, q)) /\ DropLast(e, q) \in GoodDirection
    BY <1>4, <1>5, <1>6, DropLastKeeps DEF Keeps
  <2>2. Keeps(DropLast(e, q), OnMessageDrop(DropLast(e, q), q))
    BY <2>1, <1>5, OnMessageDropKeeps
  <2> QED
    BY <1>3, <1>4, <1>8, <2>1, <2>2, KeepsTransitive, KeepsLike
<1>9. ASSUME NEW f, Keeps(e, f),
             PostQueueArrival(e, q, error) = ProcessQueues([f EXCEPT !.waiting = @ + 1])
      PROVE  Like(d, EnqueuePDU(d, u, error))
  <2> DEFINE w == f.waiting + 1
             g == [f EXCEPT !.waiting = w]
  <2>1. f \in GoodDirection /\ f \in Direction /\ w \in Int
    BY <1>9, DirectionFields DEF Keeps, GoodDirection
  <2>3. PostQueueArrival(e, q, error) = ProcessQueues(g)
    BY <1>9
  <2> HIDE DEF w
  <2>2. /\ g \in Direction /\ g.type = f.type /\ g.ready = f.ready /\ g.blocked = f.blocked
        /\ g.link = f.link /\ g.wakeups = f.wakeups /\ g.queue = f.queue
    BY <2>1 DEF Direction
  <2> HIDE DEF g
  <2>4. Keeps(d, g) /\ g \in GoodDirection
    <3>1. Keeps(f, g)
      BY <2>1, <2>2, NewCountsKeep
    <3>2. Keeps(d, g)
      BY <3>1, <1>4, <1>9, KeepsTransitive
    <3> QED
      BY <3>2 DEF Keeps
  <2>5. Like(d, g) /\ Like(g, ProcessQueues(g))
    BY <2>4, KeepsLike, ProcessQueuesLike
  <2> QED
    BY <1>3, <2>3, <2>5, LikeTransitive
<1>10. Keeps(e, e) /\ Keeps(e, RunMaxQ(e, q))
  BY <1>4, <1>5, <1>6, NewCountsKeep, RunMaxQKeeps
<1>11. \/ PostQueueArrival(e, q, error) = DropLast(e, q)
       \/ PostQueueArrival(e, q, error) = OnMessageDrop(DropLast(e, q), q)
       \/ PostQueueArrival(e, q, error) = ProcessQueues([RunMaxQ(e, q) EXCEPT !.waiting = @ + 1])
       \/ PostQueueArrival(e, q, error) = ProcessQueues([e EXCEPT !.waiting = @ + 1])
  BY DEF PostQueueArrival, PostPDUInsertion
<1> QED
  BY <1>7, <1>8, <1>9, <1>10, <1>11

-----------------------------------------------------------------------------
(* Type correctness. *)

DirOK == dir \in [Ports -> [Types -> Direction]]
         /\ \A p \in Ports, t \in Types : dir[p][t].type = t /\ WellQueued(dir[p][t])

LEMMA TypeOKParts ==
    TypeOK <=> /\ DirOK
               /\ node \in Nodes
               /\ busy \in [Ports -> Nat]
               /\ open \in [Ports -> BOOLEAN]
               /\ onLine \in [Ports -> Seq({e \in FlaggedPDU : e.pdu.qos \in QoS})]
               /\ fromEfcp \in Seq(FlaggedPDU)
               /\ table \in [Remote -> Entry]
               /\ gate \in [Ceps -> {"none", "null", "made"}]
               /\ ahead \in [Sources -> Seq(PDU)]
               /\ sent \in [Ports \union Ceps -> Seq(PDU)]
               /\ away \in [Whys -> SUBSET PDU]
               /\ changes \in Nat
BY DEF TypeOK, DirOK, WellQueued

LEMMA DirGood ==
    ASSUME DirOK, NEW p \in Ports, NEW t \in Types
    PROVE  /\ dir[p][t] \in GoodDirection /\ dir[p][t] \in Direction
           /\ dir[p][t].type = t
BY DEF DirOK, GoodDirection

(* A step that changes one direction, into a good one. *)
LEMMA OneDirection ==
    ASSUME DirOK, NEW p \in Ports, NEW t \in Types, NEW e \in GoodDirection, e.type = t,
           dir' = [dir EXCEPT ![p][t] = e]
    PROVE  /\ DirOK'
           /\ dir'[p][t] = e
           /\ \A r \in Ports, v \in Types : (r # p \/ v # t) => dir'[r][v] = dir[r][v]
<1>1. dir' \in [Ports -> [Types -> Direction]]
  BY DEF DirOK, GoodDirection
<1>2. dir'[p][t] = e
  BY DEF DirOK
<1>3. \A r \in Ports, v \in Types : (r # p \/ v # t) => dir'[r][v] = dir[r][v]
  BY DEF DirOK
<1>4. \A r \in Ports, v \in Types : dir'[r][v].type = v /\ WellQueued(dir'[r][v])
  <2> SUFFICES ASSUME NEW r \in Ports, NEW v \in Types
               PROVE  dir'[r][v].type = v /\ WellQueued(dir'[r][v])
    OBVIOUS
  <2>1. CASE r = p /\ v = t
    BY <1>2, <2>1 DEF GoodDirection
  <2>2. CASE r # p \/ v # t
    BY <1>3, <2>2 DEF DirOK
  <2> QED
    BY <2>1, <2>2
<1> QED
  BY <1>1, <1>2, <1>3, <1>4 DEF DirOK

LEMMA SameQueuesGood ==
    ASSUME NEW d \in GoodDirection, NEW e \in Direction, e.queue = d.queue
    PROVE  e \in GoodDirection
BY DEF GoodDirection, WellQueued

LEMMA InputChange ==
    ASSUME DirOK, NEW p \in Ports, NEW e \in GoodDirection, e.type = "in",
           dir' = [dir EXCEPT ![p]["in"] = e]
    PROVE  dir'[p]["in"] = e /\ dir'[p]["out"] = dir[p]["out"]
<1>1. dir'[p]["in"] = e
  BY DEF DirOK, Types
<1>2. dir'[p]["out"] = dir[p]["out"]
  BY DEF DirOK, Types
<1> QED
  BY <1>1, <1>2

LEMMA OutputChange ==
    ASSUME DirOK, NEW p \in Ports, NEW e \in GoodDirection, e.type = "out",
           dir' = [dir EXCEPT ![p]["out"] = e]
    PROVE  dir'[p]["out"] = e /\ dir'[p]["in"] = dir[p]["in"]
<1>1. dir'[p]["out"] = e
  BY DEF DirOK, Types
<1>2. dir'[p]["in"] = dir[p]["in"]
  BY DEF DirOK, Types
<1> QED
  BY <1>1, <1>2

LEMMA InitTypeOK == Init => TypeOK
<1> SUFFICES ASSUME Init PROVE TypeOK
  OBVIOUS
<1>1. node \in Nodes /\ node.onWire \in BOOLEAN /\ node.traffic \in [Sources -> Seq(PDU)]
  BY TrafficAssumption DEF Init, Nodes
<1>2. open \in [Ports -> BOOLEAN]
  BY <1>1 DEF Init
<1>3. DirOK
  <2>1. \A p \in Ports, t \in Types :
           dir[p][t] = [type |-> t, ready |-> open[p], blocked |-> FALSE, waiting |-> 0,
                        queue |-> [q \in QoS |-> <<>>], link |-> <<>>, wakeups |-> 0,
                        smart |-> <<>>, dropped |-> {}, slowed |-> {}]
    BY DEF Init, InitDirection
  <2>2. ASSUME NEW p \in Ports, NEW t \in Types
        PROVE  dir[p][t] \in Direction /\ dir[p][t].type = t /\ WellQueued(dir[p][t])
    <3> DEFINE n == [q \in QoS |-> <<>>]
               e == [type |-> t, ready |-> open[p], blocked |-> FALSE, waiting |-> 0,
                     queue |-> n, link |-> <<>>, wakeups |-> 0,
                     smart |-> <<>>, dropped |-> {}, slowed |-> {}]
    <3>1. dir[p][t] = e
      BY <2>1
    <3>2. n \in [QoS -> Seq(FlaggedPDU)]
      OBVIOUS
    <3>3. open[p] \in BOOLEAN /\ <<>> \in Seq(FlaggedPDU) /\ <<>> \in Seq(QoS)
      BY <1>2
    <3>4. \A q \in QoS : n[q] = <<>>
      OBVIOUS
    <3> HIDE DEF n
    <3>5. e \in Direction
      BY <3>2, <3>3 DEF Direction
    <3>6. e.type = t /\ e.queue = n
      OBVIOUS
    <3> HIDE DEF e
    <3>7. WellQueued(e)
      BY <3>4, <3>6 DEF WellQueued
    <3> QED
      BY <3>1, <3>5, <3>6, <3>7
  <2>3. \A p \in Ports, t \in Types : dir[p][t].type = t /\ WellQueued(dir[p][t])
    BY <2>2
  <2>4. dir \in [Ports -> [Types -> Direction]]
    BY <2>2 DEF Init
  <2> QED
    BY <2>3, <2>4 DEF DirOK
<1>4. ahead \in [Sources -> Seq(PDU)]
  BY <1>1 DEF Init
<1>5. table \in [Remote -> Entry]
  BY DEF Init, Entry, NoEntry
<1>6. /\ busy \in [Ports -> Nat] /\ fromEfcp \in Seq(FlaggedPDU) /\ changes \in Nat
      /\ onLine \in [Ports -> Seq({e \in FlaggedPDU : e.pdu.qos \in QoS})]
      /\ gate \in [Ceps -> {"none", "null", "made"}]
      /\ sent \in [Ports \union Ceps -> Seq(PDU)] /\ away \in [Whys -> SUBSET PDU]
  BY DEF Init
<1> QED
  BY <1>1, <1>2, <1>3, <1>4, <1>5, <1>6, TypeOKParts

(* What leaves in the RMT goes to ports and gates there are. *)
LEMMA ProcessMessageTypes ==
    ASSUME TypeOK, NEW e \in FlaggedPDU, NEW fromPort, ProcessMessage(e, fromPort)
    PROVE  /\ onLine' \in [Ports -> Seq({x \in FlaggedPDU : x.pdu.qos \in QoS})]
           /\ gate' \in [Ceps -> {"none", "null", "made"}]
           /\ sent' \in [Ports \union Ceps -> Seq(PDU)]
           /\ away' \in [Whys -> SUBSET PDU]
<1>1. /\ e.pdu \in PDU /\ e.pdu.dst \in Addresses /\ e.pdu.cep \in Ceps
  BY DEF FlaggedPDU, PDU
<1>2. \A w \in Whys : Away(e.pdu, w) => away' \in [Whys -> SUBSET PDU]
  BY <1>1 DEF TypeOK, Away
<1>3. CASE RelayPDUToEFCPI(e)
  <2>1. e.pdu.cep \in Ports \union Ceps /\ sent \in [Ports \union Ceps -> Seq(PDU)]
    BY <1>1 DEF TypeOK
  <2>2. Append(sent[e.pdu.cep], e.pdu) \in Seq(PDU)
    BY <1>1, <2>1
  <2>3. sent' \in [Ports \union Ceps -> Seq(PDU)]
    BY <1>3, <2>1, <2>2 DEF RelayPDUToEFCPI
  <2>4. gate' \in [Ceps -> {"none", "null", "made"}]
    <3>1. gate \in [Ceps -> {"none", "null", "made"}]
      BY DEF TypeOK
    <3>2. gate' = gate \/ gate' = [gate EXCEPT ![e.pdu.cep] = "null"]
      BY <1>3 DEF RelayPDUToEFCPI
    <3> QED
      BY <3>1, <3>2
  <2>5. away' \in [Whys -> SUBSET PDU]
    BY <1>2, <1>3 DEF RelayPDUToEFCPI, TypeOK, Whys
  <2>6. onLine' = onLine
    BY <1>3 DEF RelayPDUToEFCPI
  <2> QED
    BY <2>3, <2>4, <2>5, <2>6 DEF TypeOK
<1>4. CASE e.pdu.dst # Here /\ RelayPDUToPort(e)
  <2>1. FwTableLookup(e.pdu) \subseteq Ports
    <3>1. table[e.pdu.dst] \in [QoS \union {AnyQoS} -> Ports \union {"none"}]
      BY <1>1, <1>4 DEF TypeOK, Addresses, Entry
    <3>2. Lookup(e.pdu.dst, e.pdu.qos) \subseteq Ports
      BY <3>1 DEF Lookup, Range
    <3> QED
      BY <3>2, PortAssumption DEF FwTableLookup
  <2>2. CASE /\ e.pdu.qos \in QoS
             /\ \E p \in FwTableLookup(e.pdu) : onLine' = [onLine EXCEPT ![p] = Append(@, e)]
             /\ UNCHANGED <<away, gate, sent>>
    <3>1. e \in {x \in FlaggedPDU : x.pdu.qos \in QoS}
      BY <2>2
    <3>2. PICK p \in Ports : onLine' = [onLine EXCEPT ![p] = Append(@, e)]
      BY <2>1, <2>2
    <3>3. Append(onLine[p], e) \in Seq({x \in FlaggedPDU : x.pdu.qos \in QoS})
      BY <3>1 DEF TypeOK
    <3> QED
      BY <2>2, <3>2, <3>3 DEF TypeOK
  <2>3. CASE Away(e.pdu, "invalid") /\ UNCHANGED <<onLine, gate, sent>>
    BY <1>2, <2>3 DEF TypeOK, Whys
  <2>4. CASE Away(e.pdu, "noQueue") /\ UNCHANGED <<onLine, gate, sent>>
    BY <1>2, <2>4 DEF TypeOK, Whys
  <2> QED
    BY <1>4, <2>2, <2>3, <2>4 DEF RelayPDUToPort
<1>5. CASE Away(e.pdu, "held") /\ UNCHANGED <<onLine, gate, sent>>
  BY <1>2, <1>5 DEF TypeOK, Whys
<1> QED
  BY <1>3, <1>4, <1>5 DEF ProcessMessage

(* What an action does to the directions, apart from the other variables:  *)
(* the lemmas serve both type correctness and the safety invariant.        *)
LEMMA SendSouthDirs ==
    ASSUME TypeOK, NEW p \in Ports, SendSouth(p)
    PROVE  \E e \in GoodDirection, b \in {0, 1} :
              /\ dir' = [dir EXCEPT ![p]["out"] = e]
              /\ busy' = [busy EXCEPT ![p] = @ + b]
              /\ e.type = "out" /\ e.blocked = dir[p]["out"].blocked
              /\ Tokens(e) + b <= Tokens(dir[p]["out"])
              /\ WillServe(e) \/ b > 0
<1> DEFINE d == dir[p]["out"]
           l == Tail(d.link)
           w == d.wakeups + 1
           gone == [d EXCEPT !.link = l, !.ready = FALSE]
           woken == [d EXCEPT !.link = l, !.ready = FALSE, !.wakeups = w]
<1>1. d \in GoodDirection /\ d \in Direction /\ d.type = "out"
  BY DirGood, TypeOKParts DEF Types
<1>2. /\ d.link \in Seq(FlaggedPDU) /\ d.wakeups \in Nat /\ d.link # <<>>
      /\ d.blocked \in BOOLEAN /\ d.ready \in BOOLEAN
  BY <1>1, DirectionFields DEF SendSouth
<1>3. l \in Seq(FlaggedPDU) /\ Len(l) = Len(d.link) - 1 /\ Len(d.link) \in Nat /\ w \in Nat
  BY <1>2, TailFacts
<1>4. [gone EXCEPT !.wakeups = @ + 1] = woken
  BY <1>1 DEF Direction
<1>5. \/ busy' = [busy EXCEPT ![p] = @ + 1] /\ dir' = [dir EXCEPT ![p]["out"] = gone]
      \/ busy' = busy /\ dir' = [dir EXCEPT ![p]["out"] = ProcessQueues(woken)]
  BY <1>4 DEF SendSouth
<1>6. w = d.wakeups + 1
  OBVIOUS
<1> HIDE DEF l, w
<1>7. /\ gone \in Direction /\ gone.type = "out" /\ gone.blocked = d.blocked
      /\ gone.link = l /\ gone.ready = FALSE /\ gone.wakeups = d.wakeups /\ gone.queue = d.queue
  BY <1>1, <1>3 DEF Direction
<1>8. /\ woken \in Direction /\ woken.type = "out" /\ woken.blocked = d.blocked
      /\ woken.link = l /\ woken.ready = FALSE /\ woken.wakeups = w /\ woken.queue = d.queue
  BY <1>1, <1>3 DEF Direction
<1> HIDE DEF d, gone, woken
<1>9. gone \in GoodDirection /\ woken \in GoodDirection
  BY <1>1, <1>7, <1>8, SameQueuesGood
<1>10. Tokens(gone) + 1 <= Tokens(d) /\ Tokens(woken) <= Tokens(d) /\ WillServe(woken)
  BY <1>2, <1>3, <1>6, <1>7, <1>8 DEF Tokens, WillServe
<1>11. CASE busy' = [busy EXCEPT ![p] = @ + 1] /\ dir' = [dir EXCEPT ![p]["out"] = gone]
  <2> gone \in GoodDirection
    BY <1>9
  <2> WITNESS gone \in GoodDirection, 1 \in {0, 1}
  <2> QED
    BY <1>7, <1>10, <1>11 DEF d
<1>12. CASE busy' = busy /\ dir' = [dir EXCEPT ![p]["out"] = ProcessQueues(woken)]
  <2>1. Like(woken, ProcessQueues(woken))
    BY <1>9, ProcessQueuesLike
  <2>2. ProcessQueues(woken) \in GoodDirection
    BY <2>1 DEF Like
  <2>3. Tokens(woken) \in Nat /\ Tokens(d) \in Nat /\ Tokens(ProcessQueues(woken)) \in Nat
    BY <1>1, <1>9, <2>2, TokensType DEF GoodDirection
  <2>4. busy' = [busy EXCEPT ![p] = @ + 0]
    BY <1>12 DEF TypeOK
  <2>5. /\ ProcessQueues(woken).type = "out" /\ ProcessQueues(woken).blocked = d.blocked
        /\ Tokens(ProcessQueues(woken)) + 0 <= Tokens(d)
        /\ WillServe(ProcessQueues(woken))
    BY <1>8, <1>10, <2>1, <2>3 DEF Like
  <2> ProcessQueues(woken) \in GoodDirection
    BY <2>2
  <2> WITNESS ProcessQueues(woken) \in GoodDirection, 0 \in {0, 1}
  <2> QED
    BY <1>12, <2>4, <2>5 DEF d
<1> QED
  BY <1>5, <1>11, <1>12

(* A scheduled event that makes the direction ready. *)
LEMMA WakeupDirs ==
    ASSUME TypeOK, NEW p \in Ports, NEW t \in Types, Wakeup(p, t)
    PROVE  \E e \in GoodDirection :
              /\ dir' = [dir EXCEPT ![p][t] = e]
              /\ e.type = t /\ e.blocked = dir[p][t].blocked
              /\ t = "out" => Tokens(e) <= Tokens(dir[p][t])
              /\ WillServe(e) \/ e.blocked
<1> DEFINE d == dir[p][t]
           w == d.wakeups - 1
           e == [d EXCEPT !.wakeups = w]
<1>1. d \in GoodDirection /\ d \in Direction /\ d.type = t
  BY DirGood, TypeOKParts
<1>2. /\ d.link \in Seq(FlaggedPDU) /\ d.wakeups \in Nat /\ d.blocked \in BOOLEAN
      /\ d.ready \in BOOLEAN /\ w \in Nat /\ Len(d.link) \in Nat
  BY <1>1, DirectionFields DEF Wakeup
<1>3. dir' = [dir EXCEPT ![p][t] = SetReady(e)] /\ w = d.wakeups - 1
  BY DEF Wakeup
<1> HIDE DEF w
<1>4. /\ e \in Direction /\ e.type = d.type /\ e.link = d.link /\ e.ready = d.ready
      /\ e.blocked = d.blocked /\ e.wakeups = w /\ e.queue = d.queue
  BY <1>1, <1>2 DEF Direction
<1> HIDE DEF d, e
<1>5. e \in GoodDirection
  BY <1>1, <1>4, SameQueuesGood
<1>6. Tokens(e) = Tokens(d) - 1
  BY <1>2, <1>3, <1>4 DEF Tokens
<1>7. /\ SetReady(e) \in GoodDirection /\ SetReady(e).type = e.type
      /\ SetReady(e).blocked = e.blocked
      /\ e.type = "out" => Tokens(SetReady(e)) <= Tokens(e) + 1
      /\ e.blocked \/ WillServe(SetReady(e))
  BY <1>5, SetReadyFacts
<1>8. Tokens(SetReady(e)) \in Nat /\ Tokens(d) \in Nat /\ Tokens(e) \in Nat
  BY <1>1, <1>5, <1>7, TokensType DEF GoodDirection
<1> SetReady(e) \in GoodDirection
  BY <1>7
<1> WITNESS SetReady(e) \in GoodDirection
<1> QED
  BY <1>1, <1>3, <1>4, <1>6, <1>7, <1>8 DEF d

(* The arrival of a PDU in a queue of the direction. *)
LEMMA EnqueueDirs ==
    ASSUME TypeOK, NEW p \in Ports, NEW t \in Types,
           NEW u \in FlaggedPDU, u.pdu.qos \in QoS, NEW error,
           dir' = [dir EXCEPT ![p][t] = EnqueuePDU(@, u, error)]
    PROVE  \E e \in GoodDirection : /\ dir' = [dir EXCEPT ![p][t] = e]
                                    /\ e.type = t /\ Like(dir[p][t], e)
<1>1. dir[p][t] \in GoodDirection /\ dir[p][t].type = t
  BY DirGood, TypeOKParts
<1>2. Like(dir[p][t], EnqueuePDU(dir[p][t], u, error))
  BY <1>1, EnqueueLike
<1> EnqueuePDU(dir[p][t], u, error) \in GoodDirection
  BY <1>2 DEF Like
<1> WITNESS EnqueuePDU(dir[p][t], u, error) \in GoodDirection
<1> QED
  BY <1>1, <1>2 DEF Like

LEMMA ReceiveFromSouthDirs ==
    ASSUME TypeOK, NEW p \in Ports, ReceiveFromSouth(p)
    PROVE  \/ dir' = dir /\ away' \in [Whys -> SUBSET PDU]
           \/ /\ \E e \in GoodDirection : /\ dir' = [dir EXCEPT ![p]["in"] = e]
                                           /\ e.type = "in" /\ Like(dir[p]["in"], e)
              /\ away' = away
<1> DEFINE u == Head(ahead[p])
<1>1. ahead[p] \in Seq(PDU) /\ ahead[p] # <<>>
  BY DEF ReceiveFromSouth, TypeOK, Sources
<1>2. u \in PDU
  BY <1>1
<1>3. Unmarked(u) \in FlaggedPDU /\ Unmarked(u).pdu.qos = u.qos
  BY <1>2 DEF Unmarked, FlaggedPDU
<1>4. CASE u.qos \in QoS
  <2>1. PICK error : dir' = [dir EXCEPT ![p]["in"] = EnqueuePDU(@, Unmarked(u), error)]
    BY <1>4 DEF ReceiveFromSouth
  <2>2. away' = away
    BY <1>4 DEF ReceiveFromSouth
  <2>3. "in" \in Types
    BY DEF Types
  <2> HIDE DEF u
  <2> QED
    BY <1>3, <1>4, <2>1, <2>2, <2>3, EnqueueDirs
<1>5. CASE u.qos \notin QoS
  <2>1. dir' = dir /\ Away(u, "noQueue")
    BY <1>5 DEF ReceiveFromSouth
  <2>2. away' \in [Whys -> SUBSET PDU]
    BY <1>2, <2>1 DEF Away, TypeOK, Whys
  <2> QED
    BY <2>1, <2>2
<1> QED
  BY <1>4, <1>5

LEMMA EnqueueOutputDirs ==
    ASSUME TypeOK, NEW p \in Ports, EnqueueOutput(p)
    PROVE  \E e \in GoodDirection : /\ dir' = [dir EXCEPT ![p]["out"] = e]
                                    /\ e.type = "out" /\ Like(dir[p]["out"], e)
<1>1. onLine[p] \in Seq({e \in FlaggedPDU : e.pdu.qos \in QoS}) /\ onLine[p] # <<>>
  BY DEF EnqueueOutput, TypeOK
<1>2. Head(onLine[p]) \in {e \in FlaggedPDU : e.pdu.qos \in QoS}
  BY <1>1
<1>3. dir' = [dir EXCEPT ![p]["out"] = EnqueuePDU(@, Head(onLine[p]), FALSE)]
  BY DEF EnqueueOutput
<1> QED
  BY <1>2, <1>3, EnqueueDirs DEF Types

(* The end of a transmission schedules an event for the output. *)
LEMMA TransmitEndDirs ==
    ASSUME TypeOK, NEW p \in Ports, TransmitEnd(p)
    PROVE  \E e \in GoodDirection :
              /\ dir' = [dir EXCEPT ![p]["out"] = e]
              /\ e.type = "out" /\ e.blocked = dir[p]["out"].blocked
              /\ Tokens(e) = Tokens(dir[p]["out"]) + 1 /\ WillServe(e)
<1> DEFINE d == dir[p]["out"]
           w == d.wakeups + 1
           e == [d EXCEPT !.wakeups = w]
<1>1. d \in GoodDirection /\ d \in Direction /\ d.type = "out"
  BY DirGood, TypeOKParts DEF Types
<1>2. /\ d.link \in Seq(FlaggedPDU) /\ d.wakeups \in Nat /\ d.ready \in BOOLEAN
      /\ w \in Nat /\ Len(d.link) \in Nat
  BY <1>1, DirectionFields
<1>3. dir' = [dir EXCEPT ![p]["out"] = e] /\ w = d.wakeups + 1
  BY <1>1 DEF TransmitEnd, TypeOK, Direction
<1> HIDE DEF w
<1>4. /\ e \in Direction /\ e.type = d.type /\ e.link = d.link /\ e.ready = d.ready
      /\ e.blocked = d.blocked /\ e.wakeups = w /\ e.queue = d.queue
  BY <1>1, <1>2 DEF Direction
<1> HIDE DEF d, e
<1>5. Tokens(e) = Tokens(d) + 1 /\ WillServe(e)
  BY <1>2, <1>3, <1>4 DEF Tokens, WillServe
<1> e \in GoodDirection
  BY <1>1, <1>4, SameQueuesGood
<1> WITNESS e \in GoodDirection
<1> QED
  BY <1>1, <1>3, <1>4, <1>5 DEF d

(* A PDU that reached the RMT leaves the input's link. *)
LEMMA RelayFromPortDirs ==
    ASSUME TypeOK, NEW p \in Ports, RelayFromPort(p)
    PROVE  \E e \in GoodDirection :
              /\ dir' = [dir EXCEPT ![p]["in"] = e]
              /\ e.type = "in" /\ e.blocked = dir[p]["in"].blocked
              /\ WillServe(dir[p]["in"]) => WillServe(e)
<1> DEFINE d == dir[p]["in"]
           l == Tail(d.link)
           e == [d EXCEPT !.link = l]
<1>1. d \in GoodDirection /\ d \in Direction /\ d.type = "in"
  BY DirGood, TypeOKParts DEF Types
<1>2. d.link \in Seq(FlaggedPDU) /\ d.link # <<>>
  BY <1>1, DirectionFields DEF RelayFromPort
<1>3. l \in Seq(FlaggedPDU)
  BY <1>2
<1>4. dir' = [dir EXCEPT ![p]["in"] = e]
  BY <1>1 DEF RelayFromPort, TypeOK, Direction
<1> HIDE DEF l
<1>5. /\ e \in Direction /\ e.type = d.type /\ e.ready = d.ready
      /\ e.blocked = d.blocked /\ e.wakeups = d.wakeups /\ e.queue = d.queue
  BY <1>1, <1>3 DEF Direction
<1> HIDE DEF d, e
<1>6. WillServe(d) => WillServe(e)
  BY <1>1, <1>5 DEF WillServe
<1> e \in GoodDirection
  BY <1>1, <1>5, SameQueuesGood
<1> WITNESS e \in GoodDirection
<1> QED
  BY <1>1, <1>4, <1>5, <1>6 DEF d

(* The output stops being ready, or is allowed again to be so. *)
LEMMA BlockOutputDirs ==
    ASSUME TypeOK, NEW p \in Ports, BlockOutput(p)
    PROVE  \E e \in GoodDirection : /\ dir' = [dir EXCEPT ![p]["out"] = e]
                                    /\ e.type = "out" /\ e.blocked
<1> DEFINE d == dir[p]["out"]
           e == [d EXCEPT !.blocked = TRUE, !.ready = FALSE]
<1>1. d \in GoodDirection /\ d \in Direction /\ d.type = "out"
  BY DirGood, TypeOKParts DEF Types
<1>2. dir' = [dir EXCEPT ![p]["out"] = e]
  BY DEF BlockOutput
<1>3. e \in Direction /\ e.type = d.type /\ e.blocked /\ e.queue = d.queue
  BY <1>1 DEF Direction
<1> HIDE DEF d, e
<1> e \in GoodDirection
  BY <1>1, <1>3, SameQueuesGood
<1> WITNESS e \in GoodDirection
<1> QED
  BY <1>1, <1>2, <1>3

LEMMA UnblockOutputDirs ==
    ASSUME TypeOK, NEW p \in Ports, UnblockOutput(p)
    PROVE  \E e \in GoodDirection : /\ dir' = [dir EXCEPT ![p]["out"] = e]
                                    /\ e.type = "out" /\ WillServe(e)
<1> DEFINE d == dir[p]["out"]
           e == [d EXCEPT !.blocked = FALSE]
<1>1. d \in GoodDirection /\ d \in Direction /\ d.type = "out"
  BY DirGood, TypeOKParts DEF Types
<1>2. dir' = [dir EXCEPT ![p]["out"] = SetReady(e)]
  BY DEF UnblockOutput
<1>3. e \in Direction /\ e.type = d.type /\ ~e.blocked /\ e.queue = d.queue
  BY <1>1 DEF Direction
<1> HIDE DEF d, e
<1>4. e \in GoodDirection
  BY <1>1, <1>3, SameQueuesGood
<1>5. SetReady(e) \in GoodDirection /\ SetReady(e).type = e.type /\ WillServe(SetReady(e))
  BY <1>3, <1>4, SetReadyFacts
<1> SetReady(e) \in GoodDirection
  BY <1>5
<1> WITNESS SetReady(e) \in GoodDirection
<1> QED
  BY <1>1, <1>2, <1>3, <1>5

(* Both directions of a port whose (N-1)-flow is established get ready. *)
LEMMA OpenPortDirs ==
    ASSUME TypeOK, NEW p \in Ports, OpenPort(p)
    PROVE  /\ DirOK'
           /\ \A t \in Types : dir'[p][t] = SetReady(dir[p][t])
           /\ \A r \in Ports, t \in Types : r # p => dir'[r][t] = dir[r][t]
<1>1. \A r \in Ports, t \in Types :
         /\ dir[r][t] \in GoodDirection /\ dir[r][t].type = t
         /\ SetReady(dir[r][t]) \in GoodDirection /\ SetReady(dir[r][t]).type = t
  BY DirGood, TypeOKParts, SetReadyFacts
<1>2. dir' = [dir EXCEPT ![p] = [t \in Types |-> SetReady(dir[p][t])]]
  BY DEF OpenPort
<1>3. \A t \in Types : dir'[p][t] = SetReady(dir[p][t])
  BY <1>2 DEF TypeOK
<1>4. \A r \in Ports, t \in Types : r # p => dir'[r][t] = dir[r][t]
  BY <1>2 DEF TypeOK
<1>5. \A r \in Ports, t \in Types : dir'[r][t] \in GoodDirection /\ dir'[r][t].type = t
  BY <1>1, <1>3, <1>4
<1>6. dir' \in [Ports -> [Types -> Direction]]
  <2>1. [t \in Types |-> SetReady(dir[p][t])] \in [Types -> Direction]
    BY <1>1 DEF GoodDirection
  <2> QED
    BY <1>2, <2>1 DEF TypeOK
<1> QED
  BY <1>3, <1>4, <1>5, <1>6 DEF DirOK, GoodDirection

(* A step of an action is a step of one of these. *)
LEMMA NextCases ==
    ASSUME [Next]_vars
    PROVE  \/ \E p \in Ports : \/ ReceiveFromSouth(p) \/ RelayFromPort(p) \/ EnqueueOutput(p)
                              \/ SendSouth(p) \/ TransmitEnd(p) \/ OpenPort(p)
                              \/ BlockOutput(p) \/ UnblockOutput(p)
           \/ \E p \in Ports, t \in Types : Wakeup(p, t)
           \/ ReceiveFromEfcp \/ RelayFromEfcp
           \/ \E r \in Routes : ChangeRoute(r[1], r[2], r[3])
           \/ \E c \in Ceps : CreateEfcpiGate(c) \/ DeleteEfcpiGate(c)
           \/ UNCHANGED vars
BY DEF Next, Event

LEMMA StepTypeOK == TypeOK /\ [Next]_vars => TypeOK'
<1> SUFFICES ASSUME TypeOK, [Next]_vars PROVE TypeOK'
  OBVIOUS
<1> "in" \in Types /\ "out" \in Types
  BY DEF Types
<1>0. DirOK
  BY TypeOKParts
<1>1. ASSUME NEW p \in Ports, ReceiveFromSouth(p) PROVE TypeOK'
  <2>1. DirOK' /\ away' \in [Whys -> SUBSET PDU]
    <3>1. CASE dir' = dir /\ away' \in [Whys -> SUBSET PDU]
      BY <1>0, <3>1 DEF DirOK
    <3>2. ASSUME NEW e \in GoodDirection, dir' = [dir EXCEPT ![p]["in"] = e], e.type = "in",
                 away' = away
          PROVE  DirOK' /\ away' \in [Whys -> SUBSET PDU]
      <4>1. DirOK'
        BY <1>0, <3>2, OneDirection
      <4> QED
        BY <3>2, <4>1 DEF TypeOK
    <3> QED
      BY <1>1, <3>1, <3>2, ReceiveFromSouthDirs
  <2>2. ahead' \in [Sources -> Seq(PDU)]
    <3>1. ahead[p] \in Seq(PDU) /\ ahead[p] # <<>>
      BY <1>1 DEF ReceiveFromSouth, TypeOK, Sources
    <3>2. Tail(ahead[p]) \in Seq(PDU)
      BY <3>1
    <3> QED
      BY <1>1, <3>2 DEF ReceiveFromSouth, TypeOK
  <2> QED
    BY <1>1, <2>1, <2>2 DEF ReceiveFromSouth, TypeOK, DirOK, WellQueued
<1>2. ASSUME NEW p \in Ports, RelayFromPort(p) PROVE TypeOK'
  <2>1. DirOK'
    BY <1>0, <1>2, RelayFromPortDirs, OneDirection
  <2>2. ProcessMessage(Head(dir[p]["in"].link), TRUE)
    BY <1>2 DEF RelayFromPort
  <2>3. dir[p]["in"].link \in Seq(FlaggedPDU) /\ dir[p]["in"].link # <<>>
    BY <1>0, <1>2, DirGood, DirectionFields DEF RelayFromPort
  <2>4. Head(dir[p]["in"].link) \in FlaggedPDU
    BY <2>3
  <2>5. /\ onLine' \in [Ports -> Seq({x \in FlaggedPDU : x.pdu.qos \in QoS})]
        /\ gate' \in [Ceps -> {"none", "null", "made"}]
        /\ sent' \in [Ports \union Ceps -> Seq(PDU)]
        /\ away' \in [Whys -> SUBSET PDU]
    BY <2>2, <2>4, ProcessMessageTypes
  <2> QED
    BY <1>2, <2>1, <2>5 DEF RelayFromPort, TypeOK, DirOK, WellQueued
<1>3. ASSUME NEW p \in Ports, EnqueueOutput(p) PROVE TypeOK'
  <2>1. DirOK'
    BY <1>0, <1>3, EnqueueOutputDirs, OneDirection
  <2>2. onLine[p] \in Seq({x \in FlaggedPDU : x.pdu.qos \in QoS}) /\ onLine[p] # <<>>
    BY <1>3 DEF EnqueueOutput, TypeOK
  <2>3. Tail(onLine[p]) \in Seq({x \in FlaggedPDU : x.pdu.qos \in QoS})
    BY <2>2
  <2>4. onLine' \in [Ports -> Seq({x \in FlaggedPDU : x.pdu.qos \in QoS})]
    BY <1>3, <2>3 DEF EnqueueOutput, TypeOK
  <2> QED
    BY <1>3, <2>1, <2>4 DEF EnqueueOutput, TypeOK, DirOK, WellQueued
<1>4. ASSUME NEW p \in Ports, SendSouth(p) PROVE TypeOK'
  <2>1. DirOK' /\ busy' \in [Ports -> Nat]
    <3>1. PICK e \in GoodDirection, b \in {0, 1} :
             /\ dir' = [dir EXCEPT ![p]["out"] = e] /\ e.type = "out"
             /\ busy' = [busy EXCEPT ![p] = @ + b]
      BY <1>4, SendSouthDirs
    <3>2. DirOK'
      BY <1>0, <3>1, OneDirection
    <3> QED
      BY <3>1, <3>2 DEF TypeOK
  <2>2. dir[p]["out"].link \in Seq(FlaggedPDU) /\ dir[p]["out"].link # <<>>
    BY <1>0, <1>4, DirGood, DirectionFields DEF SendSouth
  <2>3. Head(dir[p]["out"].link).pdu \in PDU
    <3>1. Head(dir[p]["out"].link) \in FlaggedPDU
      BY <2>2, TailFacts
    <3> QED
      BY <3>1 DEF FlaggedPDU
  <2>4. sent[p] \in Seq(PDU)
    BY DEF TypeOK
  <2>5. Append(sent[p], Head(dir[p]["out"].link).pdu) \in Seq(PDU)
    BY <2>3, <2>4
  <2>6. sent' \in [Ports \union Ceps -> Seq(PDU)]
    BY <1>4, <2>5 DEF SendSouth, TypeOK
  <2> QED
    BY <1>4, <2>1, <2>6 DEF SendSouth, TypeOK, DirOK, WellQueued
<1>5. ASSUME NEW p \in Ports, TransmitEnd(p) PROVE TypeOK'
  <2>1. DirOK'
    BY <1>0, <1>5, TransmitEndDirs, OneDirection
  <2> QED
    BY <1>5, <2>1 DEF TransmitEnd, TypeOK, DirOK, WellQueued
<1>6. ASSUME NEW p \in Ports, OpenPort(p) PROVE TypeOK'
  <2>1. DirOK'
    BY <1>6, OpenPortDirs
  <2> QED
    BY <1>6, <2>1 DEF OpenPort, TypeOK, DirOK, WellQueued
<1>7. ASSUME NEW p \in Ports, BlockOutput(p) PROVE TypeOK'
  <2>1. DirOK'
    BY <1>0, <1>7, BlockOutputDirs, OneDirection
  <2> QED
    BY <1>7, <2>1 DEF BlockOutput, OneChange, TypeOK, DirOK, WellQueued
<1>8. ASSUME NEW p \in Ports, UnblockOutput(p) PROVE TypeOK'
  <2>1. DirOK'
    BY <1>0, <1>8, UnblockOutputDirs, OneDirection
  <2> QED
    BY <1>8, <2>1 DEF UnblockOutput, TypeOK, DirOK, WellQueued
<1>9. ASSUME NEW p \in Ports, NEW t \in Types, Wakeup(p, t) PROVE TypeOK'
  <2>1. DirOK'
    BY <1>0, <1>9, WakeupDirs, OneDirection
  <2> QED
    BY <1>9, <2>1 DEF Wakeup, TypeOK, DirOK, WellQueued
<1>10. CASE ReceiveFromEfcp
  <2>1. ahead[Efcp] \in Seq(PDU) /\ ahead[Efcp] # <<>>
    BY <1>10 DEF ReceiveFromEfcp, TypeOK, Sources
  <2>2. Head(ahead[Efcp]) \in PDU /\ Tail(ahead[Efcp]) \in Seq(PDU)
    BY <2>1
  <2>3. Unmarked(Head(ahead[Efcp])) \in FlaggedPDU
    BY <2>2 DEF Unmarked, FlaggedPDU
  <2>4. ahead' \in [Sources -> Seq(PDU)]
    BY <1>10, <2>2 DEF ReceiveFromEfcp, TypeOK
  <2>5. fromEfcp \in Seq(FlaggedPDU)
    BY DEF TypeOK
  <2>6. fromEfcp' \in Seq(FlaggedPDU)
    BY <1>10, <2>3, <2>5 DEF ReceiveFromEfcp
  <2> QED
    BY <1>10, <2>4, <2>6 DEF ReceiveFromEfcp, TypeOK
<1>11. CASE RelayFromEfcp
  <2>1. fromEfcp \in Seq(FlaggedPDU) /\ fromEfcp # <<>>
    BY <1>11 DEF RelayFromEfcp, TypeOK
  <2>2. Head(fromEfcp) \in FlaggedPDU /\ Tail(fromEfcp) \in Seq(FlaggedPDU)
    BY <2>1
  <2>3. ProcessMessage(Head(fromEfcp), FALSE)
    BY <1>11 DEF RelayFromEfcp
  <2>4. /\ onLine' \in [Ports -> Seq({x \in FlaggedPDU : x.pdu.qos \in QoS})]
        /\ gate' \in [Ceps -> {"none", "null", "made"}]
        /\ sent' \in [Ports \union Ceps -> Seq(PDU)]
        /\ away' \in [Whys -> SUBSET PDU]
    BY <2>2, <2>3, ProcessMessageTypes
  <2> QED
    BY <1>11, <2>2, <2>4 DEF RelayFromEfcp, TypeOK
<1>12. ASSUME NEW r \in Routes, ChangeRoute(r[1], r[2], r[3]) PROVE TypeOK'
  <2>1. r[1] \in Remote /\ r[2] \in QoS \union {AnyQoS} /\ r[3] \in Ports \union {"none"}
    BY TrafficAssumption
  <2>2. table' = [table EXCEPT ![r[1]][r[2]] = r[3]]
    BY <1>12 DEF ChangeRoute
  <2>3. table[r[1]] \in [QoS \union {AnyQoS} -> Ports \union {"none"}]
    BY <2>1 DEF TypeOK, Entry
  <2>4. [table[r[1]] EXCEPT ![r[2]] = r[3]] \in Entry
    BY <2>1, <2>3 DEF Entry
  <2>5. table' \in [Remote -> Entry]
    BY <2>1, <2>2, <2>4 DEF TypeOK
  <2> QED
    BY <1>12, <2>5 DEF ChangeRoute, OneChange, TypeOK
<1>13. ASSUME NEW c \in Ceps, CreateEfcpiGate(c) PROVE TypeOK'
  <2>1. gate' \in [Ceps -> {"none", "null", "made"}]
    BY <1>13 DEF CreateEfcpiGate, TypeOK
  <2> QED
    BY <1>13, <2>1 DEF CreateEfcpiGate, OneChange, TypeOK
<1>14. ASSUME NEW c \in Ceps, DeleteEfcpiGate(c) PROVE TypeOK'
  <2>1. gate' \in [Ceps -> {"none", "null", "made"}]
    BY <1>14 DEF DeleteEfcpiGate, TypeOK
  <2> QED
    BY <1>14, <2>1 DEF DeleteEfcpiGate, TypeOK
<1>15. CASE UNCHANGED vars
  BY <1>15 DEF vars, TypeOK
<1> QED
  BY <1>1, <1>2, <1>3, <1>4, <1>5, <1>6, <1>7, <1>8, <1>9, <1>10, <1>11, <1>12, <1>13,
     <1>14, <1>15, NextCases

(* Whatever is sent, and whatever the ports and routes do, queues hold     *)
(* PDUs of their QoS and PDUs go to ports, gates and queues there are.     *)
THEOREM TypeCorrect == Spec => []TypeOK
<1>1. Init => TypeOK
  BY InitTypeOK
<1>2. TypeOK /\ [Next]_vars => TypeOK'
  BY StepTypeOK
<1> QED
  BY <1>1, <1>2, PTL DEF Spec

-----------------------------------------------------------------------------
(* No PDU is sent while the medium transmits, and no open port gets stuck. *)
(* What a port may have coming is preserved only with what blocks it: the  *)
(* input never is, an output on the medium neither, and there no port but  *)
(* the interface opens, which is open from the start.                      *)

PortOK(p) ==
    LET i == dir[p]["in"]
        o == dir[p]["out"]
    IN  /\ ~i.blocked
        /\ node.onWire => ~o.blocked /\ Tokens(o) + busy[p] <= 1
        /\ open[p] => WillServe(i) /\ (WillServe(o) \/ o.blocked \/ busy[p] > 0)

IInv ==
    /\ TypeOK
    /\ node.onWire => open[Interface]
    /\ \A p \in Ports : PortOK(p)

LEMMA InitPortOK == Init => IInv
<1> SUFFICES ASSUME Init PROVE IInv
  OBVIOUS
<1>1. TypeOK
  BY InitTypeOK
<1>2. node.onWire => open[Interface]
  BY PortAssumption DEF Init
<1>3. ASSUME NEW p \in Ports PROVE PortOK(p)
  <2>1. \A t \in Types : /\ dir[p][t].ready = open[p] /\ ~dir[p][t].blocked
                         /\ dir[p][t].wakeups = 0 /\ dir[p][t].link = <<>>
    BY DEF Init, InitDirection
  <2>2. "in" \in Types /\ "out" \in Types
    BY DEF Types
  <2>3. busy[p] = 0
    BY DEF Init
  <2>4. Tokens(dir[p]["out"]) + busy[p] <= 1
    BY <2>1, <2>2, <2>3 DEF Tokens
  <2> QED
    BY <2>1, <2>2, <2>4 DEF PortOK, WillServe
<1> QED
  BY <1>1, <1>2, <1>3 DEF IInv

(* A port's condition depends on its own directions and variables only. *)
LEMMA OtherPort ==
    ASSUME NEW p \in Ports, PortOK(p), node' = node,
           dir'[p]["in"] = dir[p]["in"], dir'[p]["out"] = dir[p]["out"],
           busy'[p] = busy[p], open'[p] = open[p]
    PROVE  PortOK(p)'
BY DEF PortOK

(* So a step that changes one direction of one port is looked at there.    *)
LEMMA OneDirectionPortOK ==
    ASSUME IInv, NEW p \in Ports, NEW t \in Types, NEW e \in GoodDirection, e.type = t,
           dir' = [dir EXCEPT ![p][t] = e],
           node' = node, open' = open, \A r \in Ports : r # p => busy'[r] = busy[r],
           PortOK(p)'
    PROVE  \A r \in Ports : PortOK(r)'
<1> SUFFICES ASSUME NEW r \in Ports, r # p PROVE PortOK(r)'
  OBVIOUS
<1>1. DirOK /\ "in" \in Types /\ "out" \in Types
  BY TypeOKParts DEF IInv, Types
<1>2. dir'[r]["in"] = dir[r]["in"] /\ dir'[r]["out"] = dir[r]["out"]
  BY <1>1, OneDirection
<1> QED
  BY <1>2, OtherPort DEF IInv

LEMMA StepPortOK == IInv /\ [Next]_vars => IInv'
<1> SUFFICES ASSUME IInv, [Next]_vars PROVE IInv'
  OBVIOUS
<1> USE DEF IInv
<1> "in" \in Types /\ "out" \in Types /\ "in" # "out"
  BY DEF Types
<1>a. TypeOK'
  BY StepTypeOK
<1>b. DirOK
  BY TypeOKParts
<1>c. \A p \in Ports : /\ Tokens(dir[p]["out"]) \in Nat /\ busy[p] \in Nat
                       /\ dir[p]["out"].type = "out" /\ dir[p]["in"].type = "in"
  BY <1>b, DirGood, TokensType DEF TypeOK
<1>d. node' = node
  BY NextCases DEF ReceiveFromSouth, RelayFromPort, EnqueueOutput, SendSouth, TransmitEnd,
     OpenPort, BlockOutput, UnblockOutput, Wakeup, ReceiveFromEfcp, RelayFromEfcp, ChangeRoute,
     CreateEfcpiGate, DeleteEfcpiGate, vars
<1>1. ASSUME NEW p \in Ports, ReceiveFromSouth(p) PROVE IInv'
  <2>1. UNCHANGED <<node, open, busy>>
    BY <1>1 DEF ReceiveFromSouth
  <2>2. CASE dir' = dir
    BY <1>a, <2>1, <2>2, OtherPort
  <2>3. ASSUME NEW e \in GoodDirection, dir' = [dir EXCEPT ![p]["in"] = e],
               e.type = "in", Like(dir[p]["in"], e)
        PROVE  IInv'
    <3>1. dir'[p]["in"] = e /\ dir'[p]["out"] = dir[p]["out"]
      BY <1>b, <2>3, InputChange
    <3>2. PortOK(p)'
      BY <2>1, <2>3, <3>1 DEF PortOK, Like
    <3> QED
      BY <1>a, <2>1, <2>3, <3>2, OneDirectionPortOK
  <2> QED
    BY <1>1, <2>2, <2>3, ReceiveFromSouthDirs
<1>2. ASSUME NEW p \in Ports, RelayFromPort(p) PROVE IInv'
  <2>1. UNCHANGED <<node, open, busy>>
    BY <1>2 DEF RelayFromPort
  <2>2. PICK e \in GoodDirection :
           /\ dir' = [dir EXCEPT ![p]["in"] = e]
           /\ e.type = "in" /\ e.blocked = dir[p]["in"].blocked
           /\ WillServe(dir[p]["in"]) => WillServe(e)
    BY <1>2, RelayFromPortDirs
  <2>3. dir'[p]["in"] = e /\ dir'[p]["out"] = dir[p]["out"]
    BY <1>b, <2>2, InputChange
  <2>4. PortOK(p)'
    BY <2>1, <2>2, <2>3 DEF PortOK
  <2> QED
    BY <1>a, <2>1, <2>2, <2>4, OneDirectionPortOK
<1>3. ASSUME NEW p \in Ports, EnqueueOutput(p) PROVE IInv'
  <2>1. UNCHANGED <<node, open, busy>>
    BY <1>3 DEF EnqueueOutput
  <2>2. PICK e \in GoodDirection : /\ dir' = [dir EXCEPT ![p]["out"] = e]
                                  /\ e.type = "out" /\ Like(dir[p]["out"], e)
    BY <1>3, EnqueueOutputDirs
  <2>3. dir'[p]["out"] = e /\ dir'[p]["in"] = dir[p]["in"]
    BY <1>b, <2>2, OutputChange
  <2>4. Tokens(e) \in Nat /\ Tokens(e) <= Tokens(dir[p]["out"])
    BY <1>c, <2>2, TokensType DEF Like, GoodDirection
  <2>5. PortOK(p)'
    BY <1>c, <2>1, <2>2, <2>3, <2>4 DEF PortOK, Like
  <2> QED
    BY <1>a, <2>1, <2>2, <2>5, OneDirectionPortOK
<1>4. ASSUME NEW p \in Ports, SendSouth(p) PROVE IInv'
  <2>1. UNCHANGED <<node, open>>
    BY <1>4 DEF SendSouth
  <2>2. PICK e \in GoodDirection, b \in {0, 1} :
              /\ dir' = [dir EXCEPT ![p]["out"] = e]
              /\ busy' = [busy EXCEPT ![p] = @ + b]
              /\ e.type = "out" /\ e.blocked = dir[p]["out"].blocked
              /\ Tokens(e) + b <= Tokens(dir[p]["out"])
              /\ WillServe(e) \/ b > 0
    BY <1>4, SendSouthDirs
  <2>3. dir'[p]["out"] = e /\ dir'[p]["in"] = dir[p]["in"]
    BY <1>b, <2>2, OutputChange
  <2>4. busy'[p] = busy[p] + b /\ \A r \in Ports : r # p => busy'[r] = busy[r]
    BY <2>2 DEF TypeOK
  <2>5. Tokens(e) \in Nat
    BY TokensType DEF GoodDirection
  <2>6. PortOK(p)'
    BY <1>c, <2>1, <2>2, <2>3, <2>4, <2>5 DEF PortOK
  <2> QED
    BY <1>a, <2>1, <2>2, <2>4, <2>6, OneDirectionPortOK
<1>5. ASSUME NEW p \in Ports, TransmitEnd(p) PROVE IInv'
  <2>1. UNCHANGED <<node, open>> /\ busy' = [busy EXCEPT ![p] = @ - 1]
    BY <1>5 DEF TransmitEnd
  <2>2. PICK e \in GoodDirection :
              /\ dir' = [dir EXCEPT ![p]["out"] = e]
              /\ e.type = "out" /\ e.blocked = dir[p]["out"].blocked
              /\ Tokens(e) = Tokens(dir[p]["out"]) + 1 /\ WillServe(e)
    BY <1>5, TransmitEndDirs
  <2>3. dir'[p]["out"] = e /\ dir'[p]["in"] = dir[p]["in"]
    BY <1>b, <2>2, OutputChange
  <2>4. busy'[p] = busy[p] - 1 /\ \A r \in Ports : r # p => busy'[r] = busy[r]
    BY <2>1 DEF TypeOK
  <2>5. PortOK(p)'
    BY <1>c, <2>1, <2>2, <2>3, <2>4 DEF PortOK
  <2> QED
    BY <1>a, <2>1, <2>2, <2>4, <2>5, OneDirectionPortOK
<1>6. ASSUME NEW p \in Ports, OpenPort(p) PROVE IInv'
  <2>1. /\ p \in Present /\ ~open[p] /\ open' = [open EXCEPT ![p] = TRUE]
        /\ UNCHANGED <<node, busy>>
    BY <1>6 DEF OpenPort
  <2>2. ~node.onWire
    BY <2>1 DEF Present
  <2>3. /\ dir'[p]["in"] = SetReady(dir[p]["in"]) /\ dir'[p]["out"] = SetReady(dir[p]["out"])
        /\ \A r \in Ports : r # p => dir'[r]["in"] = dir[r]["in"] /\ dir'[r]["out"] = dir[r]["out"]
    BY <1>6, OpenPortDirs
  <2>4. \A t \in Types : /\ SetReady(dir[p][t]).blocked = dir[p][t].blocked
                         /\ dir[p][t].blocked \/ WillServe(SetReady(dir[p][t]))
    BY <1>b, DirGood, SetReadyFacts
  <2>5. PortOK(p)'
    BY <2>1, <2>2, <2>3, <2>4 DEF PortOK
  <2>6. \A r \in Ports : r # p => PortOK(r)'
    BY <2>1, <2>3, OtherPort DEF TypeOK
  <2> QED
    BY <1>a, <2>1, <2>2, <2>5, <2>6
<1>7. ASSUME NEW p \in Ports, BlockOutput(p) PROVE IInv'
  <2>1. UNCHANGED <<node, open, busy>> /\ ~node.onWire
    BY <1>7 DEF BlockOutput
  <2>2. PICK e \in GoodDirection : /\ dir' = [dir EXCEPT ![p]["out"] = e]
                                  /\ e.type = "out" /\ e.blocked
    BY <1>7, BlockOutputDirs
  <2>3. dir'[p]["out"] = e /\ dir'[p]["in"] = dir[p]["in"]
    BY <1>b, <2>2, OutputChange
  <2>4. PortOK(p)'
    BY <2>1, <2>2, <2>3 DEF PortOK
  <2> QED
    BY <1>a, <2>1, <2>2, <2>4, OneDirectionPortOK
<1>8. ASSUME NEW p \in Ports, UnblockOutput(p) PROVE IInv'
  <2>1. UNCHANGED <<node, open, busy>> /\ dir[p]["out"].blocked
    BY <1>8 DEF UnblockOutput
  <2>2. ~node.onWire
    BY <2>1 DEF PortOK
  <2>3. PICK e \in GoodDirection : /\ dir' = [dir EXCEPT ![p]["out"] = e]
                                  /\ e.type = "out" /\ WillServe(e)
    BY <1>8, UnblockOutputDirs
  <2>4. dir'[p]["out"] = e /\ dir'[p]["in"] = dir[p]["in"]
    BY <1>b, <2>3, OutputChange
  <2>5. PortOK(p)'
    BY <2>1, <2>2, <2>3, <2>4 DEF PortOK
  <2> QED
    BY <1>a, <2>1, <2>3, <2>5, OneDirectionPortOK
<1>9. ASSUME NEW p \in Ports, NEW t \in Types, Wakeup(p, t) PROVE IInv'
  <2>1. UNCHANGED <<node, open, busy>>
    BY <1>9 DEF Wakeup
  <2>2. PICK e \in GoodDirection :
              /\ dir' = [dir EXCEPT ![p][t] = e]
              /\ e.type = t /\ e.blocked = dir[p][t].blocked
              /\ t = "out" => Tokens(e) <= Tokens(dir[p][t])
              /\ WillServe(e) \/ e.blocked
    BY <1>9, WakeupDirs
  <2>4. Tokens(e) \in Nat
    BY TokensType DEF GoodDirection
  <2>5. PortOK(p)'
    <3>1. CASE t = "in"
      <4>1. dir'[p]["in"] = e /\ dir'[p]["out"] = dir[p]["out"]
        BY <1>b, <2>2, <3>1, InputChange
      <4> QED
        BY <2>1, <2>2, <3>1, <4>1 DEF PortOK
    <3>2. CASE t = "out"
      <4>1. dir'[p]["out"] = e /\ dir'[p]["in"] = dir[p]["in"]
        BY <1>b, <2>2, <3>2, OutputChange
      <4> QED
        BY <1>c, <2>1, <2>2, <2>4, <3>2, <4>1 DEF PortOK
    <3> QED
      BY <3>1, <3>2 DEF Types
  <2> QED
    BY <1>a, <2>1, <2>2, <2>5, OneDirectionPortOK
<1>10. CASE UNCHANGED <<dir, busy, open>>
  BY <1>a, <1>d, <1>10, OtherPort
<1>11. \/ ReceiveFromEfcp \/ RelayFromEfcp \/ UNCHANGED vars
       \/ \E r \in Routes : ChangeRoute(r[1], r[2], r[3])
       \/ \E c \in Ceps : CreateEfcpiGate(c) \/ DeleteEfcpiGate(c)
       => UNCHANGED <<dir, busy, open>>
  BY DEF ReceiveFromEfcp, RelayFromEfcp, ChangeRoute, CreateEfcpiGate, DeleteEfcpiGate, vars
<1> QED
  BY <1>1, <1>2, <1>3, <1>4, <1>5, <1>6, <1>7, <1>8, <1>9, <1>10, <1>11, NextCases

LEMMA Invariance == Spec => []IInv
<1>1. Init => IInv
  BY InitPortOK
<1>2. IInv /\ [Next]_vars => IInv'
  BY StepPortOK
<1> QED
  BY <1>1, <1>2, PTL DEF Spec

(* The medium never has two PDUs: however arrivals, ends of transmissions  *)
(* and wake-ups follow each other, at most one is past the output queue.   *)
THEOREM NoOverlappingTransmissions == Spec => []OneTransmission
<1>1. IInv => OneTransmission
  <2> DEFINE d(p) == dir[p]["out"]
             r(p) == IF d(p).ready THEN 1 ELSE 0
  <2> SUFFICES ASSUME IInv, node.onWire, NEW p \in Ports
               PROVE  Len(d(p).link) + busy[p] + d(p).wakeups + r(p) <= 1
    BY DEF OneTransmission
  <2>1. d(p) \in Direction /\ busy[p] \in Nat
    BY DirGood, TypeOKParts DEF IInv, Types
  <2>2. Len(d(p).link) \in Nat /\ d(p).wakeups \in Nat /\ r(p) \in Nat
    BY <2>1, DirectionFields
  <2>3. Tokens(d(p)) + busy[p] <= 1
    BY DEF IInv, PortOK
  <2>4. Tokens(d(p)) = Len(d(p).link) + d(p).wakeups + r(p)
    BY DEF Tokens
  <2> HIDE DEF d, r
  <2> QED
    BY <2>1, <2>2, <2>3, <2>4
<1> QED
  BY <1>1, Invariance, PTL

(* No open port gets stuck: it is ready, blocked from outside, or an event *)
(* that makes it ready is scheduled.                                       *)
THEOREM NoStuckPort == Spec => []BusyWakesUp
<1>1. IInv => BusyWakesUp
  <2>1. TypeOK /\ (\A p \in Ports : PortOK(p)) => BusyWakesUp
    <3> SUFFICES ASSUME TypeOK, NEW p \in Ports, open[p], PortOK(p)
                 PROVE  /\ dir[p]["in"].ready \/ dir[p]["in"].wakeups > 0
                        /\ LET d == dir[p]["out"]
                           IN  d.ready \/ d.blocked \/ d.link # <<>> \/ busy[p] > 0 \/ d.wakeups > 0
      BY DEF BusyWakesUp
    <3>1. dir[p]["in"].type = "in" /\ dir[p]["out"].type = "out"
      BY DirGood, TypeOKParts DEF Types
    <3> QED
      BY <3>1 DEF PortOK, WillServe
  <2> QED
    BY <2>1 DEF IInv
<1> QED
  BY <1>1, Invariance, PTL

-----------------------------------------------------------------------------
(* What serving and arrivals do to queues: served, a direction moves the   *)
(* first PDU of one queue to its link, or none.                            *)
Served(d, e) ==
    /\ e.type = d.type /\ e.slowed = d.slowed /\ e.dropped = d.dropped
    /\ \/ e.queue = d.queue /\ e.link = d.link
       \/ \E q \in QoS : /\ d.queue[q] # <<>>
                         /\ e.queue = [d.queue EXCEPT ![q] = Tail(@)]
                         /\ e.link = Append(d.link, Head(d.queue[q]))

LEMMA ReleaseServes ==
    ASSUME NEW d \in Direction, NEW q \in QoS
    PROVE  Served(d, ReleasePDU(d, q))
<1>1. CASE d.queue[q] = <<>>
  BY <1>1 DEF ReleasePDU, Served
<1>2. CASE d.queue[q] # <<>>
  <2> DEFINE e == ReleasePDU(d, q)
  <2>1. /\ e.type = d.type /\ e.slowed = d.slowed /\ e.dropped = d.dropped
        /\ e.queue = [d.queue EXCEPT ![q] = Tail(@)]
        /\ e.link = Append(d.link, Head(d.queue[q]))
    BY <1>2 DEF ReleasePDU, PostQueueDeparture, Direction
  <2> HIDE DEF e
  <2> QED
    BY <1>2, <2>1 DEF Served, e
<1> QED
  BY <1>1, <1>2

LEMMA ProcessQueuesServes ==
    ASSUME NEW d \in Direction
    PROVE  Served(d, ProcessQueues(d))
<1>1. CASE ProcessQueues(d) = d
  BY <1>1 DEF Served
<1>2. CASE ProcessQueues(d) = ReleasePDU(d, LongestQueue(d))
  BY <1>2, LongestQueueType, ReleaseServes
<1>3. CASE d.smart # <<>> /\ ProcessQueues(d) = ReleasePDU([d EXCEPT !.smart = Tail(@)], Head(d.smart))
  <2> DEFINE e == [d EXCEPT !.smart = Tail(@)]
  <2>1. Tail(d.smart) \in Seq(QoS) /\ Head(d.smart) \in QoS
    BY <1>3, DirectionFields, TailFacts
  <2>2. /\ e \in Direction /\ e.type = d.type /\ e.slowed = d.slowed
        /\ e.queue = d.queue /\ e.link = d.link /\ e.dropped = d.dropped
    BY <2>1 DEF Direction
  <2> HIDE DEF e
  <2>3. Served(e, ReleasePDU(e, Head(d.smart)))
    BY <2>1, <2>2, ReleaseServes
  <2>4. Served(d, ReleasePDU(e, Head(d.smart)))
    BY <2>2, <2>3 DEF Served
  <2> QED
    BY <1>3, <2>4 DEF e
<1> QED
  BY <1>1, <1>2, <1>3 DEF ProcessQueues

LEMMA SetReadyServes ==
    ASSUME NEW d \in Direction
    PROVE  Served(d, SetReady(d))
<1> DEFINE r == [d EXCEPT !.ready = TRUE]
<1>1. /\ r \in Direction /\ r.type = d.type /\ r.slowed = d.slowed
      /\ r.queue = d.queue /\ r.link = d.link /\ r.dropped = d.dropped
  BY DEF Direction
<1>2. SetReady(d) = d \/ SetReady(d) = ProcessQueues(r)
  BY DEF SetReady
<1> HIDE DEF r
<1>3. Served(d, ProcessQueues(r))
  BY <1>1, ProcessQueuesServes DEF Served
<1>4. Served(d, d)
  BY DEF Served
<1> QED
  BY <1>2, <1>3, <1>4

(* What a limit promises of the queues of a direction. *)
ActedOn(maxQ, type, s, slowed) ==
    /\ maxQ \in {"TailDrop", "ECNMarker"} =>
          Len(s) < MaxQLength \/ Len(s) < ThreshQLength \/ Len(s) < 1
    /\ maxQ = "ECNMarker" /\ Len(s) >= ThreshQLength /\ Len(s) >= 1 => Last(s).ecn
    /\ maxQ = "UpstreamNotifier" /\ type = "out" /\ Len(s) >= MaxQLength /\ Len(s) >= ThreshQLength =>
          Last(s).pdu \in slowed

Acted(maxQ, d) == \A q \in QoS : ActedOn(maxQ, d.type, d.queue[q], d.slowed)

(* It is enough to look at the queue that changes. *)
LEMMA OneQueueActed ==
    ASSUME NEW maxQ, NEW d, NEW g, NEW q, g.type = d.type, d.slowed \subseteq g.slowed,
           \A r \in QoS : r # q => g.queue[r] = d.queue[r],
           ActedOn(maxQ, g.type, g.queue[q], g.slowed), Acted(maxQ, d)
    PROVE  Acted(maxQ, g)
<1> SUFFICES ASSUME NEW r \in QoS, r # q
             PROVE  ActedOn(maxQ, g.type, g.queue[r], g.slowed)
  BY DEF Acted
<1>1. g.queue[r] = d.queue[r] /\ ActedOn(maxQ, d.type, d.queue[r], d.slowed)
  BY DEF Acted
<1> QED
  BY <1>1 DEF ActedOn

(* Serving a queue leaves its last PDU there, or leaves it empty. *)
LEMMA ServedActed ==
    ASSUME NEW d \in Direction, NEW e, Served(d, e), NEW maxQ, Acted(maxQ, d)
    PROVE  Acted(maxQ, e)
<1>0. d.queue \in [QoS -> Seq(FlaggedPDU)]
  BY DirectionFields
<1>1. CASE e.queue = d.queue
  BY <1>1 DEF Served, Acted
<1>2. ASSUME NEW q \in QoS, d.queue[q] # <<>>, e.queue = [d.queue EXCEPT ![q] = Tail(@)]
      PROVE  Acted(maxQ, e)
  <2>1. \A r \in QoS : r # q => e.queue[r] = d.queue[r]
    BY <1>0, <1>2
  <2>2. e.queue[q] = Tail(d.queue[q]) /\ d.queue[q] \in Seq(FlaggedPDU)
    BY <1>0, <1>2
  <2>3. Len(e.queue[q]) = Len(d.queue[q]) - 1 /\ Len(d.queue[q]) \in Nat \ {0}
    BY <1>2, <2>2, TailFacts
  <2>4. Len(e.queue[q]) >= 1 => Last(e.queue[q]) = Last(d.queue[q])
    <3> SUFFICES ASSUME Len(e.queue[q]) >= 1 PROVE Last(e.queue[q]) = Last(d.queue[q])
      OBVIOUS
    <3>1. Len(e.queue[q]) \in DOMAIN Tail(d.queue[q])
      BY <2>2, <2>3
    <3>2. Tail(d.queue[q])[Len(e.queue[q])] = d.queue[q][Len(e.queue[q]) + 1]
      BY <1>2, <2>2, <3>1, TailFacts
    <3> QED
      BY <2>2, <2>3, <3>2 DEF Last
  <2>5. MaxQLength >= 1 /\ ThreshQLength \in Nat /\ MaxQLength \in Nat
    BY QueueAssumption
  <2>6. e.type = d.type /\ e.slowed = d.slowed
    BY DEF Served
  <2>7. ActedOn(maxQ, d.type, d.queue[q], d.slowed)
    BY DEF Acted
  <2>8. ActedOn(maxQ, e.type, e.queue[q], e.slowed)
    BY <2>3, <2>4, <2>5, <2>6, <2>7 DEF ActedOn
  <2> QED
    BY <2>1, <2>6, <2>8, OneQueueActed, Zenon
<1> QED
  BY <1>1, <1>2 DEF Served

LEMMA FrontAppend ==
    ASSUME NEW S, NEW s \in Seq(S), NEW u \in S
    PROVE  /\ Append(s, u) \in Seq(S) /\ Append(s, u) # <<>>
           /\ Len(Append(s, u)) = Len(s) + 1 /\ Len(s) \in Nat
           /\ Front(Append(s, u)) = s /\ Last(Append(s, u)) = u
<1>1. /\ Append(s, u) \in Seq(S) /\ Len(Append(s, u)) = Len(s) + 1 /\ Len(s) \in Nat
      /\ Append(s, u)[Len(s) + 1] = u
      /\ \A i \in 1..Len(s) : Append(s, u)[i] = s[i]
  OBVIOUS
<1> DEFINE a == Append(s, u)
<1> HIDE DEF a
<1>2. Front(a) = s
  <2>1. Front(a) \in Seq(S) /\ Len(Front(a)) = Len(s) /\ \A i \in 1..Len(s) : Front(a)[i] = a[i]
    BY <1>1 DEF Front, a
  <2> QED
    BY <1>1, <2>1 DEF a
<1> QED
  BY <1>1, <1>2 DEF Last, a

(* A PDU that arrives is appended to its queue, perhaps marked, or goes;   *)
(* then a queue may be served.                                             *)
Arrived(d, m, u) ==
    /\ m.type = d.type /\ m.link = d.link
    /\ \/ m.queue = d.queue /\ m.dropped = d.dropped \union {u.pdu}
       \/ /\ m.dropped = d.dropped
          /\ \E v \in FlaggedPDU : /\ v.pdu = u.pdu
                                   /\ m.queue = [d.queue EXCEPT ![u.pdu.qos] = Append(@, v)]

(* A PDU that is dropped leaves what was queued. *)
LEMMA DropArrives ==
    ASSUME NEW d \in Direction, NEW u \in FlaggedPDU, u.pdu.qos \in QoS,
           NEW e \in Direction, e.type = d.type, e.link = d.link, e.slowed = d.slowed,
           e.dropped = d.dropped, e.queue = [d.queue EXCEPT ![u.pdu.qos] = Append(@, u)]
    PROVE  LET f == DropLast(e, u.pdu.qos)
               g == OnMessageDrop(f, u.pdu.qos)
           IN  /\ f \in Direction /\ Arrived(d, f, u) /\ Served(f, f)
               /\ g \in Direction /\ Arrived(d, g, u) /\ Served(g, g)
               /\ f.queue = d.queue /\ f.waiting = e.waiting /\ f.ready = e.ready
               /\ g.queue = d.queue /\ g.waiting = e.waiting /\ g.ready = e.ready
               /\ \A maxQ : Acted(maxQ, d) => Acted(maxQ, f) /\ Acted(maxQ, g)
<1> DEFINE q == u.pdu.qos
           f == DropLast(e, q)
           g == OnMessageDrop(f, q)
<1>0. d.queue \in [QoS -> Seq(FlaggedPDU)] /\ e.queue \in [QoS -> Seq(FlaggedPDU)] /\ q \in QoS
  BY DirectionFields
<1>1. e.queue[q] = Append(d.queue[q], u) /\ d.queue[q] \in Seq(FlaggedPDU)
  BY <1>0
<1>2. Front(e.queue[q]) = d.queue[q] /\ Last(e.queue[q]) = u
  BY <1>1, FrontAppend
<1>3. [e.queue EXCEPT ![q] = Front(@)] = d.queue
  BY <1>0, <1>2
<1>4. u.pdu \in PDU
  BY DEF FlaggedPDU
<1> HIDE DEF q
<1>5. /\ f \in Direction /\ f.type = d.type /\ f.link = d.link
      /\ f.slowed = d.slowed /\ f.queue = d.queue /\ f.smart \in Seq(QoS)
      /\ f.dropped = d.dropped \union {u.pdu} /\ f.waiting = e.waiting /\ f.ready = e.ready
  <2>1. f = [e EXCEPT !.queue = d.queue, !.dropped = e.dropped \union {u.pdu}]
    BY <1>2, <1>3 DEF DropLast, Direction
  <2>2. e.dropped \union {u.pdu} \in SUBSET PDU
    BY <1>4, DirectionFields
  <2> HIDE DEF f
  <2> QED
    BY <1>0, <2>1, <2>2 DEF Direction
<1> HIDE DEF f
<1>6. /\ g \in Direction /\ g.type = d.type /\ g.link = d.link
      /\ g.slowed = d.slowed /\ g.queue = d.queue /\ g.dropped = d.dropped \union {u.pdu}
      /\ g.waiting = e.waiting /\ g.ready = e.ready
  <2>1. CASE g = f
    BY <1>5, <2>1
  <2>2. CASE f.smart # <<>> /\ g = [f EXCEPT !.smart = Front(@)]
    <3>1. Front(f.smart) \in Seq(QoS)
      BY <1>5, <2>2, FrontFacts
    <3> QED
      BY <1>5, <2>2, <3>1 DEF Direction
  <2> QED
    BY <2>1, <2>2 DEF OnMessageDrop
<1> HIDE DEF g
<1>7. \A maxQ : Acted(maxQ, d) => Acted(maxQ, f) /\ Acted(maxQ, g)
  BY <1>5, <1>6 DEF Acted
<1>8. Arrived(d, f, u) /\ Served(f, f) /\ Arrived(d, g, u) /\ Served(g, g)
  BY <1>5, <1>6 DEF Arrived, Served
<1> QED
  BY <1>5, <1>6, <1>7, <1>8 DEF q, f, g

(* One that stays is marked, or its sender told, when the queue is full. *)
LEMMA StayArrives ==
    ASSUME NEW d \in Direction, NEW u \in FlaggedPDU, u.pdu.qos \in QoS,
           NEW e \in Direction, e.type = d.type, e.link = d.link, e.slowed = d.slowed,
           e.dropped = d.dropped, e.queue = [d.queue EXCEPT ![u.pdu.qos] = Append(@, u)]
    PROVE  LET q == u.pdu.qos
               full == Len(e.queue[q]) >= ThreshQLength
               f == IF full THEN RunMaxQ(e, q) ELSE e
           IN  /\ f \in Direction /\ Arrived(d, f, u) /\ f.waiting = e.waiting
               /\ \E v \in FlaggedPDU : f.queue = [d.queue EXCEPT ![q] = Append(@, v)]
               /\ ~(full /\ Drops(e, q)) => (Acted(node.maxQ, d) => Acted(node.maxQ, f))
<1> DEFINE q == u.pdu.qos
           full == Len(e.queue[q]) >= ThreshQLength
           f == IF full THEN RunMaxQ(e, q) ELSE e
<1>0. d.queue \in [QoS -> Seq(FlaggedPDU)] /\ e.queue \in [QoS -> Seq(FlaggedPDU)] /\ q \in QoS
  BY DirectionFields
<1>1. /\ e.queue[q] = Append(d.queue[q], u) /\ d.queue[q] \in Seq(FlaggedPDU)
      /\ \A r \in QoS : r # q => e.queue[r] = d.queue[r]
  BY <1>0
<1>2. /\ Front(e.queue[q]) = d.queue[q] /\ Last(e.queue[q]) = u
      /\ Len(e.queue[q]) = Len(d.queue[q]) + 1 /\ Len(d.queue[q]) \in Nat
  BY <1>1, FrontAppend
<1>3. u.pdu \in PDU /\ Marked(u.pdu) \in FlaggedPDU /\ Marked(u.pdu).pdu = u.pdu /\ Marked(u.pdu).ecn
  BY DEF FlaggedPDU, Marked
<1>4. MaxQLength \in Nat /\ MaxQLength >= 1 /\ ThreshQLength \in Nat
  BY QueueAssumption
<1> HIDE DEF q
<1>5. ASSUME Acted(node.maxQ, d), NEW g, g.type = d.type, d.slowed \subseteq g.slowed,
             \A r \in QoS : r # q => g.queue[r] = d.queue[r],
             ActedOn(node.maxQ, g.type, g.queue[q], g.slowed)
      PROVE  Acted(node.maxQ, g)
  <2> SUFFICES ASSUME NEW r \in QoS, r # q
               PROVE  ActedOn(node.maxQ, g.type, g.queue[r], g.slowed)
    BY <1>5 DEF Acted
  <2>1. g.queue[r] = d.queue[r] /\ ActedOn(node.maxQ, d.type, d.queue[r], d.slowed)
    BY <1>5 DEF Acted
  <2> QED
    BY <1>5, <2>1 DEF ActedOn
<1>a. e.type = d.type /\ d.slowed \subseteq e.slowed
  OBVIOUS
<1> DEFINE Queues(v) == f.queue = [d.queue EXCEPT ![q] = Append(@, v)]
<1> SUFFICES /\ f \in Direction /\ Arrived(d, f, u) /\ f.waiting = e.waiting
             /\ \E v \in FlaggedPDU : Queues(v)
             /\ ~(full /\ Drops(e, q)) => (Acted(node.maxQ, d) => Acted(node.maxQ, f))
  BY DEF q
<1> HIDE DEF full, f
<1>6. CASE ~full
  <2>1. f = e
    BY <1>6 DEF f
  <2>2. ActedOn(node.maxQ, e.type, e.queue[q], e.slowed)
    BY <1>2, <1>4, <1>6 DEF full, ActedOn
  <2>3. Acted(node.maxQ, d) => Acted(node.maxQ, e)
    BY <1>1, <1>5, <1>a, <2>2, Zenon
  <2>4. Arrived(d, e, u) /\ Queues(u)
    BY <2>1 DEF Arrived, q
  <2> QED
    BY <2>1, <2>3, <2>4
<1>7. CASE full /\ node.maxQ = "ECNMarker"
  <2> DEFINE m == Append(d.queue[q], Marked(u.pdu))
  <2>1. f = [e EXCEPT !.queue = [e.queue EXCEPT ![q] = m]]
    BY <1>2, <1>7 DEF RunMaxQ, MarkCongestionOnLast, Direction, f
  <2>2. [e.queue EXCEPT ![q] = m] = [d.queue EXCEPT ![q] = m]
    BY <1>0 DEF q
  <2>3. m \in Seq(FlaggedPDU) /\ Last(m) = Marked(u.pdu) /\ Len(m) = Len(d.queue[q]) + 1
    BY <1>1, <1>3, FrontAppend
  <2>4. /\ f \in Direction /\ f.type = d.type /\ f.link = d.link /\ f.slowed = d.slowed
        /\ f.queue = [d.queue EXCEPT ![q] = m] /\ f.dropped = d.dropped
        /\ f.waiting = e.waiting
    <3> HIDE DEF m
    <3>1. [d.queue EXCEPT ![q] = m] \in [QoS -> Seq(FlaggedPDU)]
      BY <1>0, <2>3
    <3> QED
      BY <2>1, <2>2, <3>1 DEF Direction
  <2>5. Arrived(d, f, u) /\ Queues(Marked(u.pdu))
    BY <1>3, <2>4 DEF Arrived, q
  <2>6. f.queue[q] = m /\ \A r \in QoS : r # q => f.queue[r] = d.queue[r]
    BY <1>0, <2>4
  <2> HIDE DEF m
  <2>7. ~Drops(e, q) => (Acted(node.maxQ, d) => Acted(node.maxQ, f))
    <3> SUFFICES ASSUME ~Drops(e, q), Acted(node.maxQ, d) PROVE Acted(node.maxQ, f)
      OBVIOUS
    <3>1. Len(e.queue[q]) < MaxQLength
      BY <1>2, <1>4, <1>7 DEF Drops, AtMax
    <3>2. ActedOn(node.maxQ, f.type, f.queue[q], f.slowed)
      BY <1>2, <1>3, <1>7, <2>3, <2>6, <3>1 DEF ActedOn
    <3>3. f.type = d.type /\ d.slowed \subseteq f.slowed
      BY <2>4
    <3> QED
      BY <1>5, <2>6, <3>2, <3>3, Zenon
  <2> QED
    BY <1>3, <1>7, <2>4, <2>5, <2>7
<1>8. CASE full /\ node.maxQ = "UpstreamNotifier" /\ e.type = "out" /\ AtMax(e, q)
  <2>1. f = [e EXCEPT !.slowed = e.slowed \union {u.pdu}]
    BY <1>2, <1>8 DEF RunMaxQ, NotifySenderOfCongestion, Direction, f
  <2>2. e.slowed \union {u.pdu} \in SUBSET PDU
    BY <1>3, DirectionFields
  <2>3. /\ f \in Direction /\ f.type = d.type /\ f.link = d.link
        /\ f.slowed = d.slowed \union {u.pdu} /\ f.queue = e.queue /\ f.dropped = d.dropped
        /\ f.waiting = e.waiting
    BY <2>1, <2>2 DEF Direction
  <2>4. Arrived(d, f, u) /\ Queues(u)
    BY <2>3 DEF Arrived, q
  <2>5. ActedOn(node.maxQ, f.type, f.queue[q], f.slowed)
    BY <1>2, <1>8, <2>3, Last(f.queue[q]) = u, u.pdu \in f.slowed DEF ActedOn
  <2>6. f.type = d.type /\ d.slowed \subseteq f.slowed /\ \A r \in QoS : r # q => f.queue[r] = d.queue[r]
    BY <1>1, <2>3
  <2>7. Acted(node.maxQ, d) => Acted(node.maxQ, f)
    BY <1>5, <2>5, <2>6, Zenon
  <2> QED
    BY <2>3, <2>4, <2>7
<1>9. CASE /\ full /\ node.maxQ # "ECNMarker"
           /\ ~(node.maxQ = "UpstreamNotifier" /\ e.type = "out" /\ AtMax(e, q))
  <2>1. f = e
    BY <1>9 DEF RunMaxQ, f
  <2>2. ~Drops(e, q) => ActedOn(node.maxQ, e.type, e.queue[q], e.slowed)
    BY <1>2, <1>4, <1>9 DEF Drops, AtMax, ActedOn
  <2>3. ~Drops(e, q) => (Acted(node.maxQ, d) => Acted(node.maxQ, e))
    BY <1>1, <1>5, <1>a, <2>2, Zenon
  <2>4. Arrived(d, e, u) /\ Queues(u)
    BY <2>1 DEF Arrived, q
  <2> QED
    BY <1>9, <2>1, <2>3, <2>4
<1> QED
  BY <1>6, <1>7, <1>8, <1>9

LEMMA EnqueueServes ==
    ASSUME NEW d \in GoodDirection, NEW u \in FlaggedPDU, u.pdu.qos \in QoS, NEW error
    PROVE  \E m \in Direction :
              /\ Arrived(d, m, u)
              /\ Served(m, EnqueuePDU(d, u, error))
              /\ Acted(node.maxQ, d) => Acted(node.maxQ, m)
<1> DEFINE q == u.pdu.qos
           s == [d.queue EXCEPT ![q] = Append(@, u)]
           e == [d EXCEPT !.queue = s]
           full == Len(e.queue[q]) >= ThreshQLength
           f == IF full THEN RunMaxQ(e, q) ELSE e
           g == [f EXCEPT !.waiting = @ + 1]
<1>0. d \in Direction /\ d.queue \in [QoS -> Seq(FlaggedPDU)] /\ q \in QoS
  BY DirectionFields DEF GoodDirection
<1>1. s \in [QoS -> Seq(FlaggedPDU)]
  BY <1>0
<1>2. EnqueuePDU(d, u, error) = PostQueueArrival(e, q, error)
  BY <1>0 DEF EnqueuePDU, Direction
<1>3. /\ e \in Direction /\ e.type = d.type /\ e.link = d.link /\ e.slowed = d.slowed
      /\ e.dropped = d.dropped /\ e.queue = [d.queue EXCEPT ![u.pdu.qos] = Append(@, u)]
  <2> HIDE DEF s
  <2>1. /\ e \in Direction /\ e.type = d.type /\ e.link = d.link /\ e.slowed = d.slowed
        /\ e.dropped = d.dropped /\ e.queue = s
    BY <1>0, <1>1 DEF Direction
  <2> QED
    BY <2>1 DEF s
<1> HIDE DEF e, s
<1>4. \/ EnqueuePDU(d, u, error) = DropLast(e, q)
      \/ EnqueuePDU(d, u, error) = OnMessageDrop(DropLast(e, q), q)
      \/ EnqueuePDU(d, u, error) = ProcessQueues(g) /\ ~(full /\ Drops(e, q))
  BY <1>2 DEF PostQueueArrival, PostPDUInsertion
<1>5. CASE EnqueuePDU(d, u, error) = DropLast(e, q)
  <2> DEFINE h == DropLast(e, q)
  <2>1. /\ h \in Direction /\ Arrived(d, h, u) /\ Served(h, h)
        /\ Acted(node.maxQ, d) => Acted(node.maxQ, h)
    BY <1>0, <1>3, DropArrives
  <2> HIDE DEF h
  <2>2. EnqueuePDU(d, u, error) = h
    BY <1>5 DEF h
  <2> QED
    BY <2>1, <2>2
<1>6. CASE EnqueuePDU(d, u, error) = OnMessageDrop(DropLast(e, q), q)
  <2> DEFINE h == OnMessageDrop(DropLast(e, q), q)
  <2>1. /\ h \in Direction /\ Arrived(d, h, u) /\ Served(h, h)
        /\ Acted(node.maxQ, d) => Acted(node.maxQ, h)
    BY <1>0, <1>3, DropArrives
  <2> HIDE DEF h
  <2>2. EnqueuePDU(d, u, error) = h
    BY <1>6 DEF h
  <2> QED
    BY <2>1, <2>2
<1>7. CASE EnqueuePDU(d, u, error) = ProcessQueues(g) /\ ~(full /\ Drops(e, q))
  <2>1. /\ f \in Direction /\ Arrived(d, f, u)
        /\ Acted(node.maxQ, d) => Acted(node.maxQ, f)
    BY <1>0, <1>3, <1>7, StayArrives
  <2> HIDE DEF f
  <2>2. f.waiting + 1 \in Int
    BY <2>1, DirectionFields
  <2>3. /\ g \in Direction /\ g.type = f.type /\ g.link = f.link /\ g.queue = f.queue
        /\ g.slowed = f.slowed /\ g.dropped = f.dropped
    BY <2>1, <2>2 DEF Direction
  <2> HIDE DEF g
  <2>4. Arrived(d, g, u) /\ (Acted(node.maxQ, d) => Acted(node.maxQ, g))
    BY <2>1, <2>3 DEF Arrived, Acted
  <2>5. Served(g, ProcessQueues(g))
    BY <2>3, ProcessQueuesServes
  <2> QED
    BY <1>7, <2>3, <2>4, <2>5
<1> QED
  BY <1>4, <1>5, <1>6, <1>7

(* What each action does to the queues and links of the directions. *)
LEMMA DirChange ==
    ASSUME TypeOK, NEW p \in Ports, NEW t \in Types, NEW e, dir' = [dir EXCEPT ![p][t] = e]
    PROVE  /\ dir'[p][t] = e
           /\ \A r \in Ports, v \in Types : (r # p \/ v # t) => dir'[r][v] = dir[r][v]
BY DEF TypeOK

LEMMA OpenPortServes ==
    ASSUME TypeOK, NEW p \in Ports, OpenPort(p)
    PROVE  /\ \A r \in Ports, t \in Types : Served(dir[r][t], dir'[r][t])
           /\ \A r \in Ports, t \in Types : r # p => dir'[r][t] = dir[r][t]
<1> SUFFICES ASSUME NEW r \in Ports, NEW t \in Types
             PROVE  Served(dir[r][t], dir'[r][t]) /\ (r # p => dir'[r][t] = dir[r][t])
  OBVIOUS
<1>1. dir[r][t] \in Direction
  BY DirGood, TypeOKParts
<1>2. CASE r = p
  BY <1>1, <1>2, OpenPortDirs, SetReadyServes
<1>3. CASE r # p
  <2>1. dir'[r][t] = dir[r][t]
    BY <1>3, OpenPortDirs
  <2> QED
    BY <2>1, <1>3 DEF Served
<1> QED
  BY <1>2, <1>3

LEMMA QuietServes ==
    ASSUME TypeOK, NEW p \in Ports, NEW t \in Types,
           \/ Wakeup(p, t)
           \/ t = "out" /\ (TransmitEnd(p) \/ BlockOutput(p) \/ UnblockOutput(p))
    PROVE  /\ \A r \in Ports, v \in Types : Served(dir[r][v], dir'[r][v])
           /\ \A r \in Ports, v \in Types : r # p => dir'[r][v] = dir[r][v]
<1> DEFINE d == dir[p][t]
<1>1. d \in Direction /\ d.wakeups \in Nat
  BY DirGood, TypeOKParts, DirectionFields
<1>2. ASSUME NEW m \in Direction, m.type = d.type, m.slowed = d.slowed, m.queue = d.queue,
             m.link = d.link, m.dropped = d.dropped, NEW e, e = m \/ e = SetReady(m), dir' = [dir EXCEPT ![p][t] = e]
      PROVE  /\ \A r \in Ports, v \in Types : Served(dir[r][v], dir'[r][v])
             /\ \A r \in Ports, v \in Types : r # p => dir'[r][v] = dir[r][v]
  <2>1. Served(m, e)
    BY <1>2, SetReadyServes DEF Served
  <2>2. Served(d, e)
    BY <1>2, <2>1 DEF Served
  <2>3. \A x : Served(x, x)
    BY DEF Served
  <2>4. /\ dir'[p][t] = e
        /\ \A r \in Ports, v \in Types : (r # p \/ v # t) => dir'[r][v] = dir[r][v]
    BY <1>2, DirChange
  <2> QED
    BY <2>2, <2>3, <2>4
<1>3. CASE Wakeup(p, t)
  <2> DEFINE w == d.wakeups - 1
             m == [d EXCEPT !.wakeups = w]
  <2>1. w \in Nat
    BY <1>1, <1>3 DEF Wakeup
  <2>2. dir' = [dir EXCEPT ![p][t] = SetReady(m)]
    BY <1>3 DEF Wakeup
  <2> HIDE DEF w
  <2>3. /\ m \in Direction /\ m.type = d.type /\ m.slowed = d.slowed /\ m.queue = d.queue
        /\ m.link = d.link /\ m.dropped = d.dropped
    BY <1>1, <2>1 DEF Direction
  <2> HIDE DEF m, d
  <2> QED
    BY <1>2, <2>2, <2>3
<1>4. CASE t = "out" /\ TransmitEnd(p)
  <2> DEFINE w == d.wakeups + 1
             m == [d EXCEPT !.wakeups = w]
  <2>1. w \in Nat
    BY <1>1
  <2>2. dir' = [dir EXCEPT ![p][t] = m]
    BY <1>1, <1>4 DEF TransmitEnd, TypeOK, Direction
  <2> HIDE DEF w
  <2>3. /\ m \in Direction /\ m.type = d.type /\ m.slowed = d.slowed /\ m.queue = d.queue
        /\ m.link = d.link /\ m.dropped = d.dropped
    BY <1>1, <2>1 DEF Direction
  <2> HIDE DEF m, d
  <2> QED
    BY <1>2, <2>2, <2>3
<1>5. CASE t = "out" /\ BlockOutput(p)
  <2> DEFINE m == [d EXCEPT !.blocked = TRUE, !.ready = FALSE]
  <2>1. dir' = [dir EXCEPT ![p][t] = m]
    BY <1>5 DEF BlockOutput
  <2>2. /\ m \in Direction /\ m.type = d.type /\ m.slowed = d.slowed /\ m.queue = d.queue
        /\ m.link = d.link /\ m.dropped = d.dropped
    BY <1>1 DEF Direction
  <2> HIDE DEF m, d
  <2> QED
    BY <1>2, <2>1, <2>2
<1>6. CASE t = "out" /\ UnblockOutput(p)
  <2> DEFINE m == [d EXCEPT !.blocked = FALSE]
  <2>1. dir' = [dir EXCEPT ![p][t] = SetReady(m)]
    BY <1>6 DEF UnblockOutput
  <2>2. /\ m \in Direction /\ m.type = d.type /\ m.slowed = d.slowed /\ m.queue = d.queue
        /\ m.link = d.link /\ m.dropped = d.dropped
    BY <1>1 DEF Direction
  <2> HIDE DEF m, d
  <2> QED
    BY <1>2, <2>1, <2>2
<1> QED
  BY <1>3, <1>4, <1>5, <1>6

LEMMA ArrivalServes ==
    ASSUME TypeOK, NEW p \in Ports, NEW t \in Types,
           NEW u \in FlaggedPDU, u.pdu.qos \in QoS, NEW error,
           dir' = [dir EXCEPT ![p][t] = EnqueuePDU(@, u, error)]
    PROVE  /\ \E m \in Direction :
                 /\ Arrived(dir[p][t], m, u) /\ Served(m, dir'[p][t])
                 /\ Acted(node.maxQ, dir[p][t]) => Acted(node.maxQ, m)
           /\ \A r \in Ports, v \in Types : (r # p \/ v # t) => dir'[r][v] = dir[r][v]
<1>1. dir[p][t] \in GoodDirection
  BY DirGood, TypeOKParts
<1> DEFINE e == EnqueuePDU(dir[p][t], u, error)
<1>a. dir' = [dir EXCEPT ![p][t] = e]
  OBVIOUS
<1> HIDE DEF e
<1>b. dir \in [Ports -> [Types -> Direction]]
  BY DEF TypeOK
<1>c. dir'[p] = [dir[p] EXCEPT ![t] = e] /\ \A r \in Ports : r # p => dir'[r] = dir[r]
  BY <1>a, <1>b
<1>d. dir[p] \in [Types -> Direction]
  BY <1>b
<1>2. dir'[p][t] = EnqueuePDU(dir[p][t], u, error)
  BY <1>c, <1>d DEF e
<1>3. \A r \in Ports, v \in Types : (r # p \/ v # t) => dir'[r][v] = dir[r][v]
  BY <1>c, <1>d
<1> QED
  BY <1>1, <1>2, <1>3, EnqueueServes

LEMMA ReceiveFromSouthServes ==
    ASSUME TypeOK, NEW p \in Ports, ReceiveFromSouth(p)
    PROVE  LET u == Unmarked(Head(ahead[p]))
           IN  /\ Head(ahead[p]) \in PDU /\ u \in FlaggedPDU /\ u.pdu = Head(ahead[p])
               /\ ahead[p] \in Seq(PDU) /\ ahead[p] # <<>>
               /\ \/ dir' = dir
                  \/ /\ u.pdu.qos \in QoS
                     /\ \E m \in Direction :
                           /\ Arrived(dir[p]["in"], m, u) /\ Served(m, dir'[p]["in"])
                           /\ Acted(node.maxQ, dir[p]["in"]) => Acted(node.maxQ, m)
                     /\ \A r \in Ports, v \in Types :
                           (r # p \/ v # "in") => dir'[r][v] = dir[r][v]
<1> DEFINE u == Head(ahead[p])
<1>1. ahead[p] \in Seq(PDU) /\ ahead[p] # <<>>
  BY DEF ReceiveFromSouth, TypeOK, Sources
<1>2. u \in PDU
  BY <1>1
<1>3. Unmarked(u) \in FlaggedPDU /\ Unmarked(u).pdu = u
  BY <1>2 DEF Unmarked, FlaggedPDU
<1>4. CASE u.qos \in QoS
  <2>1. PICK error : dir' = [dir EXCEPT ![p]["in"] = EnqueuePDU(@, Unmarked(u), error)]
    BY <1>4 DEF ReceiveFromSouth
  <2>2. "in" \in Types
    BY DEF Types
  <2> HIDE DEF u
  <2>3. /\ \E m \in Direction :
              /\ Arrived(dir[p]["in"], m, Unmarked(u)) /\ Served(m, dir'[p]["in"])
              /\ Acted(node.maxQ, dir[p]["in"]) => Acted(node.maxQ, m)
        /\ \A r \in Ports, v \in Types : (r # p \/ v # "in") => dir'[r][v] = dir[r][v]
    BY <1>3, <1>4, <2>1, <2>2, ArrivalServes
  <2> QED
    BY <1>1, <1>2, <1>3, <1>4, <2>3 DEF u
<1>5. CASE u.qos \notin QoS
  <2>1. dir' = dir
    BY <1>5 DEF ReceiveFromSouth
  <2> QED
    BY <1>1, <1>2, <1>3, <2>1
<1> QED
  BY <1>4, <1>5

LEMMA EnqueueOutputServes ==
    ASSUME TypeOK, NEW p \in Ports, EnqueueOutput(p)
    PROVE  LET u == Head(onLine[p])
           IN  /\ u \in FlaggedPDU /\ u.pdu.qos \in QoS /\ onLine[p] # <<>>
               /\ \E m \in Direction :
                     /\ Arrived(dir[p]["out"], m, u) /\ Served(m, dir'[p]["out"])
                     /\ Acted(node.maxQ, dir[p]["out"]) => Acted(node.maxQ, m)
               /\ \A r \in Ports, v \in Types :
                     (r # p \/ v # "out") => dir'[r][v] = dir[r][v]
<1>1. onLine[p] \in Seq({e \in FlaggedPDU : e.pdu.qos \in QoS}) /\ onLine[p] # <<>>
  BY DEF EnqueueOutput, TypeOK
<1>2. Head(onLine[p]) \in {e \in FlaggedPDU : e.pdu.qos \in QoS}
  BY <1>1
<1>3. dir' = [dir EXCEPT ![p]["out"] = EnqueuePDU(@, Head(onLine[p]), FALSE)]
  BY DEF EnqueueOutput
<1>4. "out" \in Types
  BY DEF Types
<1> QED
  BY <1>1, <1>2, <1>3, <1>4, ArrivalServes

(* The first PDU leaves the link of an input, or that of an output, which  *)
(* then may be served.                                                     *)
LEMMA RelayFromPortServes ==
    ASSUME TypeOK, NEW p \in Ports, RelayFromPort(p)
    PROVE  /\ dir[p]["in"].link \in Seq(FlaggedPDU) /\ dir[p]["in"].link # <<>>
           /\ dir'[p]["in"] \in Direction /\ dir'[p]["in"].type = "in"
           /\ dir'[p]["in"].link = Tail(dir[p]["in"].link)
           /\ dir'[p]["in"].queue = dir[p]["in"].queue
           /\ dir'[p]["in"].slowed = dir[p]["in"].slowed
           /\ dir'[p]["in"].dropped = dir[p]["in"].dropped
           /\ \A r \in Ports, v \in Types : (r # p \/ v # "in") => dir'[r][v] = dir[r][v]
<1> DEFINE d == dir[p]["in"]
           l == Tail(d.link)
           e == [d EXCEPT !.link = l]
<1>1. d \in Direction /\ d.type = "in" /\ "in" \in Types
  BY DirGood, TypeOKParts DEF Types
<1>2. d.link \in Seq(FlaggedPDU) /\ d.link # <<>>
  BY <1>1, DirectionFields DEF RelayFromPort
<1>3. l \in Seq(FlaggedPDU)
  BY <1>2
<1>4. dir' = [dir EXCEPT ![p]["in"] = e]
  BY <1>1 DEF RelayFromPort, TypeOK, Direction
<1>5. /\ dir'[p]["in"] = e
      /\ \A r \in Ports, v \in Types : (r # p \/ v # "in") => dir'[r][v] = dir[r][v]
  <2> HIDE DEF e
  <2> QED
    BY <1>1, <1>4 DEF TypeOK
<1>6. /\ e \in Direction /\ e.type = "in" /\ e.link = l /\ e.queue = d.queue
      /\ e.slowed = d.slowed /\ e.dropped = d.dropped
  <2> HIDE DEF l
  <2> QED
    BY <1>1, <1>3 DEF Direction
<1> HIDE DEF e
<1> QED
  BY <1>2, <1>5, <1>6

LEMMA SendSouthServes ==
    ASSUME TypeOK, NEW p \in Ports, SendSouth(p)
    PROVE  /\ dir[p]["out"].link \in Seq(FlaggedPDU) /\ dir[p]["out"].link # <<>>
           /\ \E m \in Direction :
                 /\ m.type = "out" /\ m.link = Tail(dir[p]["out"].link)
                 /\ m.queue = dir[p]["out"].queue /\ m.slowed = dir[p]["out"].slowed
                 /\ m.dropped = dir[p]["out"].dropped
                 /\ Served(m, dir'[p]["out"])
           /\ \A r \in Ports, v \in Types : (r # p \/ v # "out") => dir'[r][v] = dir[r][v]
<1> DEFINE d == dir[p]["out"]
           l == Tail(d.link)
           w == d.wakeups + 1
           gone == [d EXCEPT !.link = l, !.ready = FALSE]
           woken == [gone EXCEPT !.wakeups = w]
<1>1. d \in Direction /\ d.type = "out" /\ d.wakeups \in Nat /\ "out" \in Types
  BY DirGood, TypeOKParts, DirectionFields DEF Types
<1>2. d.link \in Seq(FlaggedPDU) /\ d.link # <<>>
  BY <1>1, DirectionFields DEF SendSouth
<1>3. l \in Seq(FlaggedPDU) /\ w \in Nat
  BY <1>1, <1>2
<1>4. [gone EXCEPT !.wakeups = @ + 1] = woken
  BY <1>1 DEF Direction
<1>5. \/ dir' = [dir EXCEPT ![p]["out"] = gone]
      \/ dir' = [dir EXCEPT ![p]["out"] = ProcessQueues(woken)]
  BY <1>4 DEF SendSouth
<1> HIDE DEF l, w
<1>6. /\ gone \in Direction /\ gone.type = "out" /\ gone.link = l /\ gone.queue = d.queue
      /\ gone.slowed = d.slowed /\ gone.dropped = d.dropped
  BY <1>1, <1>3 DEF Direction
<1>7. /\ woken \in Direction /\ woken.type = "out" /\ woken.link = l /\ woken.queue = d.queue
      /\ woken.slowed = d.slowed /\ woken.dropped = d.dropped
  <2> HIDE DEF gone
  <2> QED
    BY <1>3, <1>6 DEF Direction
<1> HIDE DEF gone, woken
<1>8. Served(gone, gone) /\ Served(woken, ProcessQueues(woken))
  BY <1>7, ProcessQueuesServes DEF Served
<1>9. PICK m \in {gone, woken} : \E e : Served(m, e) /\ dir' = [dir EXCEPT ![p]["out"] = e]
  BY <1>5, <1>8
<1>10. PICK e : Served(m, e) /\ dir' = [dir EXCEPT ![p]["out"] = e]
  BY <1>9
<1>11. /\ dir'[p]["out"] = e
       /\ \A r \in Ports, v \in Types : (r # p \/ v # "out") => dir'[r][v] = dir[r][v]
  BY <1>1, <1>10 DEF TypeOK
<1>12. /\ m \in Direction /\ m.type = "out" /\ m.link = l /\ m.queue = d.queue
       /\ m.slowed = d.slowed /\ m.dropped = d.dropped
  BY <1>6, <1>7
<1> QED
  BY <1>2, <1>10, <1>11, <1>12 DEF l

(* An action moves a PDU between directions and the sequences beside them, *)
(* or serves directions, or leaves them alone.                             *)
LEMMA StepKinds ==
    ASSUME TypeOK, [Next]_vars
    PROVE  \/ \E p \in Ports : \/ ReceiveFromSouth(p) \/ RelayFromPort(p)
                              \/ EnqueueOutput(p) \/ SendSouth(p)
           \/ ReceiveFromEfcp \/ RelayFromEfcp
           \/ /\ \A r \in Ports, v \in Types : Served(dir[r][v], dir'[r][v])
              /\ \E p \in Ports : \A r \in Ports, v \in Types : r # p => dir'[r][v] = dir[r][v]
              /\ UNCHANGED <<onLine, fromEfcp, ahead, sent, away>>
<1> "in" \in Types /\ "out" \in Types
  BY DEF Types
<1> DEFINE Rest == /\ \A r \in Ports, v \in Types : Served(dir[r][v], dir'[r][v])
                   /\ \E p \in Ports : \A r \in Ports, v \in Types : r # p => dir'[r][v] = dir[r][v]
                   /\ UNCHANGED <<onLine, fromEfcp, ahead, sent, away>>
<1>1. ASSUME NEW p \in Ports, TransmitEnd(p) \/ BlockOutput(p) \/ UnblockOutput(p)
      PROVE  Rest
  <2>1. /\ \A r \in Ports, v \in Types : Served(dir[r][v], dir'[r][v])
        /\ \A r \in Ports, v \in Types : r # p => dir'[r][v] = dir[r][v]
    BY <1>1, QuietServes
  <2>2. UNCHANGED <<onLine, fromEfcp, ahead, sent, away>>
    BY <1>1 DEF TransmitEnd, BlockOutput, UnblockOutput
  <2> QED
    BY <2>1, <2>2
<1>2. ASSUME NEW p \in Ports, NEW t \in Types, Wakeup(p, t) PROVE Rest
  <2>1. /\ \A r \in Ports, v \in Types : Served(dir[r][v], dir'[r][v])
        /\ \A r \in Ports, v \in Types : r # p => dir'[r][v] = dir[r][v]
    BY <1>2, QuietServes
  <2>2. UNCHANGED <<onLine, fromEfcp, ahead, sent, away>>
    BY <1>2 DEF Wakeup
  <2> QED
    BY <2>1, <2>2
<1>3. ASSUME NEW p \in Ports, OpenPort(p) PROVE Rest
  <2>1. /\ \A r \in Ports, v \in Types : Served(dir[r][v], dir'[r][v])
        /\ \A r \in Ports, v \in Types : r # p => dir'[r][v] = dir[r][v]
    BY <1>3, OpenPortServes
  <2>2. UNCHANGED <<onLine, fromEfcp, ahead, sent, away>>
    BY <1>3 DEF OpenPort
  <2> QED
    BY <2>1, <2>2
<1>4. ASSUME UNCHANGED <<dir, onLine, fromEfcp, ahead, sent, away>> PROVE Rest
  BY <1>4, PortAssumption DEF Served
<1>5. ASSUME \/ \E r \in Routes : ChangeRoute(r[1], r[2], r[3])
             \/ \E c \in Ceps : CreateEfcpiGate(c) \/ DeleteEfcpiGate(c)
             \/ UNCHANGED vars
      PROVE  Rest
  BY <1>4, <1>5 DEF ChangeRoute, CreateEfcpiGate, DeleteEfcpiGate, vars
<1> HIDE DEF Rest
<1>6. \/ \E p \in Ports : \/ ReceiveFromSouth(p) \/ RelayFromPort(p)
                          \/ EnqueueOutput(p) \/ SendSouth(p)
      \/ ReceiveFromEfcp \/ RelayFromEfcp
      \/ Rest
  BY <1>1, <1>2, <1>3, <1>5, NextCases
<1> QED
  BY <1>6 DEF Rest

LEMMA NodeConstant ==
    ASSUME [Next]_vars
    PROVE  node' = node
BY NextCases DEF ReceiveFromSouth, RelayFromPort, EnqueueOutput, SendSouth, TransmitEnd,
   OpenPort, BlockOutput, UnblockOutput, Wakeup, ReceiveFromEfcp, RelayFromEfcp, ChangeRoute,
   CreateEfcpiGate, DeleteEfcpiGate, vars

-----------------------------------------------------------------------------
(* A queue that has reached a limit did what its policy promises: the      *)
(* promise is kept per direction, by what arrives and by what is served.   *)

AllActed == \A p \in Ports, t \in Types : Acted(node.maxQ, dir[p][t])

LEMMA InitAllActed == Init => AllActed
<1> SUFFICES ASSUME Init, NEW p \in Ports, NEW t \in Types PROVE Acted(node.maxQ, dir[p][t])
  BY DEF AllActed
<1>1. \A q \in QoS : dir[p][t].queue[q] = <<>>
  BY DEF Init, InitDirection
<1>2. MaxQLength >= 1
  BY QueueAssumption
<1> QED
  BY <1>1, <1>2, QueueAssumption DEF Acted, ActedOn

LEMMA StepAllActed == TypeOK /\ AllActed /\ [Next]_vars => AllActed'
<1> SUFFICES ASSUME TypeOK, AllActed, [Next]_vars,
                    NEW r \in Ports, NEW v \in Types
             PROVE  Acted(node.maxQ, dir'[r][v])
  BY NodeConstant DEF AllActed
<1> "in" \in Types /\ "out" \in Types
  BY DEF Types
<1>0. dir[r][v] \in Direction /\ dir[r][v].type = v /\ Acted(node.maxQ, dir[r][v])
  BY DirGood, TypeOKParts DEF AllActed
<1>1. CASE dir'[r][v] = dir[r][v]
  BY <1>0, <1>1
<1>2. CASE Served(dir[r][v], dir'[r][v])
  BY <1>0, <1>2, ServedActed
<1>3. ASSUME NEW m \in Direction, Served(m, dir'[r][v]), Acted(node.maxQ, m)
      PROVE  Acted(node.maxQ, dir'[r][v])
  BY <1>3, ServedActed
<1>4. ASSUME NEW m, m.type = v, m.queue = dir[r][v].queue, m.slowed = dir[r][v].slowed
      PROVE  Acted(node.maxQ, m)
  BY <1>0, <1>4 DEF Acted
<1>5. ASSUME NEW p \in Ports, ReceiveFromSouth(p) PROVE Acted(node.maxQ, dir'[r][v])
  <2>1. dir'[r][v] = dir[r][v] \/ (r = p /\ v = "in")
    BY <1>5, ReceiveFromSouthServes
  <2>2. CASE r = p /\ v = "in"
    BY <1>0, <1>1, <1>3, <1>5, <2>2, ReceiveFromSouthServes
  <2> QED
    BY <1>1, <2>1, <2>2
<1>6. ASSUME NEW p \in Ports, EnqueueOutput(p) PROVE Acted(node.maxQ, dir'[r][v])
  <2>1. dir'[r][v] = dir[r][v] \/ (r = p /\ v = "out")
    BY <1>6, EnqueueOutputServes
  <2>2. CASE r = p /\ v = "out"
    BY <1>0, <1>3, <1>6, <2>2, EnqueueOutputServes
  <2> QED
    BY <1>1, <2>1, <2>2
<1>7. ASSUME NEW p \in Ports, RelayFromPort(p) PROVE Acted(node.maxQ, dir'[r][v])
  <2>1. dir'[r][v] = dir[r][v] \/ (r = p /\ v = "in")
    BY <1>7, RelayFromPortServes
  <2>2. CASE r = p /\ v = "in"
    BY <1>4, <1>7, <2>2, RelayFromPortServes
  <2> QED
    BY <1>1, <2>1, <2>2
<1>8. ASSUME NEW p \in Ports, SendSouth(p) PROVE Acted(node.maxQ, dir'[r][v])
  <2>1. dir'[r][v] = dir[r][v] \/ (r = p /\ v = "out")
    BY <1>8, SendSouthServes
  <2>2. CASE r = p /\ v = "out"
    BY <1>3, <1>4, <1>8, <2>2, SendSouthServes
  <2> QED
    BY <1>1, <2>1, <2>2
<1>9. CASE ReceiveFromEfcp \/ RelayFromEfcp
  BY <1>1, <1>9 DEF ReceiveFromEfcp, RelayFromEfcp
<1> QED
  BY <1>2, <1>5, <1>6, <1>7, <1>8, <1>9, StepKinds

(* The limits of the property, without Max. *)
LEMMA GreatestOfNats ==
    ASSUME NEW S \in SUBSET Nat, NEW g \in S, \A x \in S : x <= g
    PROVE  Max(S) \in S /\ \A x \in S : x <= Max(S)
<1>1. \E y \in S : \A x \in S : y >= x
  OBVIOUS
<1> QED
  BY <1>1 DEF Max

LEMMA LimitsOfThree ==
    ASSUME NEW a \in Nat, NEW b \in Nat, NEW c \in Nat
    PROVE  /\ Max({a, b, c}) \in {a, b, c}
           /\ a <= Max({a, b, c}) /\ b <= Max({a, b, c}) /\ c <= Max({a, b, c})
<1>1. \E g \in {a, b, c} : \A x \in {a, b, c} : x <= g
  <2>1. CASE a >= b /\ a >= c
    BY <2>1
  <2>2. CASE b >= a /\ b >= c
    BY <2>2
  <2>3. CASE c >= a /\ c >= b
    BY <2>3
  <2> QED
    BY <2>1, <2>2, <2>3
<1> QED
  BY <1>1, GreatestOfNats

(* Whatever arrives and however the port is served, a queue at its limit   *)
(* dropped, marked or slowed down what its policy says.                    *)
THEOREM CongestionAlwaysActedOn == Spec => []CongestionIsActedOn
<1>1. TypeOK /\ AllActed => CongestionIsActedOn
  <2> SUFFICES ASSUME TypeOK, AllActed, NEW p \in Ports, NEW t \in Types, NEW q \in QoS
               PROVE  LET d == dir[p][t]
                          length == Len(d.queue[q])
                      IN  /\ node.maxQ \in {"TailDrop", "ECNMarker"} =>
                                length < Max({MaxQLength, ThreshQLength, 1})
                          /\ node.maxQ = "ECNMarker" /\ length >= Max({ThreshQLength, 1}) =>
                                Last(d.queue[q]).ecn
                          /\ node.maxQ = "UpstreamNotifier" /\ t = "out"
                                   /\ length >= Max({MaxQLength, ThreshQLength}) =>
                                Last(d.queue[q]).pdu \in d.slowed
    BY DEF CongestionIsActedOn
  <2>1. dir[p][t] \in Direction /\ dir[p][t].type = t /\ Acted(node.maxQ, dir[p][t])
    BY DirGood, TypeOKParts DEF AllActed
  <2>2. Len(dir[p][t].queue[q]) \in Nat
    BY <2>1, DirectionFields
  <2>3. MaxQLength \in Nat /\ ThreshQLength \in Nat /\ 1 \in Nat
    BY QueueAssumption
  <2>4. /\ Max({MaxQLength, ThreshQLength, 1}) \in Nat
        /\ MaxQLength <= Max({MaxQLength, ThreshQLength, 1})
        /\ ThreshQLength <= Max({MaxQLength, ThreshQLength, 1})
        /\ 1 <= Max({MaxQLength, ThreshQLength, 1})
    BY <2>3, LimitsOfThree
  <2>5. /\ Max({ThreshQLength, 1}) \in Nat
        /\ ThreshQLength <= Max({ThreshQLength, 1}) /\ 1 <= Max({ThreshQLength, 1})
    <3>1. {ThreshQLength, 1, 1} = {ThreshQLength, 1}
      OBVIOUS
    <3> QED
      BY <2>3, <3>1, LimitsOfThree
  <2>6. /\ Max({MaxQLength, ThreshQLength}) \in Nat
        /\ MaxQLength <= Max({MaxQLength, ThreshQLength})
        /\ ThreshQLength <= Max({MaxQLength, ThreshQLength})
    <3>1. {MaxQLength, ThreshQLength, ThreshQLength} = {MaxQLength, ThreshQLength}
      OBVIOUS
    <3> QED
      BY <2>3, <3>1, LimitsOfThree
  <2> QED
    BY <2>1, <2>2, <2>3, <2>4, <2>5, <2>6 DEF Acted, ActedOn
<1>2. Init => TypeOK /\ AllActed
  BY InitTypeOK, InitAllActed
<1>3. TypeOK /\ AllActed /\ [Next]_vars => (TypeOK /\ AllActed)'
  BY StepTypeOK, StepAllActed
<1> QED
  BY <1>1, <1>2, <1>3, PTL DEF Spec

-----------------------------------------------------------------------------
(* The order of PDUs. On the way from a source to a port or an instance    *)
(* PDUs pass seven stages, of which a step moves the first PDU of one to   *)
(* the end of an earlier one, or drops it; the order of the PDUs of one    *)
(* source and one QoS is that of their numbers along all stages.           *)

Mine(u, s, q) == u.src = s /\ u.qos = q

Stages == 1..7

StageSeqs == [Stages -> Seq(PDU)]

Ordered(S, s, q) ==
    \A k, l \in Stages : \A i \in DOMAIN S[k], j \in DOMAIN S[l] :
       (k < l \/ (k = l /\ i < j)) /\ Mine(S[k][i], s, q) /\ Mine(S[l][j], s, q)
          => S[k][i].id < S[l][j].id

(* The first PDU of a stage goes. *)
LEMMA HeadGoes ==
    ASSUME NEW s, NEW q, NEW S \in StageSeqs, NEW T \in StageSeqs, Ordered(S, s, q),
           NEW k \in Stages, S[k] # <<>>, T[k] = Tail(S[k]),
           \A l \in Stages : l # k => T[l] = S[l]
    PROVE  Ordered(T, s, q)
<1> DEFINE P(l, i) == IF l = k THEN i + 1 ELSE i
<1>1. \A l \in Stages : \A i \in DOMAIN T[l] :
         P(l, i) \in DOMAIN S[l] /\ S[l][P(l, i)] = T[l][i] /\ i \in Nat
  <2> SUFFICES ASSUME NEW l \in Stages, NEW i \in DOMAIN T[l]
               PROVE  P(l, i) \in DOMAIN S[l] /\ S[l][P(l, i)] = T[l][i] /\ i \in Nat
    OBVIOUS
  <2>1. S[l] \in Seq(PDU) /\ T[l] \in Seq(PDU)
    BY DEF StageSeqs
  <2>2. CASE l = k
    <3>1. S[k] \in Seq(PDU) /\ S[k] # <<>> /\ T[l] = Tail(S[k])
      BY <2>1, <2>2
    <3>2. \A n \in DOMAIN Tail(S[k]) : n + 1 \in DOMAIN S[k] /\ Tail(S[k])[n] = S[k][n + 1]
      BY <3>1, TailFacts
    <3>3. i \in DOMAIN Tail(S[k]) /\ i \in Nat
      BY <2>1, <3>1
    <3> QED
      BY <2>2, <3>1, <3>2, <3>3
  <2>3. CASE l # k
    BY <2>1, <2>3
  <2> QED
    BY <2>2, <2>3
<1> SUFFICES ASSUME NEW l \in Stages, NEW m \in Stages,
                    NEW i \in DOMAIN T[l], NEW j \in DOMAIN T[m],
                    l < m \/ (l = m /\ i < j),
                    Mine(T[l][i], s, q), Mine(T[m][j], s, q)
             PROVE  T[l][i].id < T[m][j].id
  BY DEF Ordered
<1>2. l < m \/ (l = m /\ P(l, i) < P(m, j))
  BY <1>1
<1> HIDE DEF P
<1> QED
  BY <1>1, <1>2 DEF Ordered

(* A PDU of another source or QoS joins a stage. *)
LEMMA OtherJoins ==
    ASSUME NEW s, NEW q, NEW S \in StageSeqs, NEW T \in StageSeqs, Ordered(S, s, q),
           NEW k \in Stages, NEW u \in PDU, ~Mine(u, s, q), T[k] = Append(S[k], u),
           \A l \in Stages : l # k => T[l] = S[l]
    PROVE  Ordered(T, s, q)
<1>1. \A l \in Stages : \A i \in DOMAIN T[l] :
         Mine(T[l][i], s, q) => i \in DOMAIN S[l] /\ S[l][i] = T[l][i]
  <2> SUFFICES ASSUME NEW l \in Stages, NEW i \in DOMAIN T[l], Mine(T[l][i], s, q)
               PROVE  i \in DOMAIN S[l] /\ S[l][i] = T[l][i]
    OBVIOUS
  <2>1. S[l] \in Seq(PDU) /\ T[l] \in Seq(PDU)
    BY DEF StageSeqs
  <2>2. CASE l = k
    <3>1. T[l][i] = IF i = Len(S[l]) + 1 THEN u ELSE S[l][i]
      BY <2>1, <2>2
    <3>2. i = Len(S[l]) + 1 \/ i \in DOMAIN S[l]
      BY <2>1, <2>2
    <3> QED
      BY <3>1, <3>2
  <2>3. CASE l # k
    BY <2>3
  <2> QED
    BY <2>2, <2>3
<1> SUFFICES ASSUME NEW l \in Stages, NEW m \in Stages,
                    NEW i \in DOMAIN T[l], NEW j \in DOMAIN T[m],
                    l < m \/ (l = m /\ i < j),
                    Mine(T[l][i], s, q), Mine(T[m][j], s, q)
             PROVE  T[l][i].id < T[m][j].id
  BY DEF Ordered
<1> QED
  BY <1>1 DEF Ordered

(* The first PDU of a stage joins an earlier one, with none between.       *)
LEMMA HeadMoves ==
    ASSUME NEW s, NEW q, NEW S \in StageSeqs, NEW T \in StageSeqs, Ordered(S, s, q),
           NEW k \in Stages, NEW h \in Stages, h < k, S[k] # <<>>,
           T[k] = Tail(S[k]), T[h] = Append(S[h], Head(S[k])),
           \A l \in Stages : h < l /\ l < k => S[l] = <<>>,
           \A l \in Stages : l # k /\ l # h => T[l] = S[l]
    PROVE  Ordered(T, s, q)
<1> DEFINE A(l, i) == IF l = h /\ i = Len(S[h]) + 1 THEN k ELSE l
           P(l, i) == IF l = h /\ i = Len(S[h]) + 1 THEN 1 ELSE IF l = k THEN i + 1 ELSE i
<1>0. \A l \in Stages : S[l] \in Seq(PDU) /\ T[l] \in Seq(PDU) /\ l \in Nat
  <2>1. \A l \in Stages : S[l] \in Seq(PDU) /\ T[l] \in Seq(PDU)
    BY DEF StageSeqs
  <2>2. \A l \in Stages : l \in Nat
    BY DEF Stages
  <2> QED
    BY <2>1, <2>2
<1>1. \A l \in Stages : \A i \in DOMAIN T[l] :
         /\ A(l, i) \in Stages /\ P(l, i) \in DOMAIN S[A(l, i)]
         /\ S[A(l, i)][P(l, i)] = T[l][i] /\ i \in Nat \ {0}
  <2> SUFFICES ASSUME NEW l \in Stages, NEW i \in DOMAIN T[l]
               PROVE  /\ A(l, i) \in Stages /\ P(l, i) \in DOMAIN S[A(l, i)]
                      /\ S[A(l, i)][P(l, i)] = T[l][i] /\ i \in Nat \ {0}
    OBVIOUS
  <2>0. /\ S[k] \in Seq(PDU) /\ S[h] \in Seq(PDU) /\ T[l] \in Seq(PDU)
        /\ l \in Nat /\ h \in Nat /\ k \in Nat
    BY <1>0
  <2>a. i \in Nat \ {0}
    BY <2>0
  <2>1. CASE l = k
    <3>1. \A n \in DOMAIN Tail(S[k]) : n + 1 \in DOMAIN S[k] /\ Tail(S[k])[n] = S[k][n + 1]
      BY <2>0, TailFacts
    <3>2. T[l] = Tail(S[k]) /\ l # h
      BY <2>0, <2>1
    <3>3. A(l, i) = k /\ P(l, i) = i + 1
      BY <2>1, <3>2
    <3>4. i + 1 \in DOMAIN S[k] /\ T[l][i] = S[k][i + 1]
      BY <3>1, <3>2
    <3> QED
      BY <2>a, <3>3, <3>4
  <2>2. CASE l = h
    <3> DEFINE a == S[h]
               u == Head(S[k])
    <3>1. T[l] = Append(a, u) /\ a \in Seq(PDU) /\ u \in PDU
      BY <2>0, <2>2
    <3>2. 1 \in DOMAIN S[k] /\ u = S[k][1]
      BY <2>0
    <3>3. i \in 1..(Len(a) + 1) /\ T[l][i] = (IF i = Len(a) + 1 THEN u ELSE a[i])
      <4> HIDE DEF a, u
      <4> QED
        BY <3>1
    <3>4. Len(a) \in Nat /\ DOMAIN a = 1..Len(a)
      BY <3>1
    <3>5. CASE i = Len(a) + 1
      BY <2>2, <2>a, <3>2, <3>3, <3>5
    <3>6. CASE i # Len(a) + 1
      <4>1. i \in DOMAIN a
        BY <3>3, <3>4, <3>6
      <4>2. A(l, i) = l /\ P(l, i) = i
        BY <2>0, <2>2, <3>6
      <4> QED
        BY <2>2, <2>a, <3>3, <3>6, <4>1, <4>2
    <3> QED
      BY <3>5, <3>6
  <2>3. CASE l # k /\ l # h
    <3>1. T[l] = S[l] /\ A(l, i) = l /\ P(l, i) = i
      BY <2>3
    <3> QED
      BY <2>a, <3>1
  <2> QED
    BY <2>1, <2>2, <2>3
<1> SUFFICES ASSUME NEW l \in Stages, NEW m \in Stages,
                    NEW i \in DOMAIN T[l], NEW j \in DOMAIN T[m],
                    l < m \/ (l = m /\ i < j),
                    Mine(T[l][i], s, q), Mine(T[m][j], s, q)
             PROVE  T[l][i].id < T[m][j].id
  BY DEF Ordered
<1>2. i \in Nat \ {0} /\ j \in Nat \ {0} /\ l \in Nat /\ m \in Nat /\ h \in Nat /\ k \in Nat
  BY <1>0, <1>1
<1>3. Len(S[h]) \in Nat /\ (\A n \in DOMAIN T[h] : n <= Len(S[h]) + 1)
  BY <1>0
<1>4. ~(h < m /\ m < k)
  <2>1. ASSUME h < m, m < k PROVE FALSE
    <3>1. T[m] = <<>>
      BY <1>2, <2>1
    <3> QED
      BY <3>1
  <2> QED
    BY <2>1
<1>5. A(l, i) < A(m, j) \/ (A(l, i) = A(m, j) /\ P(l, i) < P(m, j))
  <2>1. CASE l = h /\ i = Len(S[h]) + 1
    <3>1. m # h
      BY <1>2, <1>3, <2>1
    <3>2. m >= k
      BY <1>2, <1>4, <2>1, <3>1
    <3> QED
      BY <1>2, <2>1, <3>1, <3>2
  <2>2. CASE ~(l = h /\ i = Len(S[h]) + 1) /\ m = h /\ j = Len(S[h]) + 1
    BY <1>2, <2>2
  <2>3. CASE ~(l = h /\ i = Len(S[h]) + 1) /\ ~(m = h /\ j = Len(S[h]) + 1)
    BY <1>2, <2>3
  <2> QED
    BY <2>1, <2>2, <2>3
<1> HIDE DEF A, P
<1> QED
  BY <1>1, <1>5 DEF Ordered

(* The PDUs of a sequence, when one joins or leaves. *)
LEMMA PdusOfFacts ==
    ASSUME NEW w \in Seq(FlaggedPDU), NEW e \in FlaggedPDU
    PROVE  /\ PdusOf(w) \in Seq(PDU) /\ e.pdu \in PDU
           /\ PdusOf(Append(w, e)) = Append(PdusOf(w), e.pdu)
           /\ w # <<>> => /\ PdusOf(w) # <<>> /\ Head(PdusOf(w)) = Head(w).pdu
                          /\ PdusOf(Tail(w)) = Tail(PdusOf(w))
           /\ w = <<>> => PdusOf(w) = <<>>
<1>0. \A v \in Seq(FlaggedPDU) :
         /\ PdusOf(v) \in Seq(PDU) /\ Len(PdusOf(v)) = Len(v)
         /\ \A i \in 1..Len(v) : PdusOf(v)[i] = v[i].pdu
  <2> SUFFICES ASSUME NEW v \in Seq(FlaggedPDU)
               PROVE  /\ PdusOf(v) \in Seq(PDU) /\ Len(PdusOf(v)) = Len(v)
                      /\ \A i \in 1..Len(v) : PdusOf(v)[i] = v[i].pdu
    OBVIOUS
  <2>0. \A i \in 1..Len(v) : v[i] \in FlaggedPDU
    OBVIOUS
  <2>1. DOMAIN v = 1..Len(v) /\ Len(v) \in Nat /\ \A i \in 1..Len(v) : v[i].pdu \in PDU
    <3>1. DOMAIN v = 1..Len(v) /\ Len(v) \in Nat
      OBVIOUS
    <3>2. \A x \in FlaggedPDU : x.pdu \in PDU
      BY DEF FlaggedPDU
    <3> QED
      BY <2>0, <3>1, <3>2
  <2>2. PdusOf(v) = [i \in 1..Len(v) |-> v[i].pdu]
    BY <2>1 DEF PdusOf
  <2> QED
    BY <2>1, <2>2
<1>1. e.pdu \in PDU
  BY DEF FlaggedPDU
<1>2. PdusOf(Append(w, e)) = Append(PdusOf(w), e.pdu)
  <2>1. Append(w, e) \in Seq(FlaggedPDU) /\ Len(Append(w, e)) = Len(w) + 1 /\ Len(w) \in Nat
    OBVIOUS
  <2>2. \A i \in 1..(Len(w) + 1) : Append(w, e)[i] = IF i = Len(w) + 1 THEN e ELSE w[i]
    OBVIOUS
  <2>3. /\ PdusOf(Append(w, e)) \in Seq(PDU) /\ Len(PdusOf(Append(w, e))) = Len(w) + 1
        /\ \A i \in 1..(Len(w) + 1) : PdusOf(Append(w, e))[i] = Append(w, e)[i].pdu
    BY <1>0, <2>1
  <2>4. /\ Append(PdusOf(w), e.pdu) \in Seq(PDU) /\ Len(Append(PdusOf(w), e.pdu)) = Len(w) + 1
        /\ \A i \in 1..(Len(w) + 1) :
              Append(PdusOf(w), e.pdu)[i] = IF i = Len(w) + 1 THEN e.pdu ELSE PdusOf(w)[i]
    BY <1>0, <1>1
  <2>5. \A i \in 1..(Len(w) + 1) : PdusOf(Append(w, e))[i] = Append(PdusOf(w), e.pdu)[i]
    BY <1>0, <2>1, <2>2, <2>3, <2>4
  <2> DEFINE a == PdusOf(Append(w, e))
             b == Append(PdusOf(w), e.pdu)
  <2> HIDE DEF a, b
  <2>6. a = b
    BY <2>1, <2>3, <2>4, <2>5 DEF a, b
  <2> QED
    BY <2>6 DEF a, b
<1>3. ASSUME w # <<>>
      PROVE  /\ PdusOf(w) # <<>> /\ Head(PdusOf(w)) = Head(w).pdu
             /\ PdusOf(Tail(w)) = Tail(PdusOf(w))
  <2>1. /\ Tail(w) \in Seq(FlaggedPDU) /\ Len(Tail(w)) = Len(w) - 1 /\ Len(w) \in Nat \ {0}
        /\ \A i \in 1..(Len(w) - 1) : Tail(w)[i] = w[i + 1]
    BY <1>3
  <2>2. /\ PdusOf(w) \in Seq(PDU) /\ Len(PdusOf(w)) = Len(w) /\ PdusOf(w) # <<>>
        /\ \A i \in 1..Len(w) : PdusOf(w)[i] = w[i].pdu
    BY <1>0, <2>1
  <2>3. /\ Tail(PdusOf(w)) \in Seq(PDU) /\ Len(Tail(PdusOf(w))) = Len(w) - 1
        /\ \A i \in 1..(Len(w) - 1) : Tail(PdusOf(w))[i] = PdusOf(w)[i + 1]
    BY <2>1, <2>2
  <2>4. /\ PdusOf(Tail(w)) \in Seq(PDU) /\ Len(PdusOf(Tail(w))) = Len(w) - 1
        /\ \A i \in 1..(Len(w) - 1) : PdusOf(Tail(w))[i] = Tail(w)[i].pdu
    BY <1>0, <2>1
  <2>5. \A i \in 1..(Len(w) - 1) : PdusOf(Tail(w))[i] = Tail(PdusOf(w))[i]
    BY <2>1, <2>2, <2>3, <2>4
  <2> DEFINE a == PdusOf(Tail(w))
             b == Tail(PdusOf(w))
  <2> HIDE DEF a, b
  <2>6. a = b
    BY <2>1, <2>3, <2>4, <2>5 DEF a, b
  <2>7. Head(PdusOf(w)) = Head(w).pdu
    BY <2>1, <2>2
  <2> QED
    BY <2>2, <2>6, <2>7 DEF a, b
<1>4. w = <<>> => PdusOf(w) = <<>>
  <2>1. PdusOf(w) \in Seq(PDU) /\ Len(PdusOf(w)) = Len(w)
    BY <1>0
  <2> DEFINE a == PdusOf(w)
  <2> HIDE DEF a
  <2>2. w = <<>> => a = <<>>
    BY <2>1 DEF a
  <2> QED
    BY <2>2 DEF a
<1> QED
  BY <1>0, <1>1, <1>2, <1>3, <1>4

(* The PDUs of QoS q in the queue for it, if there is one. *)
QueueOf(d, q) == IF q \in QoS THEN PdusOf(d.queue[q]) ELSE <<>>

(* The seven stages from source s to port or instance x, of QoS q. *)
Path(x, s, q) ==
    << sent[x],
       IF x \in Ports THEN PdusOf(dir[x]["out"].link) ELSE <<>>,
       IF x \in Ports THEN QueueOf(dir[x]["out"], q) ELSE <<>>,
       IF x \in Ports THEN PdusOf(onLine[x]) ELSE <<>>,
       IF s \in Ports THEN PdusOf(dir[s]["in"].link) ELSE PdusOf(fromEfcp),
       IF s \in Ports THEN QueueOf(dir[s]["in"], q) ELSE <<>>,
       ahead[s] >>

LEMMA OnLineType ==
    ASSUME TypeOK
    PROVE  onLine \in [Ports -> Seq(FlaggedPDU)]
<1> DEFINE G == {e \in FlaggedPDU : e.pdu.qos \in QoS}
<1>1. onLine \in [Ports -> Seq(G)]
  BY DEF TypeOK
<1>2. G \subseteq FlaggedPDU
  OBVIOUS
<1> HIDE DEF G
<1>3. ASSUME NEW w \in Seq(G) PROVE w \in Seq(FlaggedPDU)
  <2>1. /\ w = [i \in 1..Len(w) |-> w[i]] /\ Len(w) \in Nat
        /\ \A i \in 1..Len(w) : w[i] \in G
    OBVIOUS
  <2> QED
    BY <1>2, <2>1
<1> QED
  BY <1>1, <1>3

PathsTyped ==
    \A x \in Ports \union Ceps, s \in Sources, q \in STRING : Path(x, s, q) \in StageSeqs

LEMMA PathType == TypeOK => PathsTyped
<1> SUFFICES ASSUME TypeOK, NEW x \in Ports \union Ceps, NEW s \in Sources, NEW q \in STRING
             PROVE  Path(x, s, q) \in StageSeqs
  BY DEF PathsTyped
<1>1. \A p \in Ports, t \in Types : /\ dir[p][t].link \in Seq(FlaggedPDU)
                                    /\ \A r \in QoS : dir[p][t].queue[r] \in Seq(FlaggedPDU)
  <2> SUFFICES ASSUME NEW p \in Ports, NEW t \in Types
               PROVE  /\ dir[p][t].link \in Seq(FlaggedPDU)
                      /\ \A r \in QoS : dir[p][t].queue[r] \in Seq(FlaggedPDU)
    OBVIOUS
  <2>1. dir[p][t] \in Direction
    BY DirGood, TypeOKParts
  <2> QED
    BY <2>1, DirectionFields
<1>2. "in" \in Types /\ "out" \in Types
  BY DEF Types
<1>3. \A p \in Ports : onLine[p] \in Seq(FlaggedPDU)
  BY OnLineType
<1>4. \A v \in Seq(FlaggedPDU) : PdusOf(v) \in Seq(PDU)
  <2> SUFFICES ASSUME NEW v \in Seq(FlaggedPDU) PROVE PdusOf(v) \in Seq(PDU)
    OBVIOUS
  <2>1. CASE v = <<>>
    BY <2>1 DEF PdusOf
  <2>2. CASE v # <<>>
    <3>1. Head(v) \in FlaggedPDU
      BY <2>2
    <3> QED
      BY <3>1, PdusOfFacts
  <2> QED
    BY <2>1, <2>2
<1>5. /\ sent[x] \in Seq(PDU) /\ ahead[s] \in Seq(PDU) /\ fromEfcp \in Seq(FlaggedPDU)
      /\ <<>> \in Seq(PDU)
  BY DEF TypeOK
<1>6. /\ Path(x, s, q)[1] \in Seq(PDU) /\ Path(x, s, q)[2] \in Seq(PDU)
      /\ Path(x, s, q)[3] \in Seq(PDU) /\ Path(x, s, q)[4] \in Seq(PDU)
      /\ Path(x, s, q)[5] \in Seq(PDU) /\ Path(x, s, q)[6] \in Seq(PDU)
      /\ Path(x, s, q)[7] \in Seq(PDU)
  BY <1>1, <1>2, <1>3, <1>4, <1>5 DEF Path, QueueOf
<1>7. Path(x, s, q) = [k \in Stages |-> Path(x, s, q)[k]]
  BY DEF Path, Stages
<1>8. \A k \in Stages : Path(x, s, q)[k] \in Seq(PDU)
  <2>1. \A k \in Stages : k = 1 \/ k = 2 \/ k = 3 \/ k = 4 \/ k = 5 \/ k = 6 \/ k = 7
    BY DEF Stages
  <2> QED
    BY <1>6, <2>1
<1> HIDE DEF Path
<1> QED
  BY <1>7, <1>8 DEF StageSeqs

(* A direction that is served moves the first PDU of a queue to the link.  *)
LEMMA ServedOrder ==
    ASSUME NEW s, NEW q, NEW S \in StageSeqs, NEW T \in StageSeqs, Ordered(S, s, q),
           NEW d \in GoodDirection, NEW e, Served(d, e), NEW k \in {2, 5},
           S[k] = PdusOf(d.link), T[k] = PdusOf(e.link),
           S[k + 1] = QueueOf(d, q), T[k + 1] = QueueOf(e, q),
           \A l \in Stages : l # k /\ l # k + 1 => T[l] = S[l]
    PROVE  Ordered(T, s, q)
<1>0. d \in Direction /\ d.queue \in [QoS -> Seq(FlaggedPDU)] /\ d.link \in Seq(FlaggedPDU)
  BY DirectionFields DEF GoodDirection
<1>1. CASE e.queue = d.queue /\ e.link = d.link
  <2>1. \A l \in Stages : T[l] = S[l]
    BY <1>1 DEF QueueOf
  <2> QED
    BY <2>1 DEF Ordered
<1>2. ASSUME NEW r \in QoS, d.queue[r] # <<>>, e.queue = [d.queue EXCEPT ![r] = Tail(@)],
             e.link = Append(d.link, Head(d.queue[r]))
      PROVE  Ordered(T, s, q)
  <2> DEFINE u == Head(d.queue[r])
  <2>1. d.queue[r] \in Seq(FlaggedPDU) /\ u \in FlaggedPDU /\ u.pdu \in PDU /\ u.pdu.qos = r
    <3>1. d.queue[r] \in Seq(FlaggedPDU) /\ \A i \in DOMAIN d.queue[r] : d.queue[r][i].pdu.qos = r
      BY QueueFacts
    <3>2. u \in FlaggedPDU /\ 1 \in DOMAIN d.queue[r] /\ u = d.queue[r][1]
      BY <1>2, <3>1
    <3> QED
      BY <3>1, <3>2 DEF FlaggedPDU
  <2>2. T[k] = Append(S[k], u.pdu)
    BY <1>0, <1>2, <2>1, PdusOfFacts
  <2>3. CASE r = q
    <3>1. S[k + 1] = PdusOf(d.queue[r]) /\ T[k + 1] = PdusOf(Tail(d.queue[r]))
      BY <1>0, <1>2, <2>3 DEF QueueOf
    <3>2. S[k + 1] # <<>> /\ Head(S[k + 1]) = u.pdu /\ T[k + 1] = Tail(S[k + 1])
      BY <1>2, <2>1, <3>1, PdusOfFacts
    <3> DEFINE n == k + 1
    <3>3. n \in Stages /\ k \in Stages /\ k < n
      BY DEF Stages
    <3>4. \A l \in Stages : k < l /\ l < n => S[l] = <<>>
      BY DEF Stages
    <3>5. \A l \in Stages : l # n /\ l # k => T[l] = S[l]
      OBVIOUS
    <3>6. S[n] # <<>> /\ T[n] = Tail(S[n]) /\ T[k] = Append(S[k], Head(S[n]))
      BY <2>2, <3>2
    <3> HIDE DEF u, n
    <3> QED
      BY <3>3, <3>4, <3>5, <3>6, HeadMoves
  <2>4. CASE r # q
    <3>1. T[k + 1] = S[k + 1]
      BY <1>0, <1>2, <2>4 DEF QueueOf
    <3>2. ~Mine(u.pdu, s, q)
      BY <2>1, <2>4 DEF Mine
    <3>3. k \in Stages /\ \A l \in Stages : l # k => T[l] = S[l]
      BY <3>1 DEF Stages
    <3> HIDE DEF u
    <3> QED
      BY <2>1, <2>2, <3>2, <3>3, OtherJoins
  <2> QED
    BY <2>3, <2>4
<1> QED
  BY <1>1, <1>2 DEF Served

(* A direction in which a PDU arrived has it in its queue, or not at all.  *)
LEMMA ArrivedGood ==
    ASSUME NEW d \in GoodDirection, NEW m \in Direction, NEW u \in FlaggedPDU,
           u.pdu.qos \in QoS, Arrived(d, m, u)
    PROVE  m \in GoodDirection
<1>0. d.queue \in [QoS -> Seq(FlaggedPDU)] /\ WellQueued(d)
  BY DirectionFields DEF GoodDirection
<1>1. CASE m.queue = d.queue
  BY <1>0, <1>1 DEF GoodDirection, WellQueued
<1>2. ASSUME NEW v \in FlaggedPDU, v.pdu = u.pdu,
             m.queue = [d.queue EXCEPT ![u.pdu.qos] = Append(@, v)]
      PROVE  m \in GoodDirection
  <2> DEFINE q == u.pdu.qos
  <2> SUFFICES ASSUME NEW r \in QoS, NEW i \in DOMAIN m.queue[r]
               PROVE  m.queue[r][i].pdu.qos = r
    BY DEF GoodDirection, WellQueued
  <2>1. CASE r # q
    <3>1. m.queue[r] = d.queue[r]
      BY <1>0, <1>2, <2>1
    <3> QED
      BY <1>0, <3>1 DEF WellQueued
  <2>2. CASE r = q
    <3>1. m.queue[r] = Append(d.queue[q], v) /\ d.queue[q] \in Seq(FlaggedPDU)
      BY <1>0, <1>2, <2>2
    <3>2. /\ m.queue[r][i] = IF i = Len(d.queue[q]) + 1 THEN v ELSE d.queue[q][i]
          /\ i = Len(d.queue[q]) + 1 \/ i \in DOMAIN d.queue[q]
      BY <3>1
    <3> QED
      BY <1>0, <1>2, <2>2, <3>2 DEF WellQueued
  <2> QED
    BY <2>1, <2>2
<1> QED
  BY <1>1, <1>2 DEF Arrived

(* A PDU arrives and the direction is served. *)
LEMMA ArrivedOrder ==
    ASSUME NEW s, NEW q, NEW S \in StageSeqs, NEW T \in StageSeqs, Ordered(S, s, q),
           NEW d \in GoodDirection, NEW u \in FlaggedPDU, u.pdu.qos \in QoS,
           NEW m \in Direction, Arrived(d, m, u), NEW e, Served(m, e), NEW k \in {2, 5},
           S[k] = PdusOf(d.link), T[k] = PdusOf(e.link),
           S[k + 1] = QueueOf(d, q), T[k + 1] = QueueOf(e, q),
           S[k + 2] # <<>>, Head(S[k + 2]) = u.pdu, T[k + 2] = Tail(S[k + 2]),
           \A l \in Stages : l # k /\ l # k + 1 /\ l # k + 2 => T[l] = S[l]
    PROVE  Ordered(T, s, q)
<1> DEFINE M == [l \in Stages |-> IF l = k + 1 THEN QueueOf(m, q)
                                  ELSE IF l = k + 2 THEN Tail(S[l]) ELSE S[l]]
<1>0. /\ d.queue \in [QoS -> Seq(FlaggedPDU)] /\ m \in GoodDirection
      /\ k \in Stages /\ k + 1 \in Stages /\ k + 2 \in Stages
      /\ k \in Nat /\ \A l \in Stages : l \in Nat
  BY DirectionFields, ArrivedGood DEF GoodDirection, Stages
<1>1. \A l \in Stages : S[l] \in Seq(PDU) /\ T[l] \in Seq(PDU)
  BY DEF StageSeqs
<1>2. QueueOf(m, q) = QueueOf(d, q) \/ (u.pdu.qos = q /\ QueueOf(m, q) = Append(QueueOf(d, q), u.pdu))
  <2>1. CASE m.queue = d.queue
    BY <2>1 DEF QueueOf
  <2>2. ASSUME NEW v \in FlaggedPDU, v.pdu = u.pdu,
               m.queue = [d.queue EXCEPT ![u.pdu.qos] = Append(@, v)]
        PROVE  QueueOf(m, q) = QueueOf(d, q)
               \/ (u.pdu.qos = q /\ QueueOf(m, q) = Append(QueueOf(d, q), u.pdu))
    <3>1. CASE u.pdu.qos # q
      BY <1>0, <2>2, <3>1 DEF QueueOf
    <3>2. CASE u.pdu.qos = q
      <4>1. m.queue[q] = Append(d.queue[q], v) /\ d.queue[q] \in Seq(FlaggedPDU) /\ q \in QoS
        BY <1>0, <2>2, <3>2
      <4>2. PdusOf(Append(d.queue[q], v)) = Append(PdusOf(d.queue[q]), v.pdu)
        BY <4>1, PdusOfFacts
      <4> QED
        BY <2>2, <3>2, <4>1, <4>2 DEF QueueOf
    <3> QED
      BY <3>1, <3>2
  <2> QED
    BY <2>1, <2>2 DEF Arrived
<1>3. QueueOf(m, q) \in Seq(PDU)
  <2>1. CASE q \in QoS
    <3>1. m.queue[q] \in Seq(FlaggedPDU)
      BY <1>0, <2>1, DirectionFields
    <3> QED
      BY <2>1, <3>1, PdusOfFacts DEF QueueOf
  <2>2. CASE q \notin QoS
    BY <2>2 DEF QueueOf
  <2> QED
    BY <2>1, <2>2
<1>4. Tail(S[k + 2]) \in Seq(PDU)
  BY <1>0, <1>1
<1>5. M \in StageSeqs
  BY <1>1, <1>3, <1>4 DEF StageSeqs
<1>6. /\ M[k] = PdusOf(d.link) /\ M[k + 1] = QueueOf(m, q) /\ M[k + 2] = Tail(S[k + 2])
      /\ \A l \in Stages : l # k + 1 /\ l # k + 2 => M[l] = S[l]
  BY <1>0
<1> HIDE DEF M
<1>7. Ordered(M, s, q)
  <2>1. CASE QueueOf(m, q) = QueueOf(d, q)
    <3>1. \A l \in Stages : l # k + 2 => M[l] = S[l]
      BY <1>6, <2>1
    <3> QED
      BY <1>0, <1>5, <1>6, <3>1, HeadGoes
  <2>2. CASE QueueOf(m, q) = Append(QueueOf(d, q), u.pdu)
    <3>1. k + 1 < k + 2 /\ \A l \in Stages : ~(k + 1 < l /\ l < k + 2)
      BY <1>0
    <3>2. M[k + 1] = Append(S[k + 1], Head(S[k + 2]))
      BY <1>6, <2>2
    <3> QED
      BY <1>0, <1>5, <1>6, <3>1, <3>2, HeadMoves
  <2> QED
    BY <1>2, <2>1, <2>2
<1>8. M[k] = PdusOf(m.link)
  BY <1>6 DEF Arrived
<1>9. \A l \in Stages : l # k /\ l # k + 1 => T[l] = M[l]
  BY <1>6
<1> QED
  BY <1>0, <1>5, <1>6, <1>7, <1>8, <1>9, ServedOrder

(* The stages of a path, now and after a step. *)
LEMMA PathStages ==
    ASSUME NEW x, NEW s, NEW q
    PROVE  /\ LET S == Path(x, s, q)
              IN  /\ S[1] = sent[x]
                  /\ S[2] = IF x \in Ports THEN PdusOf(dir[x]["out"].link) ELSE <<>>
                  /\ S[3] = IF x \in Ports THEN QueueOf(dir[x]["out"], q) ELSE <<>>
                  /\ S[4] = IF x \in Ports THEN PdusOf(onLine[x]) ELSE <<>>
                  /\ S[5] = IF s \in Ports THEN PdusOf(dir[s]["in"].link) ELSE PdusOf(fromEfcp)
                  /\ S[6] = IF s \in Ports THEN QueueOf(dir[s]["in"], q) ELSE <<>>
                  /\ S[7] = ahead[s]
           /\ LET T == Path(x, s, q)'
              IN  /\ T[1] = sent'[x]
                  /\ T[2] = IF x \in Ports THEN PdusOf(dir'[x]["out"].link) ELSE <<>>
                  /\ T[3] = IF x \in Ports THEN QueueOf(dir'[x]["out"], q) ELSE <<>>
                  /\ T[4] = IF x \in Ports THEN PdusOf(onLine'[x]) ELSE <<>>
                  /\ T[5] = IF s \in Ports THEN PdusOf(dir'[s]["in"].link) ELSE PdusOf(fromEfcp')
                  /\ T[6] = IF s \in Ports THEN QueueOf(dir'[s]["in"], q) ELSE <<>>
                  /\ T[7] = ahead'[s]
BY DEF Path, QueueOf

(* The PDUs on the way from a port's input are that port's own. *)
From(w, s) == \A i \in DOMAIN w : w[i].pdu.src = s

Sourced ==
    /\ \A s \in Sources : \A i \in DOMAIN ahead[s] : ahead[s][i].src = s
    /\ \A p \in Ports : /\ From(dir[p]["in"].link, p)
                        /\ \A q \in QoS : From(dir[p]["in"].queue[q], p)
    /\ From(fromEfcp, Efcp)

LEMMA FromParts ==
    ASSUME NEW w \in Seq(FlaggedPDU), NEW s, From(w, s)
    PROVE  /\ w # <<>> => From(Tail(w), s) /\ Head(w).pdu.src = s
           /\ \A e \in FlaggedPDU : e.pdu.src = s => From(Append(w, e), s)
<1>1. w # <<>> => From(Tail(w), s) /\ Head(w).pdu.src = s
  <2> SUFFICES ASSUME w # <<>> PROVE From(Tail(w), s) /\ Head(w).pdu.src = s
    OBVIOUS
  <2>1. \A i \in DOMAIN Tail(w) : i + 1 \in DOMAIN w /\ Tail(w)[i] = w[i + 1]
    BY TailFacts
  <2>2. 1 \in DOMAIN w /\ Head(w) = w[1]
    OBVIOUS
  <2> QED
    BY <2>1, <2>2 DEF From
<1>2. ASSUME NEW e \in FlaggedPDU, e.pdu.src = s PROVE From(Append(w, e), s)
  <2>1. \A i \in DOMAIN Append(w, e) :
           /\ Append(w, e)[i] = IF i = Len(w) + 1 THEN e ELSE w[i]
           /\ i = Len(w) + 1 \/ i \in DOMAIN w
    OBVIOUS
  <2> QED
    BY <1>2, <2>1 DEF From
<1> QED
  BY <1>1, <1>2

(* Arrivals and service keep the PDUs of a direction those of its source.  *)
LEMMA ServedFrom ==
    ASSUME NEW d \in Direction, NEW e, Served(d, e), NEW s,
           From(d.link, s), \A q \in QoS : From(d.queue[q], s)
    PROVE  From(e.link, s) /\ \A q \in QoS : From(e.queue[q], s)
<1>0. d.queue \in [QoS -> Seq(FlaggedPDU)] /\ d.link \in Seq(FlaggedPDU)
  BY DirectionFields
<1>1. CASE e.queue = d.queue /\ e.link = d.link
  BY <1>1
<1>2. ASSUME NEW r \in QoS, d.queue[r] # <<>>, e.queue = [d.queue EXCEPT ![r] = Tail(@)],
             e.link = Append(d.link, Head(d.queue[r]))
      PROVE  From(e.link, s) /\ \A q \in QoS : From(e.queue[q], s)
  <2>1. /\ d.queue[r] \in Seq(FlaggedPDU) /\ Head(d.queue[r]) \in FlaggedPDU
        /\ From(Tail(d.queue[r]), s) /\ Head(d.queue[r]).pdu.src = s
    BY <1>0, <1>2, FromParts, TailFacts
  <2>2. From(e.link, s)
    BY <1>0, <1>2, <2>1, FromParts
  <2>3. ASSUME NEW q \in QoS PROVE From(e.queue[q], s)
    <3>1. e.queue[q] = IF q = r THEN Tail(d.queue[r]) ELSE d.queue[q]
      BY <1>0, <1>2
    <3> QED
      BY <2>1, <3>1
  <2> QED
    BY <2>2, <2>3
<1> QED
  BY <1>1, <1>2 DEF Served

LEMMA ArrivedFrom ==
    ASSUME NEW d \in Direction, NEW m, NEW u \in FlaggedPDU, Arrived(d, m, u), NEW s,
           u.pdu.src = s, From(d.link, s), \A q \in QoS : From(d.queue[q], s)
    PROVE  From(m.link, s) /\ \A q \in QoS : From(m.queue[q], s)
<1>0. d.queue \in [QoS -> Seq(FlaggedPDU)] /\ d.link \in Seq(FlaggedPDU)
  BY DirectionFields
<1>1. m.link = d.link
  BY DEF Arrived
<1>2. CASE m.queue = d.queue
  BY <1>1, <1>2
<1>3. ASSUME NEW v \in FlaggedPDU, v.pdu = u.pdu,
             m.queue = [d.queue EXCEPT ![u.pdu.qos] = Append(@, v)]
      PROVE  \A q \in QoS : From(m.queue[q], s)
  <2> SUFFICES ASSUME NEW q \in QoS PROVE From(m.queue[q], s)
    OBVIOUS
  <2>1. m.queue[q] = IF q = u.pdu.qos THEN Append(d.queue[q], v) ELSE d.queue[q]
    BY <1>0, <1>3
  <2>2. d.queue[q] \in Seq(FlaggedPDU) /\ v.pdu.src = s
    BY <1>0, <1>3
  <2> QED
    BY <2>1, <2>2, FromParts
<1> QED
  BY <1>1, <1>2, <1>3 DEF Arrived

LEMMA StepSourced == TypeOK /\ Sourced /\ [Next]_vars => Sourced'
<1> SUFFICES ASSUME TypeOK, Sourced, [Next]_vars PROVE Sourced'
  OBVIOUS
<1> "in" \in Types /\ "out" \in Types /\ "in" # "out"
  BY DEF Types
<1> DEFINE Port(p) == From(dir[p]["in"].link, p) /\ \A q \in QoS : From(dir[p]["in"].queue[q], p)
<1>0. \A p \in Ports : dir[p]["in"] \in Direction /\ Port(p)
  BY DirGood, TypeOKParts DEF Sourced
<1>1. \A p \in Ports : dir'[p]["in"] = dir[p]["in"] => Port(p)'
  BY <1>0
<1>2. fromEfcp \in Seq(FlaggedPDU) /\ ahead \in [Sources -> Seq(PDU)]
  BY DEF TypeOK
<1>3. ASSUME NEW p \in Ports, ReceiveFromSouth(p) PROVE Sourced'
  <2> DEFINE u == Unmarked(Head(ahead[p]))
  <2>1. /\ u \in FlaggedPDU /\ u.pdu = Head(ahead[p])
        /\ ahead[p] \in Seq(PDU) /\ ahead[p] # <<>>
    BY <1>3, ReceiveFromSouthServes
  <2>2. u.pdu.src = p /\ \A i \in DOMAIN Tail(ahead[p]) : Tail(ahead[p])[i].src = p
    <3>1. \A i \in DOMAIN ahead[p] : ahead[p][i].src = p
      BY DEF Sourced, Sources
    <3>2. 1 \in DOMAIN ahead[p] /\ Head(ahead[p]) = ahead[p][1]
      BY <2>1
    <3>3. \A i \in DOMAIN Tail(ahead[p]) : i + 1 \in DOMAIN ahead[p] /\ Tail(ahead[p])[i] = ahead[p][i + 1]
      BY <2>1, TailFacts
    <3> QED
      BY <2>1, <3>1, <3>2, <3>3
  <2>3. ahead' = [ahead EXCEPT ![p] = Tail(@)] /\ fromEfcp' = fromEfcp
    BY <1>3 DEF ReceiveFromSouth
  <2>4. \A s \in Sources : \A i \in DOMAIN ahead'[s] : ahead'[s][i].src = s
    BY <1>2, <2>2, <2>3 DEF Sourced
  <2>5. Port(p)'
    <3>1. CASE dir' = dir
      BY <1>1, <3>1
    <3>2. ASSUME NEW m \in Direction, Arrived(dir[p]["in"], m, u), Served(m, dir'[p]["in"])
          PROVE  Port(p)'
      <4>1. From(m.link, p) /\ \A q \in QoS : From(m.queue[q], p)
        BY <1>0, <2>1, <2>2, <3>2, ArrivedFrom
      <4> QED
        BY <3>2, <4>1, ServedFrom
    <3> QED
      BY <1>3, <3>1, <3>2, ReceiveFromSouthServes
  <2>6. \A r \in Ports : Port(r)'
    <3>1. \A r \in Ports : r # p => dir'[r]["in"] = dir[r]["in"]
      BY <1>3, ReceiveFromSouthServes
    <3> QED
      BY <1>1, <2>5, <3>1
  <2> QED
    BY <2>3, <2>4, <2>6 DEF Sourced
<1>4. ASSUME NEW p \in Ports, RelayFromPort(p) PROVE Sourced'
  <2>1. Port(p)'
    <3>1. /\ dir[p]["in"].link \in Seq(FlaggedPDU) /\ dir[p]["in"].link # <<>>
          /\ dir'[p]["in"].link = Tail(dir[p]["in"].link)
          /\ dir'[p]["in"].queue = dir[p]["in"].queue
      BY <1>4, RelayFromPortServes
    <3> QED
      BY <1>0, <3>1, FromParts
  <2>2. \A r \in Ports : r # p => dir'[r]["in"] = dir[r]["in"]
    BY <1>4, RelayFromPortServes
  <2>3. UNCHANGED <<ahead, fromEfcp>>
    BY <1>4 DEF RelayFromPort
  <2> QED
    BY <1>1, <2>1, <2>2, <2>3 DEF Sourced
<1>5. ASSUME NEW p \in Ports, EnqueueOutput(p) PROVE Sourced'
  <2>1. \A r \in Ports : dir'[r]["in"] = dir[r]["in"]
    BY <1>5, EnqueueOutputServes
  <2>2. UNCHANGED <<ahead, fromEfcp>>
    BY <1>5 DEF EnqueueOutput
  <2> QED
    BY <1>1, <2>1, <2>2 DEF Sourced
<1>6. ASSUME NEW p \in Ports, SendSouth(p) PROVE Sourced'
  <2>1. \A r \in Ports : dir'[r]["in"] = dir[r]["in"]
    BY <1>6, SendSouthServes
  <2>2. UNCHANGED <<ahead, fromEfcp>>
    BY <1>6 DEF SendSouth
  <2> QED
    BY <1>1, <2>1, <2>2 DEF Sourced
<1>7. CASE ReceiveFromEfcp
  <2> DEFINE u == Head(ahead[Efcp])
  <2>1. ahead[Efcp] \in Seq(PDU) /\ ahead[Efcp] # <<>>
    BY <1>2, <1>7 DEF ReceiveFromEfcp, Sources
  <2>2. u \in PDU /\ u.src = Efcp /\ \A i \in DOMAIN Tail(ahead[Efcp]) : Tail(ahead[Efcp])[i].src = Efcp
    <3>1. \A i \in DOMAIN ahead[Efcp] : ahead[Efcp][i].src = Efcp
      BY DEF Sourced, Sources
    <3>2. 1 \in DOMAIN ahead[Efcp] /\ u = ahead[Efcp][1] /\ u \in PDU
      BY <2>1
    <3>3. \A i \in DOMAIN Tail(ahead[Efcp]) :
             i + 1 \in DOMAIN ahead[Efcp] /\ Tail(ahead[Efcp])[i] = ahead[Efcp][i + 1]
      BY <2>1, TailFacts
    <3> QED
      BY <3>1, <3>2, <3>3
  <2>3. Unmarked(u) \in FlaggedPDU /\ Unmarked(u).pdu.src = Efcp
    BY <2>2 DEF Unmarked, FlaggedPDU
  <2>4. /\ fromEfcp' = Append(fromEfcp, Unmarked(u)) /\ dir' = dir
        /\ ahead' = [ahead EXCEPT ![Efcp] = Tail(@)]
    BY <1>7 DEF ReceiveFromEfcp
  <2>5. From(fromEfcp', Efcp)
    <3> HIDE DEF u
    <3> QED
      BY <1>2, <2>3, <2>4, FromParts DEF Sourced
  <2>6. \A s \in Sources : \A i \in DOMAIN ahead'[s] : ahead'[s][i].src = s
    BY <1>2, <2>2, <2>4 DEF Sourced
  <2> QED
    BY <1>1, <2>4, <2>5, <2>6 DEF Sourced
<1>8. CASE RelayFromEfcp
  <2>1. fromEfcp # <<>> /\ fromEfcp' = Tail(fromEfcp) /\ UNCHANGED <<dir, ahead>>
    BY <1>8 DEF RelayFromEfcp
  <2>2. From(fromEfcp', Efcp)
    BY <1>2, <2>1, FromParts DEF Sourced
  <2> QED
    BY <1>1, <2>1, <2>2 DEF Sourced
<1>9. CASE /\ \A r \in Ports, v \in Types : Served(dir[r][v], dir'[r][v])
           /\ UNCHANGED <<onLine, fromEfcp, ahead, sent>>
  <2>1. \A r \in Ports : Port(r)'
    BY <1>0, <1>9, ServedFrom
  <2> QED
    BY <1>9, <2>1 DEF Sourced
<1> QED
  BY <1>3, <1>4, <1>5, <1>6, <1>7, <1>8, <1>9, StepKinds

(* No PDU overtakes another of its source and QoS, whatever port or EFCP   *)
(* instance they leave by.                                                 *)
AllOrdered ==
    \A x \in Ports \union Ceps, s \in Sources, q \in STRING : Ordered(Path(x, s, q), s, q)

OrderInv == TypeOK /\ Sourced /\ AllOrdered

LEMMA InitOrder == Init => Sourced /\ AllOrdered
<1> SUFFICES ASSUME Init PROVE Sourced /\ AllOrdered
  OBVIOUS
<1>0. node.traffic \in Traffics
  BY DEF Init, Nodes
<1>1. \A s \in Sources : ahead[s] = node.traffic[s] \/ ahead[s] = <<>>
  BY DEF Init
<1>2. \A s \in Sources : \A i \in DOMAIN ahead[s] :
         /\ ahead[s][i].src = s
         /\ \A j \in DOMAIN ahead[s] : i < j => ahead[s][i].id < ahead[s][j].id
  <2> SUFFICES ASSUME NEW s \in Sources, NEW i \in DOMAIN ahead[s]
               PROVE  /\ ahead[s][i].src = s
                      /\ \A j \in DOMAIN ahead[s] : i < j => ahead[s][i].id < ahead[s][j].id
    OBVIOUS
  <2>1. CASE ahead[s] = node.traffic[s]
    BY <1>0, <2>1, TrafficAssumption
  <2>2. CASE ahead[s] = <<>>
    BY <2>2
  <2> QED
    BY <1>1, <2>1, <2>2
<1>3. \A p \in Ports, t \in Types : /\ dir[p][t].link = <<>>
                                    /\ \A q \in QoS : dir[p][t].queue[q] = <<>>
  BY DEF Init, InitDirection
<1>4. /\ fromEfcp = <<>> /\ (\A p \in Ports : onLine[p] = <<>>)
      /\ \A x \in Ports \union Ceps : sent[x] = <<>>
  BY DEF Init
<1>5. "in" \in Types /\ "out" \in Types
  BY DEF Types
<1>6. Sourced
  BY <1>2, <1>3, <1>4, <1>5 DEF Sourced, From
<1>7. ASSUME NEW x \in Ports \union Ceps, NEW s \in Sources, NEW q
      PROVE  Ordered(Path(x, s, q), s, q)
  <2> DEFINE S == Path(x, s, q)
  <2>1. PdusOf(<<>>) = <<>>
    BY DEF PdusOf
  <2>2. /\ S[1] = <<>> /\ S[2] = <<>> /\ S[3] = <<>> /\ S[4] = <<>> /\ S[5] = <<>>
        /\ S[6] = <<>> /\ S[7] = ahead[s]
    BY <1>3, <1>4, <1>5, <2>1, PathStages DEF QueueOf
  <2> HIDE DEF S
  <2>3. \A k \in Stages : S[k] = <<>> \/ k = 7
    BY <2>2 DEF Stages
  <2> SUFFICES ASSUME NEW k \in Stages, NEW l \in Stages,
                      NEW i \in DOMAIN S[k], NEW j \in DOMAIN S[l],
                      k < l \/ (k = l /\ i < j)
               PROVE  S[k][i].id < S[l][j].id
    BY DEF Ordered, S
  <2>4. k = 7 /\ l = 7
    BY <2>3
  <2>5. i < j
    BY <2>4
  <2> QED
    BY <1>2, <2>2, <2>4, <2>5
<1> QED
  BY <1>6, <1>7 DEF AllOrdered

(* A path none of whose stages changes stays in order. *)
LEMMA SameStages ==
    ASSUME NEW s, NEW q, NEW S, NEW T, Ordered(S, s, q), \A l \in Stages : T[l] = S[l]
    PROVE  Ordered(T, s, q)
BY DEF Ordered

(* A PDU the RMT looks at goes to a port, to an EFCP instance or away. *)
LEMMA ProcessMessageMoves ==
    ASSUME TypeOK, NEW e \in FlaggedPDU, NEW fromPort, ProcessMessage(e, fromPort)
    PROVE  \/ sent' = sent /\ onLine' = onLine /\ \E w \in Whys : Away(e.pdu, w)
           \/ /\ sent' = sent /\ away' = away
              /\ \E p \in Ports : onLine' = [onLine EXCEPT ![p] = Append(@, e)]
           \/ /\ onLine' = onLine /\ away' = away
              /\ \E c \in Ceps : sent' = [sent EXCEPT ![c] = Append(@, e.pdu)]
<1>1. e.pdu \in PDU /\ e.pdu.dst \in Addresses /\ e.pdu.cep \in Ceps
  BY DEF FlaggedPDU, PDU
<1>0. "invalid" \in Whys /\ "noQueue" \in Whys /\ "held" \in Whys
  BY DEF Whys
<1>2. CASE RelayPDUToEFCPI(e)
  BY <1>0, <1>1, <1>2 DEF RelayPDUToEFCPI
<1>3. CASE e.pdu.dst # Here /\ RelayPDUToPort(e)
  <2>1. FwTableLookup(e.pdu) \subseteq Ports
    <3>1. table[e.pdu.dst] \in [QoS \union {AnyQoS} -> Ports \union {"none"}]
      BY <1>1, <1>3 DEF TypeOK, Addresses, Entry
    <3>2. Lookup(e.pdu.dst, e.pdu.qos) \subseteq Ports
      BY <3>1 DEF Lookup, Range
    <3> QED
      BY <3>2, PortAssumption DEF FwTableLookup
  <2> QED
    BY <1>0, <1>3, <2>1 DEF RelayPDUToPort
<1>4. CASE Away(e.pdu, "held") /\ UNCHANGED <<onLine, gate, sent>>
  BY <1>0, <1>4
<1> QED
  BY <1>2, <1>3, <1>4 DEF ProcessMessage

(* What each action does to a path: nothing, if the PDU it moves takes     *)
(* another one.                                                            *)
LEMMA StepOrdered ==
    ASSUME OrderInv, TypeOK', [Next]_vars,
           NEW x \in Ports \union Ceps, NEW s \in Sources, NEW q \in STRING
    PROVE  Ordered(Path(x, s, q)', s, q)
<1> DEFINE S == Path(x, s, q)
           T == Path(x, s, q)'
<1> USE DEF OrderInv
<1> "in" \in Types /\ "out" \in Types /\ "in" # "out"
  BY DEF Types
<1>1. S \in StageSeqs /\ Ordered(S, s, q)
  BY PathType DEF AllOrdered, PathsTyped
<1>2. T \in StageSeqs
  <2>1. TypeOK' => PathsTyped'
    BY PathType, PTL
  <2> QED
    BY <2>1 DEF PathsTyped
<1>3. /\ S[1] = sent[x]
      /\ S[2] = IF x \in Ports THEN PdusOf(dir[x]["out"].link) ELSE <<>>
      /\ S[3] = IF x \in Ports THEN QueueOf(dir[x]["out"], q) ELSE <<>>
      /\ S[4] = IF x \in Ports THEN PdusOf(onLine[x]) ELSE <<>>
      /\ S[5] = IF s \in Ports THEN PdusOf(dir[s]["in"].link) ELSE PdusOf(fromEfcp)
      /\ S[6] = IF s \in Ports THEN QueueOf(dir[s]["in"], q) ELSE <<>>
      /\ S[7] = ahead[s]
  BY PathStages
<1>4. /\ T[1] = sent'[x]
      /\ T[2] = IF x \in Ports THEN PdusOf(dir'[x]["out"].link) ELSE <<>>
      /\ T[3] = IF x \in Ports THEN QueueOf(dir'[x]["out"], q) ELSE <<>>
      /\ T[4] = IF x \in Ports THEN PdusOf(onLine'[x]) ELSE <<>>
      /\ T[5] = IF s \in Ports THEN PdusOf(dir'[s]["in"].link) ELSE PdusOf(fromEfcp')
      /\ T[6] = IF s \in Ports THEN QueueOf(dir'[s]["in"], q) ELSE <<>>
      /\ T[7] = ahead'[s]
  BY PathStages
<1>5. /\ sent \in [Ports \union Ceps -> Seq(PDU)] /\ fromEfcp \in Seq(FlaggedPDU)
      /\ onLine \in [Ports -> Seq(FlaggedPDU)]
      /\ ahead \in [Sources -> Seq(PDU)]
      /\ Ports \intersect Ceps = {} /\ Efcp \notin Ports /\ Sources = Ports \union {Efcp}
  <2>1. onLine \in [Ports -> Seq(FlaggedPDU)]
    BY OnLineType
  <2>2. /\ sent \in [Ports \union Ceps -> Seq(PDU)] /\ fromEfcp \in Seq(FlaggedPDU)
        /\ ahead \in [Sources -> Seq(PDU)]
    BY DEF TypeOK
  <2> QED
    BY <2>1, <2>2, PortAssumption DEF Sources
<1>a. /\ \A l \in Stages : l = 1 \/ l = 2 \/ l = 3 \/ l = 4 \/ l = 5 \/ l = 6 \/ l = 7
      /\ 1 \in Stages /\ 2 \in Stages /\ 3 \in Stages /\ 4 \in Stages
      /\ 5 \in Stages /\ 6 \in Stages /\ 7 \in Stages
  BY DEF Stages
<1>6. \A p \in Ports, t \in Types : dir[p][t] \in GoodDirection /\ dir[p][t] \in Direction
  BY DirGood, TypeOKParts
<1> HIDE DEF S, T
<1> SUFFICES Ordered(T, s, q)
  BY DEF T
<1>7. ASSUME \A l \in Stages : T[l] = S[l] PROVE Ordered(T, s, q)
  BY <1>1, <1>7, SameStages
<1>8. ASSUME NEW p \in Ports, ReceiveFromSouth(p) PROVE Ordered(T, s, q)
  <2> DEFINE u == Unmarked(Head(ahead[p]))
  <2>1. /\ u \in FlaggedPDU /\ u.pdu = Head(ahead[p]) /\ ahead[p] # <<>>
        /\ \A r \in Ports, v \in Types : (r # p \/ v # "in") => dir'[r][v] = dir[r][v]
    BY <1>8, ReceiveFromSouthServes
  <2>2. /\ UNCHANGED <<sent, onLine, fromEfcp>>
        /\ ahead' = [ahead EXCEPT ![p] = Tail(@)]
    BY <1>8 DEF ReceiveFromSouth
  <2>3. T[1] = S[1] /\ T[2] = S[2] /\ T[3] = S[3] /\ T[4] = S[4]
    BY <1>3, <1>4, <2>1, <2>2
  <2>4. CASE s # p
    <3>1. T[5] = S[5] /\ T[6] = S[6] /\ T[7] = S[7]
      BY <1>3, <1>4, <1>5, <2>1, <2>2, <2>4
    <3> QED
      BY <1>7, <2>3, <3>1 DEF Stages
  <2>5. CASE s = p
    <3>1. S[7] # <<>> /\ Head(S[7]) = u.pdu /\ T[7] = Tail(S[7])
      BY <1>3, <1>4, <1>5, <2>1, <2>2, <2>5
    <3>2. CASE dir' = dir
      <4>1. T[5] = S[5] /\ T[6] = S[6]
        BY <1>3, <1>4, <2>5, <3>2
      <4>2. 7 \in Stages /\ \A l \in Stages : l # 7 => T[l] = S[l]
        BY <2>3, <4>1 DEF Stages
      <4> QED
        BY <1>1, <1>2, <3>1, <4>2, HeadGoes
    <3>3. ASSUME u.pdu.qos \in QoS, NEW m \in Direction, Arrived(dir[p]["in"], m, u),
                 Served(m, dir'[p]["in"])
          PROVE  Ordered(T, s, q)
      <4> DEFINE k == 5
      <4>1. k \in {2, 5} /\ k + 1 = 6 /\ k + 2 = 7
        OBVIOUS
      <4>2. /\ S[k] = PdusOf(dir[p]["in"].link) /\ T[k] = PdusOf(dir'[p]["in"].link)
            /\ S[k + 1] = QueueOf(dir[p]["in"], q) /\ T[k + 1] = QueueOf(dir'[p]["in"], q)
            /\ S[k + 2] # <<>> /\ Head(S[k + 2]) = u.pdu /\ T[k + 2] = Tail(S[k + 2])
        BY <1>3, <1>4, <2>5, <3>1
      <4>3. \A l \in Stages : l # k /\ l # k + 1 /\ l # k + 2 => T[l] = S[l]
        BY <2>3 DEF Stages
      <4> HIDE DEF u, k
      <4> QED
        BY <1>1, <1>2, <1>6, <2>1, <3>3, <4>1, <4>2, <4>3, ArrivedOrder
    <3>4. \/ dir' = dir
          \/ /\ u.pdu.qos \in QoS
             /\ \E m \in Direction : Arrived(dir[p]["in"], m, u) /\ Served(m, dir'[p]["in"])
      BY <1>8, ReceiveFromSouthServes
    <3> QED
      BY <3>2, <3>3, <3>4
  <2> QED
    BY <2>4, <2>5
<1>9. ASSUME NEW p \in Ports, EnqueueOutput(p) PROVE Ordered(T, s, q)
  <2> DEFINE u == Head(onLine[p])
  <2>1. /\ u \in FlaggedPDU /\ u.pdu.qos \in QoS /\ onLine[p] # <<>>
        /\ \A r \in Ports, v \in Types : (r # p \/ v # "out") => dir'[r][v] = dir[r][v]
    BY <1>9, EnqueueOutputServes
  <2>2. /\ UNCHANGED <<sent, ahead, fromEfcp>>
        /\ onLine' = [onLine EXCEPT ![p] = Tail(@)]
    BY <1>9 DEF EnqueueOutput
  <2>3. T[1] = S[1] /\ T[5] = S[5] /\ T[6] = S[6] /\ T[7] = S[7]
    BY <1>3, <1>4, <2>1, <2>2
  <2>4. CASE x # p
    <3>1. T[2] = S[2] /\ T[3] = S[3] /\ T[4] = S[4]
      BY <1>3, <1>4, <1>5, <2>1, <2>2, <2>4
    <3> QED
      BY <1>7, <2>3, <3>1 DEF Stages
  <2>5. CASE x = p
    <3>1. PICK m \in Direction : Arrived(dir[p]["out"], m, u) /\ Served(m, dir'[p]["out"])
      BY <1>9, EnqueueOutputServes
    <3>2. S[4] # <<>> /\ Head(S[4]) = u.pdu /\ T[4] = Tail(S[4])
      <4>1. onLine[p] \in Seq(FlaggedPDU) /\ onLine'[p] = Tail(onLine[p])
        BY <1>5, <2>2
      <4> QED
        BY <1>3, <1>4, <2>1, <2>5, <4>1, PdusOfFacts
    <3> DEFINE k == 2
    <3>3. k \in {2, 5} /\ k + 1 = 3 /\ k + 2 = 4
      OBVIOUS
    <3>4. /\ S[k] = PdusOf(dir[p]["out"].link) /\ T[k] = PdusOf(dir'[p]["out"].link)
          /\ S[k + 1] = QueueOf(dir[p]["out"], q) /\ T[k + 1] = QueueOf(dir'[p]["out"], q)
          /\ S[k + 2] # <<>> /\ Head(S[k + 2]) = u.pdu /\ T[k + 2] = Tail(S[k + 2])
      <4> HIDE DEF u
      <4>1. /\ S[2] = PdusOf(dir[p]["out"].link) /\ T[2] = PdusOf(dir'[p]["out"].link)
            /\ S[3] = QueueOf(dir[p]["out"], q) /\ T[3] = QueueOf(dir'[p]["out"], q)
        BY <1>3, <1>4, <2>5
      <4> HIDE DEF k
      <4>2. k = 2
        BY DEF k
      <4> QED
        BY <3>2, <3>3, <4>1, <4>2
    <3>5. \A l \in Stages : l # k /\ l # k + 1 /\ l # k + 2 => T[l] = S[l]
      BY <2>3 DEF Stages
    <3> HIDE DEF u, k
    <3> QED
      BY <1>1, <1>2, <1>6, <2>1, <3>1, <3>3, <3>4, <3>5, ArrivedOrder
  <2> QED
    BY <2>4, <2>5
<1>10. ASSUME NEW p \in Ports, SendSouth(p) PROVE Ordered(T, s, q)
  <2>1. /\ dir[p]["out"].link \in Seq(FlaggedPDU) /\ dir[p]["out"].link # <<>>
        /\ \A r \in Ports, v \in Types : (r # p \/ v # "out") => dir'[r][v] = dir[r][v]
    BY <1>10, SendSouthServes
  <2>2. /\ UNCHANGED <<ahead, onLine, fromEfcp>>
        /\ sent' = [sent EXCEPT ![p] = Append(@, Head(dir[p]["out"].link).pdu)]
    BY <1>10 DEF SendSouth
  <2>3. T[4] = S[4] /\ T[5] = S[5] /\ T[6] = S[6] /\ T[7] = S[7]
    BY <1>3, <1>4, <2>1, <2>2
  <2>4. CASE x # p
    <3>1. T[1] = S[1] /\ T[2] = S[2] /\ T[3] = S[3]
      BY <1>3, <1>4, <1>5, <2>1, <2>2, <2>4
    <3> QED
      BY <1>7, <2>3, <3>1 DEF Stages
  <2>5. CASE x = p
    <3>1. PICK m \in Direction :
             /\ m.type = "out" /\ m.link = Tail(dir[p]["out"].link)
             /\ m.queue = dir[p]["out"].queue /\ Served(m, dir'[p]["out"])
      BY <1>10, SendSouthServes
    <3>2. /\ S[2] # <<>> /\ Head(S[2]) = Head(dir[p]["out"].link).pdu
          /\ PdusOf(m.link) = Tail(S[2]) /\ Tail(S[2]) \in Seq(PDU)
          /\ T[1] = Append(S[1], Head(S[2])) /\ Append(S[1], Head(S[2])) \in Seq(PDU)
      <4>1. Head(dir[p]["out"].link) \in FlaggedPDU /\ m.link \in Seq(FlaggedPDU)
        BY <2>1, <3>1
      <4>2. /\ S[2] # <<>> /\ Head(S[2]) = Head(dir[p]["out"].link).pdu
            /\ PdusOf(m.link) = Tail(S[2]) /\ PdusOf(m.link) \in Seq(PDU)
        BY <1>3, <2>1, <2>5, <3>1, <4>1, PdusOfFacts
      <4>3. T[1] = Append(S[1], Head(S[2])) /\ T[1] \in Seq(PDU)
        <5>1. T[1] = Append(S[1], Head(S[2]))
          BY <1>3, <1>4, <1>5, <2>2, <2>5, <4>2
        <5> QED
          BY <1>2, <1>a, <5>1 DEF StageSeqs
      <4> QED
        BY <4>2, <4>3
    <3> DEFINE M == [l \in Stages |-> IF l = 1 THEN T[1] ELSE IF l = 2 THEN Tail(S[2]) ELSE S[l]]
               k == 2
    <3>3. M \in StageSeqs
      BY <1>1, <3>2 DEF StageSeqs
    <3>4. /\ M[1] = Append(S[1], Head(S[2])) /\ M[2] = Tail(S[2])
          /\ \A l \in Stages : l # 1 /\ l # 2 => M[l] = S[l]
      BY <3>2 DEF Stages
    <3> HIDE DEF M
    <3>5. Ordered(M, s, q)
      <4>1. 2 \in Stages /\ 1 \in Stages /\ 1 < 2 /\ \A l \in Stages : ~(1 < l /\ l < 2)
        BY DEF Stages
      <4> QED
        BY <1>1, <3>2, <3>3, <3>4, <4>1, HeadMoves
    <3>6. m \in GoodDirection
      BY <1>6, <3>1, SameQueuesGood
    <3>7. k \in {2, 5} /\ k + 1 = 3
      OBVIOUS
    <3>8. /\ M[k] = PdusOf(m.link) /\ T[k] = PdusOf(dir'[p]["out"].link)
          /\ M[k + 1] = QueueOf(m, q) /\ T[k + 1] = QueueOf(dir'[p]["out"], q)
      <4>1. M[3] = S[3] /\ S[3] = QueueOf(m, q)
        BY <1>3, <2>5, <3>1, <3>4 DEF Stages, QueueOf
      <4> QED
        BY <1>4, <2>5, <3>2, <3>4, <4>1
    <3>9. \A l \in Stages : l # k /\ l # k + 1 => T[l] = M[l]
      <4>1. T[1] = M[1]
        BY <3>2, <3>4
      <4>2. T[4] = M[4] /\ T[5] = M[5] /\ T[6] = M[6] /\ T[7] = M[7]
        BY <1>a, <2>3, <3>4
      <4> QED
        BY <1>a, <4>1, <4>2
    <3> HIDE DEF k
    <3> QED
      BY <1>2, <3>1, <3>3, <3>5, <3>6, <3>7, <3>8, <3>9, ServedOrder
  <2> QED
    BY <2>4, <2>5
(* A PDU of source r that reached the RMT is the first of stage 5. *)
<1>11. ASSUME NEW e \in FlaggedPDU, NEW b, ProcessMessage(e, b), NEW r \in Sources,
              e.pdu.src = r, ahead' = ahead,
              \A p \in Ports : /\ dir'[p]["out"] = dir[p]["out"]
                               /\ dir'[p]["in"].queue = dir[p]["in"].queue,
              s # r => T[5] = S[5],
              s = r => S[5] # <<>> /\ T[5] = Tail(S[5]) /\ Head(S[5]) = e.pdu
       PROVE  Ordered(T, s, q)
  <2>0. e.pdu \in PDU
    BY DEF FlaggedPDU
  <2>1. T[2] = S[2] /\ T[3] = S[3] /\ T[6] = S[6] /\ T[7] = S[7]
    BY <1>3, <1>4, <1>11 DEF QueueOf
  <2>2. \/ T[1] = S[1] /\ T[4] = S[4]
        \/ x \in Ports /\ T[1] = S[1] /\ T[4] = Append(S[4], e.pdu)
        \/ x \in Ceps /\ T[1] = Append(S[1], e.pdu) /\ T[4] = S[4]
    <3>1. CASE sent' = sent /\ onLine' = onLine
      BY <1>3, <1>4, <3>1
    <3>2. ASSUME sent' = sent, NEW p \in Ports, onLine' = [onLine EXCEPT ![p] = Append(@, e)]
          PROVE  \/ T[1] = S[1] /\ T[4] = S[4]
                 \/ x \in Ports /\ T[1] = S[1] /\ T[4] = Append(S[4], e.pdu)
      <4>1. CASE x = p
        <5>1. onLine'[p] = Append(onLine[p], e) /\ onLine[p] \in Seq(FlaggedPDU)
          BY <1>5, <3>2
        <5> QED
          BY <1>3, <1>4, <3>2, <4>1, <5>1, PdusOfFacts
      <4>2. CASE x # p
        BY <1>3, <1>4, <1>5, <3>2, <4>2
      <4> QED
        BY <4>1, <4>2
    <3>3. ASSUME onLine' = onLine, NEW c \in Ceps, sent' = [sent EXCEPT ![c] = Append(@, e.pdu)]
          PROVE  \/ T[1] = S[1] /\ T[4] = S[4]
                 \/ x \in Ceps /\ T[1] = Append(S[1], e.pdu) /\ T[4] = S[4]
      BY <1>3, <1>4, <1>5, <3>3
    <3> QED
      BY <1>11, <3>1, <3>2, <3>3, ProcessMessageMoves
  <2>3. CASE s # r
    <3>1. ~Mine(e.pdu, s, q)
      BY <1>11, <2>3 DEF Mine
    <3>2. T[5] = S[5]
      BY <1>11, <2>3
    <3>3. CASE T[1] = S[1] /\ T[4] = S[4]
      BY <1>7, <2>1, <3>2, <3>3 DEF Stages
    <3>4. CASE T[1] = S[1] /\ T[4] = Append(S[4], e.pdu)
      <4>1. 4 \in Stages /\ \A l \in Stages : l # 4 => T[l] = S[l]
        BY <2>1, <3>2, <3>4 DEF Stages
      <4> QED
        BY <1>1, <1>2, <2>0, <3>1, <3>4, <4>1, OtherJoins
    <3>5. CASE T[1] = Append(S[1], e.pdu) /\ T[4] = S[4]
      <4>1. 1 \in Stages /\ \A l \in Stages : l # 1 => T[l] = S[l]
        BY <2>1, <3>2, <3>5 DEF Stages
      <4> QED
        BY <1>1, <1>2, <2>0, <3>1, <3>5, <4>1, OtherJoins
    <3> QED
      BY <2>2, <3>3, <3>4, <3>5
  <2>4. CASE s = r
    <3>1. S[5] # <<>> /\ T[5] = Tail(S[5]) /\ Head(S[5]) = e.pdu /\ 5 \in Stages
      BY <1>11, <2>4 DEF Stages
    <3>2. CASE T[1] = S[1] /\ T[4] = S[4]
      <4>1. \A l \in Stages : l # 5 => T[l] = S[l]
        BY <2>1, <3>2 DEF Stages
      <4> QED
        BY <1>1, <1>2, <3>1, <4>1, HeadGoes
    <3>3. CASE T[1] = S[1] /\ T[4] = Append(S[4], e.pdu)
      <4>1. /\ 4 \in Stages /\ 4 < 5 /\ \A l \in Stages : ~(4 < l /\ l < 5)
            /\ \A l \in Stages : l # 5 /\ l # 4 => T[l] = S[l]
        BY <2>1, <3>3 DEF Stages
      <4> QED
        BY <1>1, <1>2, <3>1, <3>3, <4>1, HeadMoves
    <3>4. CASE x \in Ceps /\ T[1] = Append(S[1], e.pdu) /\ T[4] = S[4]
      <4>1. S[2] = <<>> /\ S[3] = <<>> /\ S[4] = <<>>
        BY <1>3, <1>5, <3>4
      <4>2. /\ 1 \in Stages /\ 1 < 5 /\ \A l \in Stages : 1 < l /\ l < 5 => S[l] = <<>>
            /\ \A l \in Stages : l # 5 /\ l # 1 => T[l] = S[l]
        BY <2>1, <3>4, <4>1 DEF Stages
      <4> QED
        BY <1>1, <1>2, <3>1, <3>4, <4>2, HeadMoves
    <3> QED
      BY <2>2, <3>2, <3>3, <3>4
  <2> QED
    BY <2>3, <2>4
<1>12. ASSUME NEW p \in Ports, RelayFromPort(p) PROVE Ordered(T, s, q)
  <2> DEFINE e == Head(dir[p]["in"].link)
  <2>1. /\ dir[p]["in"].link \in Seq(FlaggedPDU) /\ dir[p]["in"].link # <<>>
        /\ dir'[p]["in"].link = Tail(dir[p]["in"].link)
        /\ dir'[p]["in"].queue = dir[p]["in"].queue
        /\ \A r \in Ports, v \in Types : (r # p \/ v # "in") => dir'[r][v] = dir[r][v]
    BY <1>12, RelayFromPortServes
  <2>2. e \in FlaggedPDU
    BY <2>1
  <2>3. ProcessMessage(e, TRUE) /\ UNCHANGED <<ahead, fromEfcp>>
    BY <1>12 DEF RelayFromPort
  <2>4. e.pdu.src = p
    BY <2>1, FromParts DEF Sourced
  <2>5. s # p => T[5] = S[5]
    BY <1>3, <1>4, <1>5, <2>1, <2>3
  <2>6. s = p => S[5] # <<>> /\ T[5] = Tail(S[5]) /\ Head(S[5]) = e.pdu
    <3>1. /\ PdusOf(dir[p]["in"].link) # <<>>
          /\ Head(PdusOf(dir[p]["in"].link)) = Head(dir[p]["in"].link).pdu
          /\ PdusOf(Tail(dir[p]["in"].link)) = Tail(PdusOf(dir[p]["in"].link))
      BY <2>1, <2>2, PdusOfFacts
    <3> QED
      BY <1>3, <1>4, <2>1, <3>1
  <2>7. \A r \in Ports : /\ dir'[r]["out"] = dir[r]["out"]
                         /\ dir'[r]["in"].queue = dir[r]["in"].queue
    BY <2>1
  <2>8. p \in Sources /\ ahead' = ahead
    BY <1>5, <2>3
  <2> HIDE DEF e
  <2> QED
    BY <1>11, <2>2, <2>3, <2>4, <2>5, <2>6, <2>7, <2>8
<1>13. CASE RelayFromEfcp
  <2> DEFINE e == Head(fromEfcp)
  <2>1. fromEfcp # <<>> /\ fromEfcp' = Tail(fromEfcp) /\ UNCHANGED <<dir, ahead>>
        /\ ProcessMessage(e, FALSE)
    BY <1>13 DEF RelayFromEfcp
  <2>2. e \in FlaggedPDU
    BY <1>5, <2>1
  <2>3. e.pdu.src = Efcp
    BY <1>5, <2>1, FromParts DEF Sourced
  <2>4. s # Efcp => T[5] = S[5]
    BY <1>3, <1>4, <1>5, <2>1
  <2>5. s = Efcp => S[5] # <<>> /\ T[5] = Tail(S[5]) /\ Head(S[5]) = e.pdu
    BY <1>3, <1>4, <1>5, <2>1, <2>2, PdusOfFacts
  <2>6. Efcp \in Sources /\ ahead' = ahead
        /\ \A r \in Ports : /\ dir'[r]["out"] = dir[r]["out"]
                            /\ dir'[r]["in"].queue = dir[r]["in"].queue
    BY <1>5, <2>1
  <2>7. ProcessMessage(e, FALSE)
    BY <2>1
  <2> HIDE DEF e
  <2> QED
    BY <1>11, <2>2, <2>3, <2>4, <2>5, <2>6, <2>7
<1>14. CASE ReceiveFromEfcp
  <2> DEFINE u == Head(ahead[Efcp])
  <2>1. /\ ahead[Efcp] # <<>> /\ UNCHANGED <<dir, sent, onLine>>
        /\ fromEfcp' = Append(fromEfcp, Unmarked(u))
        /\ ahead' = [ahead EXCEPT ![Efcp] = Tail(@)]
    BY <1>14 DEF ReceiveFromEfcp
  <2>2. u \in PDU /\ Unmarked(u) \in FlaggedPDU /\ Unmarked(u).pdu = u
    <3>1. u \in PDU
      BY <1>5, <2>1
    <3> QED
      BY <3>1 DEF Unmarked, FlaggedPDU
  <2>3. T[1] = S[1] /\ T[2] = S[2] /\ T[3] = S[3] /\ T[4] = S[4] /\ T[6] = S[6]
    BY <1>3, <1>4, <2>1
  <2>4. CASE s # Efcp
    <3>1. T[5] = S[5] /\ T[7] = S[7]
      BY <1>3, <1>4, <1>5, <2>1, <2>4
    <3> QED
      BY <1>7, <1>a, <2>3, <3>1
  <2>5. CASE s = Efcp
    <3>1. S[7] # <<>> /\ T[7] = Tail(S[7]) /\ Head(S[7]) = u
      BY <1>3, <1>4, <1>5, <2>1, <2>5
    <3>2. S[6] = <<>> /\ S[5] = PdusOf(fromEfcp) /\ T[5] = PdusOf(fromEfcp')
      BY <1>3, <1>4, <1>5, <2>5
    <3>3. T[5] = Append(S[5], u)
      <4> HIDE DEF u
      <4> QED
        BY <1>5, <2>1, <2>2, <3>2, PdusOfFacts
    <3>4. /\ 5 \in Stages /\ 7 \in Stages /\ 5 < 7
          /\ \A l \in Stages : 5 < l /\ l < 7 => S[l] = <<>>
          /\ \A l \in Stages : l # 7 /\ l # 5 => T[l] = S[l]
      BY <2>3, <3>2 DEF Stages
    <3>5. S[7] # <<>> /\ T[7] = Tail(S[7]) /\ T[5] = Append(S[5], Head(S[7]))
      BY <3>1, <3>3
    <3> HIDE DEF u
    <3> QED
      BY <1>1, <1>2, <3>4, <3>5, HeadMoves
  <2> QED
    BY <2>4, <2>5
<1>15. CASE /\ \A r \in Ports, v \in Types : Served(dir[r][v], dir'[r][v])
            /\ UNCHANGED <<onLine, fromEfcp, ahead, sent>>
  <2> DEFINE M == [l \in Stages |-> IF l \in {2, 3} THEN T[l] ELSE S[l]]
  <2>1. M \in StageSeqs
    BY <1>1, <1>2 DEF StageSeqs
  <2>2. M[2] = T[2] /\ M[3] = T[3] /\ \A l \in Stages : l # 2 /\ l # 3 => M[l] = S[l]
    BY DEF Stages
  <2> HIDE DEF M
  <2>3. T[1] = S[1] /\ T[4] = S[4] /\ T[7] = S[7]
    BY <1>3, <1>4, <1>15
  <2>4. Ordered(M, s, q)
    <3>1. CASE x \in Ports
      <4> DEFINE k == 2
      <4>1. k \in {2, 5} /\ k + 1 = 3 /\ Served(dir[x]["out"], dir'[x]["out"])
        BY <1>15, <3>1
      <4>2. /\ S[k] = PdusOf(dir[x]["out"].link) /\ M[k] = PdusOf(dir'[x]["out"].link)
            /\ S[k + 1] = QueueOf(dir[x]["out"], q) /\ M[k + 1] = QueueOf(dir'[x]["out"], q)
            /\ \A l \in Stages : l # k /\ l # k + 1 => M[l] = S[l]
        BY <1>3, <1>4, <2>2, <3>1
      <4> HIDE DEF k
      <4> QED
        BY <1>1, <1>6, <2>1, <3>1, <4>1, <4>2, ServedOrder
    <3>2. CASE x \notin Ports
      <4>1. \A l \in Stages : M[l] = S[l]
        BY <1>3, <1>4, <2>2, <3>2
      <4> QED
        BY <1>1, <4>1, SameStages
    <3> QED
      BY <3>1, <3>2
  <2>5. CASE s \in Ports
    <3> DEFINE k == 5
    <3>1. k \in {2, 5} /\ k + 1 = 6 /\ Served(dir[s]["in"], dir'[s]["in"])
      BY <1>15, <2>5
    <3>2. /\ M[k] = PdusOf(dir[s]["in"].link) /\ T[k] = PdusOf(dir'[s]["in"].link)
          /\ M[k + 1] = QueueOf(dir[s]["in"], q) /\ T[k + 1] = QueueOf(dir'[s]["in"], q)
      <4>1. M[5] = S[5] /\ M[6] = S[6]
        BY <2>2 DEF Stages
      <4> QED
        BY <1>3, <1>4, <2>5, <4>1
    <3>3. \A l \in Stages : l # k /\ l # k + 1 => T[l] = M[l]
      BY <2>2, <2>3 DEF Stages
    <3>4. dir[s]["in"] \in GoodDirection
      BY <1>6, <2>5
    <3> HIDE DEF k
    <3> QED
      BY <1>2, <2>1, <2>4, <3>1, <3>2, <3>3, <3>4, ServedOrder
  <2>6. CASE s \notin Ports
    <3>1. T[5] = S[5] /\ T[6] = S[6]
      BY <1>3, <1>4, <1>15, <2>6
    <3>2. \A l \in Stages : T[l] = M[l]
      BY <2>2, <2>3, <3>1 DEF Stages
    <3> QED
      BY <2>4, <3>2, SameStages, Zenon
  <2> QED
    BY <2>5, <2>6
<1> QED
  BY <1>8, <1>9, <1>10, <1>12, <1>13, <1>14, <1>15, StepKinds

LEMMA StepOrder == OrderInv /\ [Next]_vars => OrderInv'
<1> SUFFICES ASSUME OrderInv, [Next]_vars PROVE OrderInv'
  OBVIOUS
<1>1. TypeOK' /\ Sourced'
  BY StepTypeOK, StepSourced DEF OrderInv
<1>2. AllOrdered'
  BY <1>1, StepOrdered DEF AllOrdered
<1> QED
  BY <1>1, <1>2 DEF OrderInv

(* PDUs of one source and one QoS leave in the order in which they came,   *)
(* however routes change, outputs block and PDUs are dropped on the way.   *)
THEOREM FlowsKeepOrder == Spec => []InFlowOrder
<1>1. OrderInv => InFlowOrder
  <2> SUFFICES ASSUME OrderInv, NEW x \in Ports \union Ceps,
                      NEW i \in DOMAIN sent[x], NEW j \in DOMAIN sent[x], i < j,
                      sent[x][i].src = sent[x][j].src, sent[x][i].qos = sent[x][j].qos
               PROVE  sent[x][i].id < sent[x][j].id
    BY DEF InFlowOrder
  <2> DEFINE s == sent[x][i].src
             q == sent[x][i].qos
  <2>1. sent[x][i] \in PDU
    BY DEF OrderInv, TypeOK
  <2>2. s \in Sources /\ q \in STRING
    BY <2>1 DEF PDU
  <2>3. Ordered(Path(x, s, q), s, q)
    BY <2>2 DEF OrderInv, AllOrdered
  <2>4. Path(x, s, q)[1] = sent[x] /\ 1 \in Stages
    BY PathStages DEF Stages
  <2>5. Mine(sent[x][i], s, q) /\ Mine(sent[x][j], s, q)
    BY DEF Mine
  <2> HIDE DEF s, q
  <2> QED
    BY <2>3, <2>4, <2>5 DEF Ordered
<1>2. Init => OrderInv
  BY InitTypeOK, InitOrder DEF OrderInv
<1>3. OrderInv /\ [Next]_vars => OrderInv'
  BY StepOrder
<1> QED
  BY <1>1, <1>2, <1>3, PTL DEF Spec

-----------------------------------------------------------------------------
(* The counters. What a direction counts as waiting is what its queues     *)
(* hold, and, under a scheduler that looks at the queues themselves, none  *)
(* waits while the direction is ready.                                     *)
Counted(d) == IsFiniteSet(Queued(d)) /\ d.waiting = Cardinality(Queued(d))

Idle(d) == Scheduler = "LongestQFirst" /\ d.ready => d.waiting = 0

LEMMA QueuedSpots ==
    ASSUME NEW d
    PROVE  /\ \A q \in QoS : \A i \in DOMAIN d.queue[q] : <<q, i>> \in Queued(d)
           /\ \A x \in Queued(d) : \E q \in QoS : \E i \in DOMAIN d.queue[q] : x = <<q, i>>
BY DEF Queued

LEMMA QueueGrows ==
    ASSUME NEW d \in Direction, NEW m \in Direction, NEW q \in QoS, NEW v \in FlaggedPDU,
           m.queue = [d.queue EXCEPT ![q] = Append(@, v)], IsFiniteSet(Queued(d))
    PROVE  /\ IsFiniteSet(Queued(m))
           /\ Cardinality(Queued(m)) = Cardinality(Queued(d)) + 1
<1> DEFINE s == d.queue[q]
           x == <<q, Len(s) + 1>>
<1>1. d.queue \in [QoS -> Seq(FlaggedPDU)] /\ s \in Seq(FlaggedPDU)
  BY DirectionFields
<1>2. \A r \in QoS : m.queue[r] = IF r = q THEN Append(s, v) ELSE d.queue[r]
  BY <1>1
<1>3. /\ DOMAIN s = 1..Len(s) /\ Len(s) \in Nat
      /\ DOMAIN Append(s, v) = 1..(Len(s) + 1)
  BY <1>1
<1> HIDE DEF s
<1>4. /\ DOMAIN m.queue[q] = DOMAIN s \union {Len(s) + 1} /\ Len(s) + 1 \notin DOMAIN s
      /\ \A r \in QoS : r # q => DOMAIN m.queue[r] = DOMAIN d.queue[r]
  <2>1. m.queue[q] = Append(s, v) /\ \A r \in QoS : r # q => m.queue[r] = d.queue[r]
    BY <1>2
  <2>2. \A n \in Nat : 1..(n + 1) = (1..n) \union {n + 1} /\ n + 1 \notin 1..n
    OBVIOUS
  <2>3. /\ DOMAIN Append(s, v) = DOMAIN s \union {Len(s) + 1}
        /\ Len(s) + 1 \notin DOMAIN s
    BY <1>3, <2>2
  <2> QED
    BY <2>1, <2>3
<1>5. Queued(m) = Queued(d) \union {x}
  <2>1. ASSUME NEW y \in Queued(m) PROVE y \in Queued(d) \union {x}
    <3>1. PICK r \in QoS : \E i \in DOMAIN m.queue[r] : y = <<r, i>>
      BY <2>1, QueuedSpots
    <3>2. PICK i \in DOMAIN m.queue[r] : y = <<r, i>>
      BY <3>1
    <3> QED
      BY <1>4, <3>2, QueuedSpots DEF s
  <2>2. ASSUME NEW y \in Queued(d) PROVE y \in Queued(m)
    <3>1. PICK r \in QoS : \E i \in DOMAIN d.queue[r] : y = <<r, i>>
      BY <2>2, QueuedSpots
    <3>2. PICK i \in DOMAIN d.queue[r] : y = <<r, i>>
      BY <3>1
    <3> QED
      BY <1>4, <3>2, QueuedSpots DEF s
  <2>3. x \in Queued(m)
    BY <1>4, QueuedSpots
  <2> QED
    BY <2>1, <2>2, <2>3
<1>6. x \notin Queued(d)
  <2> SUFFICES ASSUME x \in Queued(d) PROVE FALSE
    OBVIOUS
  <2>1. PICK r \in QoS : \E i \in DOMAIN d.queue[r] : x = <<r, i>>
    BY QueuedSpots
  <2>2. PICK i \in DOMAIN d.queue[r] : x = <<r, i>>
    BY <2>1
  <2> QED
    BY <1>4, <2>2 DEF s
<1> HIDE DEF x
<1> QED
  BY <1>5, <1>6, FS_AddElement

LEMMA QueueShrinks ==
    ASSUME NEW d \in Direction, NEW e \in Direction, NEW q \in QoS, d.queue[q] # <<>>,
           e.queue = [d.queue EXCEPT ![q] = Tail(@)], IsFiniteSet(Queued(d))
    PROVE  /\ IsFiniteSet(Queued(e))
           /\ Cardinality(Queued(e)) = Cardinality(Queued(d)) - 1
<1> DEFINE s == d.queue[q]
           x == <<q, Len(s)>>
<1>1. d.queue \in [QoS -> Seq(FlaggedPDU)] /\ s \in Seq(FlaggedPDU) /\ s # <<>>
  BY DirectionFields
<1>2. \A r \in QoS : e.queue[r] = IF r = q THEN Tail(s) ELSE d.queue[r]
  BY <1>1
<1>3. /\ DOMAIN s = 1..Len(s) /\ Len(s) \in Nat \ {0}
      /\ DOMAIN Tail(s) = 1..(Len(s) - 1)
  BY <1>1
<1> HIDE DEF s
<1>4. /\ DOMAIN e.queue[q] = DOMAIN s \ {Len(s)} /\ Len(s) \in DOMAIN s
      /\ \A r \in QoS : r # q => DOMAIN e.queue[r] = DOMAIN d.queue[r]
  <2>1. e.queue[q] = Tail(s) /\ \A r \in QoS : r # q => e.queue[r] = d.queue[r]
    BY <1>2
  <2>2. \A n \in Nat \ {0} : 1..(n - 1) = (1..n) \ {n} /\ n \in 1..n
    OBVIOUS
  <2>3. DOMAIN Tail(s) = DOMAIN s \ {Len(s)} /\ Len(s) \in DOMAIN s
    BY <1>3, <2>2
  <2> QED
    BY <2>1, <2>3
<1>5. Queued(e) = Queued(d) \ {x}
  <2>1. ASSUME NEW y \in Queued(e) PROVE y \in Queued(d) \ {x}
    <3>1. PICK r \in QoS : \E i \in DOMAIN e.queue[r] : y = <<r, i>>
      BY <2>1, QueuedSpots
    <3>2. PICK i \in DOMAIN e.queue[r] : y = <<r, i>>
      BY <3>1
    <3>3. i \in DOMAIN d.queue[r] /\ y # x
      BY <1>4, <3>2 DEF s
    <3> QED
      BY <3>2, <3>3, QueuedSpots
  <2>2. ASSUME NEW y \in Queued(d) \ {x} PROVE y \in Queued(e)
    <3>1. PICK r \in QoS : \E i \in DOMAIN d.queue[r] : y = <<r, i>>
      BY <2>2, QueuedSpots
    <3>2. PICK i \in DOMAIN d.queue[r] : y = <<r, i>>
      BY <3>1
    <3>3. i \in DOMAIN e.queue[r]
      BY <1>4, <2>2, <3>2 DEF s
    <3> QED
      BY <3>2, <3>3, QueuedSpots
  <2> QED
    BY <2>1, <2>2
<1>6. x \in Queued(d)
  BY <1>4, QueuedSpots DEF s
<1> HIDE DEF x
<1> QED
  BY <1>5, <1>6, FS_RemoveElement

LEMMA SameQueuesCounted ==
    ASSUME NEW d, NEW e, Counted(d), e.queue = d.queue, e.waiting = d.waiting
    PROVE  Counted(e)
BY DEF Counted, Queued

LEMMA ReleaseCounts ==
    ASSUME NEW d \in Direction, NEW q \in QoS, Counted(d)
    PROVE  /\ Counted(ReleasePDU(d, q))
           /\ d.queue[q] # <<>> => ReleasePDU(d, q).ready = FALSE
<1>1. CASE d.queue[q] = <<>>
  BY <1>1 DEF ReleasePDU
<1>2. CASE d.queue[q] # <<>>
  <2> DEFINE e == ReleasePDU(d, q)
             s == d.queue[q]
  <2>0. /\ d.waiting \in Int /\ d.queue \in [QoS -> Seq(FlaggedPDU)]
        /\ d.link \in Seq(FlaggedPDU) /\ s \in Seq(FlaggedPDU) /\ d.wakeups \in Nat
    BY DirectionFields
  <2>1. Tail(s) \in Seq(FlaggedPDU) /\ Head(s) \in FlaggedPDU
    BY <1>2, <2>0, TailFacts
  <2>2. /\ e.queue = [d.queue EXCEPT ![q] = Tail(@)]
        /\ e.waiting = d.waiting - 1 /\ e.ready = FALSE
    BY <1>2 DEF ReleasePDU, PostQueueDeparture, Direction
  <2>3. e \in Direction
    <3> DEFINE l == Append(d.link, Head(s))
               w == IF d.type = "in" THEN d.wakeups + 1 ELSE d.wakeups
               k == [d.queue EXCEPT ![q] = Tail(s)]
               n == d.waiting - 1
    <3>1. l \in Seq(FlaggedPDU) /\ w \in Nat /\ k \in [QoS -> Seq(FlaggedPDU)] /\ n \in Int
      BY <2>0, <2>1
    <3>2. e = [d EXCEPT !.queue = k, !.link = l, !.waiting = n, !.ready = FALSE, !.wakeups = w]
      BY <1>2 DEF ReleasePDU, PostQueueDeparture, Direction
    <3> HIDE DEF l, w, k, n, e
    <3> QED
      BY <3>1, <3>2 DEF Direction
  <2> HIDE DEF e
  <2>4. Counted(e)
    BY <1>2, <2>2, <2>3, QueueShrinks DEF Counted
  <2> QED
    BY <2>2, <2>4 DEF e
<1> QED
  BY <1>1, <1>2

LEMMA ProcessQueuesCounts ==
    ASSUME NEW d \in Direction, Counted(d)
    PROVE  Counted(ProcessQueues(d)) /\ Idle(ProcessQueues(d))
<1>1. CASE ~d.ready \/ d.waiting = 0
  BY <1>1 DEF ProcessQueues, Idle
<1>2. CASE d.ready /\ d.waiting # 0 /\ Scheduler = "LongestQFirst"
  <2> DEFINE q == LongestQueue(d)
  <2>1. /\ q \in QoS /\ \A r \in QoS : Len(d.queue[r]) <= Len(d.queue[q])
        /\ d.queue \in [QoS -> Seq(FlaggedPDU)]
    BY LongestQueueType, DirectionFields
  <2>2. ProcessQueues(d) = ReleasePDU(d, q)
    BY <1>2 DEF ProcessQueues
  <2> HIDE DEF q
  <2>3. d.queue[q] # <<>>
    <3> SUFFICES ASSUME d.queue[q] = <<>> PROVE FALSE
      OBVIOUS
    <3>1. ASSUME NEW r \in QoS PROVE DOMAIN d.queue[r] = {}
      <4>1. d.queue[r] \in Seq(FlaggedPDU) /\ Len(d.queue[r]) <= Len(d.queue[q])
        BY <2>1
      <4>2. Len(d.queue[q]) = 0
        OBVIOUS
      <4>3. Len(d.queue[r]) = 0
        BY <4>1, <4>2
      <4> QED
        BY <4>1, <4>3
    <3>2. Queued(d) = {}
      BY <3>1, QueuedSpots
    <3> QED
      BY <1>2, <3>2, FS_EmptySet DEF Counted
  <2>4. Counted(ReleasePDU(d, q)) /\ ReleasePDU(d, q).ready = FALSE
    BY <2>1, <2>3, ReleaseCounts
  <2> QED
    BY <2>2, <2>4 DEF Idle
<1>3. CASE d.ready /\ d.waiting # 0 /\ Scheduler # "LongestQFirst"
  <2>1. CASE d.smart = <<>>
    BY <1>3, <2>1 DEF ProcessQueues, Idle
  <2>2. CASE d.smart # <<>>
    <3> DEFINE e == [d EXCEPT !.smart = Tail(@)]
    <3>1. Tail(d.smart) \in Seq(QoS) /\ Head(d.smart) \in QoS
      BY <2>2, DirectionFields, TailFacts
    <3>2. e \in Direction /\ e.queue = d.queue /\ e.waiting = d.waiting
      BY <3>1 DEF Direction
    <3>3. ProcessQueues(d) = ReleasePDU(e, Head(d.smart))
      BY <1>3, <2>2 DEF ProcessQueues
    <3> HIDE DEF e
    <3>4. Counted(ReleasePDU(e, Head(d.smart)))
      BY <3>1, <3>2, SameQueuesCounted, ReleaseCounts
    <3> QED
      BY <1>3, <3>3, <3>4 DEF Idle
  <2> QED
    BY <2>1, <2>2
<1> QED
  BY <1>1, <1>2, <1>3

LEMMA SetReadyCounts ==
    ASSUME NEW d \in Direction, Counted(d), Idle(d)
    PROVE  Counted(SetReady(d)) /\ Idle(SetReady(d))
<1> DEFINE r == [d EXCEPT !.ready = TRUE]
<1>1. r \in Direction /\ r.queue = d.queue /\ r.waiting = d.waiting
  BY DEF Direction
<1>2. SetReady(d) = d \/ SetReady(d) = ProcessQueues(r)
  BY DEF SetReady
<1> HIDE DEF r
<1>3. Counted(r)
  BY <1>1, SameQueuesCounted
<1> QED
  BY <1>1, <1>2, <1>3, ProcessQueuesCounts

LEMMA EnqueueCounts ==
    ASSUME NEW d \in Direction, NEW u \in FlaggedPDU, u.pdu.qos \in QoS, NEW error,
           Counted(d), Idle(d)
    PROVE  Counted(EnqueuePDU(d, u, error)) /\ Idle(EnqueuePDU(d, u, error))
<1> DEFINE q == u.pdu.qos
           s == [d.queue EXCEPT ![q] = Append(@, u)]
           e == [d EXCEPT !.queue = s]
           full == Len(e.queue[q]) >= ThreshQLength
           f == IF full THEN RunMaxQ(e, q) ELSE e
           g == [f EXCEPT !.waiting = @ + 1]
<1>0. d.queue \in [QoS -> Seq(FlaggedPDU)] /\ q \in QoS /\ d.waiting \in Int
  BY DirectionFields
<1>1. s \in [QoS -> Seq(FlaggedPDU)]
  BY <1>0
<1>2. EnqueuePDU(d, u, error) = PostQueueArrival(e, q, error)
  BY <1>0 DEF EnqueuePDU, Direction
<1>3. /\ e \in Direction /\ e.type = d.type /\ e.link = d.link /\ e.slowed = d.slowed
      /\ e.dropped = d.dropped /\ e.queue = [d.queue EXCEPT ![u.pdu.qos] = Append(@, u)]
      /\ e.waiting = d.waiting /\ e.ready = d.ready
  <2> HIDE DEF s
  <2>1. /\ e \in Direction /\ e.type = d.type /\ e.link = d.link /\ e.slowed = d.slowed
        /\ e.dropped = d.dropped /\ e.queue = s /\ e.waiting = d.waiting /\ e.ready = d.ready
    BY <1>0, <1>1 DEF Direction
  <2> QED
    BY <2>1 DEF s
<1> HIDE DEF e, s
<1>4. \/ EnqueuePDU(d, u, error) = DropLast(e, q)
      \/ EnqueuePDU(d, u, error) = OnMessageDrop(DropLast(e, q), q)
      \/ EnqueuePDU(d, u, error) = ProcessQueues(g)
  BY <1>2 DEF PostQueueArrival, PostPDUInsertion
<1>5. ASSUME NEW h, h.queue = d.queue, h.waiting = e.waiting, h.ready = e.ready
      PROVE  Counted(h) /\ Idle(h)
  BY <1>3, <1>5, SameQueuesCounted DEF Idle
<1>6. /\ Counted(DropLast(e, q)) /\ Idle(DropLast(e, q))
      /\ Counted(OnMessageDrop(DropLast(e, q), q)) /\ Idle(OnMessageDrop(DropLast(e, q), q))
  <2> DEFINE h == DropLast(e, q)
             j == OnMessageDrop(DropLast(e, q), q)
  <2>0. /\ e \in Direction /\ e.type = d.type /\ e.link = d.link /\ e.slowed = d.slowed
        /\ e.dropped = d.dropped /\ e.queue = [d.queue EXCEPT ![u.pdu.qos] = Append(@, u)]
    BY <1>3
  <2>1. /\ h.queue = d.queue /\ h.waiting = e.waiting /\ h.ready = e.ready
        /\ j.queue = d.queue /\ j.waiting = e.waiting /\ j.ready = e.ready
    BY <2>0, DropArrives, Zenon
  <2> HIDE DEF h, j
  <2>2. Counted(h) /\ Idle(h) /\ Counted(j) /\ Idle(j)
    BY <1>5, <2>1
  <2> QED
    BY <2>2 DEF h, j
<1>7. Counted(ProcessQueues(g)) /\ Idle(ProcessQueues(g))
  <2>1. /\ f \in Direction /\ f.waiting = e.waiting
        /\ \E v \in FlaggedPDU : f.queue = [d.queue EXCEPT ![u.pdu.qos] = Append(@, v)]
    BY <1>0, <1>3, StayArrives
  <2> HIDE DEF f
  <2>2. f.waiting + 1 \in Int
    BY <2>1, DirectionFields
  <2>3. g \in Direction /\ g.queue = f.queue /\ g.waiting = d.waiting + 1
    BY <1>3, <2>1, <2>2 DEF Direction
  <2> HIDE DEF g
  <2>4. PICK v \in FlaggedPDU : g.queue = [d.queue EXCEPT ![q] = Append(@, v)]
    BY <2>1, <2>3
  <2> HIDE DEF q
  <2>5. Counted(g)
    BY <1>0, <2>3, <2>4, QueueGrows DEF Counted
  <2> QED
    BY <2>3, <2>5, ProcessQueuesCounts
<1> QED
  BY <1>4, <1>6, <1>7

AllCounted == \A p \in Ports, t \in Types : Counted(dir[p][t]) /\ Idle(dir[p][t])

LEMMA InitCounted == Init => AllCounted
<1> SUFFICES ASSUME Init, NEW p \in Ports, NEW t \in Types
             PROVE  Counted(dir[p][t]) /\ Idle(dir[p][t])
  BY DEF AllCounted
<1> DEFINE d == dir[p][t]
<1>1. d.waiting = 0 /\ \A q \in QoS : d.queue[q] = <<>>
  BY DEF Init, InitDirection
<1> HIDE DEF d
<1>2. Queued(d) = {}
  BY <1>1, QueuedSpots
<1>3. Counted(d) /\ Idle(d)
  BY <1>1, <1>2, FS_EmptySet DEF Counted, Idle
<1> QED
  BY <1>3 DEF d

(* A step that changes one direction need only count for that one. *)
LEMMA OneDirectionCounted ==
    ASSUME TypeOK, AllCounted, NEW p \in Ports, NEW t \in Types, NEW e,
           dir' = [dir EXCEPT ![p][t] = e], Counted(e), Idle(e)
    PROVE  AllCounted'
<1>1. /\ dir'[p][t] = e
      /\ \A r \in Ports, v \in Types : (r # p \/ v # t) => dir'[r][v] = dir[r][v]
  <2>1. dir \in [Ports -> [Types -> Direction]]
    BY DEF TypeOK
  <2>2. dir'[p] = [dir[p] EXCEPT ![t] = e] /\ \A r \in Ports : r # p => dir'[r] = dir[r]
    BY <2>1
  <2>3. dir[p] \in [Types -> Direction]
    BY <2>1
  <2> QED
    BY <2>2, <2>3
<1>2. ASSUME NEW r \in Ports, NEW v \in Types PROVE Counted(dir'[r][v]) /\ Idle(dir'[r][v])
  <2>1. CASE r = p /\ v = t
    BY <1>1, <2>1
  <2>2. CASE r # p \/ v # t
    <3>1. dir'[r][v] = dir[r][v]
      BY <1>1, <2>2
    <3>2. Counted(dir[r][v]) /\ Idle(dir[r][v])
      BY DEF AllCounted
    <3> QED
      BY <3>1, <3>2
  <2> QED
    BY <2>1, <2>2
<1>3. AllCounted' <=> \A r \in Ports, v \in Types : Counted(dir'[r][v]) /\ Idle(dir'[r][v])
  BY DEF AllCounted, Counted, Idle, Queued
<1> QED
  BY <1>2, <1>3

LEMMA StepCounted == TypeOK /\ AllCounted /\ [Next]_vars => AllCounted'
<1> SUFFICES ASSUME TypeOK, AllCounted, [Next]_vars PROVE AllCounted'
  OBVIOUS
<1> "in" \in Types /\ "out" \in Types
  BY DEF Types
<1>0. \A p \in Ports, t \in Types :
         dir[p][t] \in Direction /\ Counted(dir[p][t]) /\ Idle(dir[p][t])
  BY DirGood, TypeOKParts DEF AllCounted
<1>a. dir' = dir => AllCounted'
  BY DEF AllCounted, Counted, Idle, Queued
<1>b. ASSUME NEW p \in Ports, NEW t \in Types, NEW m \in Direction,
             m.queue = dir[p][t].queue, m.waiting = dir[p][t].waiting,
             m.ready = dir[p][t].ready \/ m.ready = FALSE,
             \/ dir' = [dir EXCEPT ![p][t] = m]
             \/ dir' = [dir EXCEPT ![p][t] = SetReady(m)]
             \/ dir' = [dir EXCEPT ![p][t] = ProcessQueues(m)]
      PROVE  AllCounted'
  <2>1. Counted(m) /\ Idle(m)
    BY <1>0, <1>b, SameQueuesCounted DEF Idle
  <2>2. /\ Counted(SetReady(m)) /\ Idle(SetReady(m))
        /\ Counted(ProcessQueues(m)) /\ Idle(ProcessQueues(m))
    BY <1>b, <2>1, SetReadyCounts, ProcessQueuesCounts
  <2> QED
    BY <1>b, <2>1, <2>2, OneDirectionCounted
<1>c. ASSUME NEW p \in Ports, NEW t \in Types, NEW u \in FlaggedPDU, u.pdu.qos \in QoS,
             NEW error, dir' = [dir EXCEPT ![p][t] = EnqueuePDU(@, u, error)]
      PROVE  AllCounted'
  <2> DEFINE e == EnqueuePDU(dir[p][t], u, error)
  <2>1. Counted(e) /\ Idle(e)
    BY <1>0, <1>c, EnqueueCounts
  <2>2. dir' = [dir EXCEPT ![p][t] = e]
    BY <1>c
  <2> HIDE DEF e
  <2> QED
    BY <2>1, <2>2, OneDirectionCounted
<1>1. ASSUME NEW p \in Ports, ReceiveFromSouth(p) PROVE AllCounted'
  <2> DEFINE u == Head(ahead[p])
  <2>1. u \in PDU
    BY <1>1, ReceiveFromSouthServes
  <2>2. Unmarked(u) \in FlaggedPDU /\ Unmarked(u).pdu.qos = u.qos
    BY <2>1 DEF Unmarked, FlaggedPDU
  <2>3. CASE u.qos \in QoS
    <3>1. PICK error : dir' = [dir EXCEPT ![p]["in"] = EnqueuePDU(@, Unmarked(u), error)]
      BY <1>1, <2>3 DEF ReceiveFromSouth
    <3> HIDE DEF u
    <3> QED
      BY <1>c, <2>2, <2>3, <3>1
  <2>4. CASE u.qos \notin QoS
    <3>1. dir' = dir
      BY <1>1, <2>4 DEF ReceiveFromSouth
    <3> QED
      BY <1>a, <3>1
  <2> QED
    BY <2>3, <2>4
<1>2. ASSUME NEW p \in Ports, EnqueueOutput(p) PROVE AllCounted'
  <2>1. Head(onLine[p]) \in FlaggedPDU /\ Head(onLine[p]).pdu.qos \in QoS
    BY <1>2, EnqueueOutputServes
  <2>2. dir' = [dir EXCEPT ![p]["out"] = EnqueuePDU(@, Head(onLine[p]), FALSE)]
    BY <1>2 DEF EnqueueOutput
  <2> QED
    BY <1>c, <2>1, <2>2
<1>3. ASSUME NEW p \in Ports, RelayFromPort(p) PROVE AllCounted'
  <2> DEFINE d == dir[p]["in"]
             l == Tail(d.link)
             m == [d EXCEPT !.link = l]
  <2>1. d \in Direction
    BY <1>0
  <2>2. l \in Seq(FlaggedPDU)
    BY <1>3, RelayFromPortServes, TailFacts
  <2>3. dir' = [dir EXCEPT ![p]["in"] = m]
    BY <1>3, <2>1 DEF RelayFromPort, TypeOK, Direction
  <2> HIDE DEF l
  <2>4. m \in Direction /\ m.queue = d.queue /\ m.waiting = d.waiting /\ m.ready = d.ready
    BY <2>1, <2>2 DEF Direction
  <2> HIDE DEF m
  <2> QED
    BY <1>b, <2>3, <2>4
<1>4. ASSUME NEW p \in Ports, SendSouth(p) PROVE AllCounted'
  <2> DEFINE d == dir[p]["out"]
             l == Tail(d.link)
             w == d.wakeups + 1
             gone == [d EXCEPT !.link = l, !.ready = FALSE]
             woken == [gone EXCEPT !.wakeups = w]
  <2>1. d \in Direction /\ d.wakeups \in Nat
    BY <1>0, DirectionFields
  <2>2. l \in Seq(FlaggedPDU) /\ w \in Nat
    BY <1>4, <2>1, SendSouthServes, TailFacts
  <2>3. [gone EXCEPT !.wakeups = @ + 1] = woken
    BY <2>1 DEF Direction
  <2>4. \/ dir' = [dir EXCEPT ![p]["out"] = gone]
        \/ dir' = [dir EXCEPT ![p]["out"] = ProcessQueues(woken)]
    BY <1>4, <2>3 DEF SendSouth
  <2> HIDE DEF l, w
  <2>5. gone \in Direction /\ gone.queue = d.queue /\ gone.waiting = d.waiting /\ gone.ready = FALSE
    BY <2>1, <2>2 DEF Direction
  <2>6. /\ woken \in Direction /\ woken.queue = d.queue /\ woken.waiting = d.waiting
        /\ woken.ready = FALSE
    <3> HIDE DEF gone
    <3> QED
      BY <2>2, <2>5 DEF Direction
  <2> HIDE DEF gone, woken
  <2> QED
    BY <1>b, <2>4, <2>5, <2>6
<1>5. ASSUME NEW p \in Ports, TransmitEnd(p) PROVE AllCounted'
  <2> DEFINE d == dir[p]["out"]
             w == d.wakeups + 1
             m == [d EXCEPT !.wakeups = w]
  <2>1. d \in Direction /\ w \in Nat
    BY <1>0, DirectionFields
  <2>2. dir' = [dir EXCEPT ![p]["out"] = m]
    BY <1>5, <2>1 DEF TransmitEnd, TypeOK, Direction
  <2> HIDE DEF w
  <2>3. m \in Direction /\ m.queue = d.queue /\ m.waiting = d.waiting /\ m.ready = d.ready
    BY <2>1 DEF Direction
  <2> HIDE DEF m
  <2> QED
    BY <1>b, <2>2, <2>3
<1>6. ASSUME NEW p \in Ports, NEW t \in Types, Wakeup(p, t) PROVE AllCounted'
  <2> DEFINE d == dir[p][t]
             w == d.wakeups - 1
             m == [d EXCEPT !.wakeups = w]
  <2>1. d \in Direction /\ w \in Nat
    <3>1. d.wakeups \in Nat
      BY <1>0, DirectionFields
    <3> QED
      BY <1>0, <1>6, <3>1 DEF Wakeup
  <2>2. dir' = [dir EXCEPT ![p][t] = SetReady(m)]
    BY <1>6 DEF Wakeup
  <2> HIDE DEF w
  <2>3. m \in Direction /\ m.queue = d.queue /\ m.waiting = d.waiting /\ m.ready = d.ready
    BY <2>1 DEF Direction
  <2> HIDE DEF m
  <2> QED
    BY <1>b, <2>2, <2>3
<1>7. ASSUME NEW p \in Ports, OpenPort(p) PROVE AllCounted'
  <2>1. ASSUME NEW r \in Ports, NEW t \in Types PROVE Counted(dir'[r][t]) /\ Idle(dir'[r][t])
    <3>1. CASE r = p
      BY <1>0, <1>7, <3>1, OpenPortDirs, SetReadyCounts
    <3>2. CASE r # p
      BY <1>0, <1>7, <3>2, OpenPortDirs
    <3> QED
      BY <3>1, <3>2
  <2> QED
    BY <2>1 DEF AllCounted, Counted, Idle, Queued
<1>8. ASSUME NEW p \in Ports, BlockOutput(p) PROVE AllCounted'
  <2> DEFINE d == dir[p]["out"]
             m == [d EXCEPT !.blocked = TRUE, !.ready = FALSE]
  <2>1. d \in Direction
    BY <1>0
  <2>2. dir' = [dir EXCEPT ![p]["out"] = m]
    BY <1>8 DEF BlockOutput
  <2>3. m \in Direction /\ m.queue = d.queue /\ m.waiting = d.waiting /\ m.ready = FALSE
    BY <2>1 DEF Direction
  <2> HIDE DEF m
  <2> QED
    BY <1>b, <2>2, <2>3
<1>9. ASSUME NEW p \in Ports, UnblockOutput(p) PROVE AllCounted'
  <2> DEFINE d == dir[p]["out"]
             m == [d EXCEPT !.blocked = FALSE]
  <2>1. d \in Direction
    BY <1>0
  <2>2. dir' = [dir EXCEPT ![p]["out"] = SetReady(m)]
    BY <1>9 DEF UnblockOutput
  <2>3. m \in Direction /\ m.queue = d.queue /\ m.waiting = d.waiting /\ m.ready = d.ready
    BY <2>1 DEF Direction
  <2> HIDE DEF m
  <2> QED
    BY <1>b, <2>2, <2>3
<1>10. ASSUME \/ ReceiveFromEfcp \/ RelayFromEfcp
              \/ \E r \in Routes : ChangeRoute(r[1], r[2], r[3])
              \/ \E c \in Ceps : CreateEfcpiGate(c) \/ DeleteEfcpiGate(c)
              \/ UNCHANGED vars
       PROVE  AllCounted'
  BY <1>a, <1>10 DEF ReceiveFromEfcp, RelayFromEfcp, ChangeRoute, CreateEfcpiGate,
     DeleteEfcpiGate, vars
<1> QED
  BY <1>1, <1>2, <1>3, <1>4, <1>5, <1>6, <1>7, <1>8, <1>9, <1>10, NextCases

-----------------------------------------------------------------------------
(* The places. Each PDU of what there is to send is once in the sequences  *)
(* of one place, or was left behind, or dropped.                           *)
Whole(S, left, drops, all) ==
    /\ \A k \in Places : /\ S[k] \in Seq(PDU) /\ IsInjective(S[k])
                         /\ Range(S[k]) \intersect (left \union drops) = {}
    /\ \A k, l \in Places : k # l => Range(S[k]) \intersect Range(S[l]) = {}
    /\ left \intersect drops = {}
    /\ left \union drops \union UNION {Range(S[k]) : k \in Places} = all

LEMMA HeadLeavesRange ==
    ASSUME NEW s \in Seq(PDU), s # <<>>, IsInjective(s)
    PROVE  /\ Tail(s) \in Seq(PDU) /\ IsInjective(Tail(s)) /\ Head(s) \in PDU
           /\ Range(Tail(s)) = Range(s) \ {Head(s)} /\ Head(s) \in Range(s)
<1>1. /\ Tail(s) \in Seq(PDU) /\ Head(s) \in PDU /\ Head(s) = s[1]
      /\ DOMAIN s = 1..Len(s) /\ Len(s) \in Nat \ {0} /\ DOMAIN Tail(s) = 1..(Len(s) - 1)
      /\ \A i \in DOMAIN Tail(s) : i + 1 \in DOMAIN s /\ Tail(s)[i] = s[i + 1]
  BY TailFacts
<1> DEFINE w == Tail(s)
           n == Len(s)
<1> HIDE DEF w, n
<1>2. /\ \A i \in DOMAIN w : i + 1 \in DOMAIN s /\ w[i] = s[i + 1] /\ i \in Nat \ {0}
      /\ \A i \in DOMAIN s : i # 1 => i - 1 \in DOMAIN w /\ s[i] = w[i - 1]
      /\ 1 \in DOMAIN s
  <2>1. \A i \in DOMAIN w : i + 1 \in DOMAIN s /\ w[i] = s[i + 1] /\ i \in Nat \ {0}
    BY <1>1 DEF w
  <2>2. 1 \in DOMAIN s /\ DOMAIN w = 1..(n - 1) /\ DOMAIN s = 1..n /\ n \in Nat
    BY <1>1 DEF w, n
  <2>3. ASSUME NEW i \in DOMAIN s, i # 1 PROVE i - 1 \in DOMAIN w /\ s[i] = w[i - 1]
    <3>1. i - 1 \in DOMAIN w /\ (i - 1) + 1 = i
      BY <2>2, <2>3
    <3> QED
      BY <2>1, <3>1
  <2> QED
    BY <2>1, <2>2, <2>3
<1>3. IsInjective(w)
  BY <1>2 DEF IsInjective
<1>4. Range(w) = Range(s) \ {s[1]}
  <2>1. ASSUME NEW x \in Range(w) PROVE x \in Range(s) \ {s[1]}
    <3>1. PICK i \in DOMAIN w : x = w[i]
      BY <2>1 DEF Range
    <3> QED
      BY <1>2, <3>1 DEF Range, IsInjective
  <2>2. ASSUME NEW x \in Range(s) \ {s[1]} PROVE x \in Range(w)
    <3>1. PICK i \in DOMAIN s : x = s[i]
      BY <2>2 DEF Range
    <3> QED
      BY <1>2, <2>2, <3>1 DEF Range
  <2> QED
    BY <2>1, <2>2
<1>5. s[1] \in Range(s)
  BY <1>2 DEF Range
<1> QED
  BY <1>1, <1>3, <1>4, <1>5 DEF w

LEMMA JoinsRange ==
    ASSUME NEW s \in Seq(PDU), NEW u \in PDU, IsInjective(s), u \notin Range(s)
    PROVE  /\ Append(s, u) \in Seq(PDU) /\ IsInjective(Append(s, u))
           /\ Range(Append(s, u)) = Range(s) \union {u}
<1> DEFINE w == Append(s, u)
           n == Len(s) + 1
<1>1. /\ w \in Seq(PDU) /\ DOMAIN s = 1..Len(s) /\ Len(s) \in Nat /\ DOMAIN w = 1..n
      /\ \A i \in DOMAIN w : w[i] = IF i = n THEN u ELSE s[i]
  OBVIOUS
<1>2. /\ n \in DOMAIN w /\ w[n] = u
      /\ \A i \in DOMAIN w : i # n => i \in DOMAIN s /\ w[i] = s[i]
      /\ \A i \in DOMAIN s : i \in DOMAIN w /\ w[i] = s[i]
  BY <1>1
<1> HIDE DEF w, n
<1>3. IsInjective(w)
  <2> SUFFICES ASSUME NEW i \in DOMAIN w, NEW j \in DOMAIN w, w[i] = w[j] PROVE i = j
    BY DEF IsInjective
  <2>1. CASE i = n \/ j = n
    BY <1>2, <2>1 DEF Range
  <2>2. CASE i # n /\ j # n
    BY <1>2, <2>2 DEF IsInjective
  <2> QED
    BY <2>1, <2>2
<1>4. Range(w) = Range(s) \union {u}
  <2>1. ASSUME NEW x \in Range(w) PROVE x \in Range(s) \union {u}
    <3>1. PICK i \in DOMAIN w : x = w[i]
      BY <2>1 DEF Range
    <3> QED
      BY <1>2, <3>1 DEF Range
  <2>2. Range(s) \subseteq Range(w) /\ u \in Range(w)
    BY <1>2 DEF Range
  <2> QED
    BY <2>1, <2>2
<1> QED
  BY <1>1, <1>3, <1>4 DEF w

(* The first PDU of a place goes to the end of another. *)
LEMMA MovesOn ==
    ASSUME NEW S, NEW T, NEW left, NEW drops, NEW all, Whole(S, left, drops, all),
           NEW k \in Places, NEW l \in Places, k # l, S[k] # <<>>,
           T[k] = Tail(S[k]), T[l] = Append(S[l], Head(S[k])),
           \A h \in Places : h # k /\ h # l => T[h] = S[h]
    PROVE  Whole(T, left, drops, all)
<1> DEFINE u == Head(S[k])
           R(h) == Range(S[h])
           Q(h) == Range(T[h])
<1>0. /\ \A h \in Places : /\ S[h] \in Seq(PDU) /\ IsInjective(S[h])
                           /\ R(h) \intersect (left \union drops) = {}
      /\ \A h, j \in Places : h # j => R(h) \intersect R(j) = {}
      /\ left \intersect drops = {}
      /\ left \union drops \union UNION {R(h) : h \in Places} = all
  BY DEF Whole
<1>1. /\ T[k] \in Seq(PDU) /\ IsInjective(T[k]) /\ Q(k) = R(k) \ {u} /\ u \in R(k) /\ u \in PDU
  BY <1>0, HeadLeavesRange
<1>2. u \notin R(l)
  BY <1>0, <1>1
<1> HIDE DEF u
<1>3. T[l] \in Seq(PDU) /\ IsInjective(T[l]) /\ Q(l) = R(l) \union {u}
  BY <1>0, <1>1, <1>2, JoinsRange DEF u
<1>4. \A h \in Places : h # k /\ h # l => Q(h) = R(h)
  OBVIOUS
<1>5. \A h \in Places : T[h] \in Seq(PDU) /\ IsInjective(T[h])
  BY <1>0, <1>1, <1>3
<1> HIDE DEF R, Q
<1>6. \A h \in Places : Q(h) \intersect (left \union drops) = {}
  <2> SUFFICES ASSUME NEW h \in Places PROVE Q(h) \intersect (left \union drops) = {}
    OBVIOUS
  <2>1. u \notin left \union drops
    BY <1>0, <1>1
  <2> QED
    BY <1>0, <1>1, <1>3, <1>4, <2>1
<1>7. \A h, j \in Places : h # j => Q(h) \intersect Q(j) = {}
  <2>1. \A h \in Places : u \in R(h) => h = k
    BY <1>0, <1>1
  <2> SUFFICES ASSUME NEW h \in Places, NEW j \in Places, h # j,
                      NEW x, x \in Q(h), x \in Q(j)
               PROVE  FALSE
    OBVIOUS
  <2>2. \A g \in Places : x \in Q(g) => (x = u /\ g = l) \/ (x # u /\ x \in R(g))
    BY <1>1, <1>3, <1>4, <1>2, <2>1
  <2> QED
    BY <1>0, <2>2
<1>8. UNION {Q(h) : h \in Places} = UNION {R(h) : h \in Places}
  <2>1. ASSUME NEW h \in Places, NEW x \in Q(h) PROVE \E g \in Places : x \in R(g)
    BY <1>1, <1>3, <1>4, <2>1
  <2>2. ASSUME NEW h \in Places, NEW x \in R(h) PROVE \E g \in Places : x \in Q(g)
    BY <1>1, <1>3, <1>4, <2>2
  <2> QED
    BY <2>1, <2>2
<1> QED
  BY <1>0, <1>5, <1>6, <1>7, <1>8 DEF Whole, Q

(* The first PDU of a place goes no further. *)
LEMMA MovesOut ==
    ASSUME NEW S, NEW T, NEW left, NEW drops, NEW all, Whole(S, left, drops, all),
           NEW k \in Places, S[k] # <<>>, T[k] = Tail(S[k]),
           \A h \in Places : h # k => T[h] = S[h], NEW left2, NEW drops2,
           \/ left2 = left \union {Head(S[k])} /\ drops2 = drops
           \/ left2 = left /\ drops2 = drops \union {Head(S[k])}
    PROVE  Whole(T, left2, drops2, all)
<1> DEFINE u == Head(S[k])
           R(h) == Range(S[h])
           Q(h) == Range(T[h])
<1>0. /\ \A h \in Places : /\ S[h] \in Seq(PDU) /\ IsInjective(S[h])
                           /\ R(h) \intersect (left \union drops) = {}
      /\ \A h, j \in Places : h # j => R(h) \intersect R(j) = {}
      /\ left \intersect drops = {}
      /\ left \union drops \union UNION {R(h) : h \in Places} = all
  BY DEF Whole
<1>1. /\ T[k] \in Seq(PDU) /\ IsInjective(T[k]) /\ Q(k) = R(k) \ {u} /\ u \in R(k)
  BY <1>0, HeadLeavesRange
<1>4. \A h \in Places : h # k => Q(h) = R(h)
  OBVIOUS
<1>5. \A h \in Places : T[h] \in Seq(PDU) /\ IsInjective(T[h])
  BY <1>0, <1>1
<1>a. /\ left2 \union drops2 = left \union drops \union {u}
      /\ \/ left2 = left \union {u} /\ drops2 = drops
         \/ left2 = left /\ drops2 = drops \union {u}
  OBVIOUS
<1> HIDE DEF R, Q, u
<1>b. u \notin left \union drops /\ \A h \in Places : u \in R(h) => h = k
  BY <1>0, <1>1
<1>6. \A h \in Places : Q(h) \intersect (left2 \union drops2) = {}
  <2> SUFFICES ASSUME NEW h \in Places PROVE Q(h) \intersect (left2 \union drops2) = {}
    OBVIOUS
  <2>1. u \notin Q(h) /\ Q(h) \subseteq R(h)
    BY <1>1, <1>4, <1>b
  <2> QED
    BY <1>0, <1>a, <2>1
<1>7. \A h, j \in Places : h # j => Q(h) \intersect Q(j) = {}
  <2>1. \A h \in Places : Q(h) \subseteq R(h)
    BY <1>1, <1>4
  <2> QED
    BY <1>0, <2>1
<1>8. {u} \union UNION {Q(h) : h \in Places} = UNION {R(h) : h \in Places}
  <2>1. ASSUME NEW h \in Places, NEW x \in Q(h) PROVE \E g \in Places : x \in R(g)
    BY <1>1, <1>4, <2>1
  <2>2. ASSUME NEW h \in Places, NEW x \in R(h), x # u PROVE \E g \in Places : x \in Q(g)
    BY <1>1, <1>4, <2>2
  <2> QED
    BY <1>1, <2>1, <2>2
<1>9. left2 \intersect drops2 = {}
  BY <1>0, <1>a, <1>b
<1>10. left2 \union drops2 \union UNION {Q(h) : h \in Places} = all
  <2>1. left2 \union drops2 \union UNION {Q(h) : h \in Places}
           = left \union drops \union ({u} \union UNION {Q(h) : h \in Places})
    BY <1>a
  <2> QED
    BY <1>0, <1>8, <2>1
<1> QED
  BY <1>5, <1>6, <1>7, <1>9, <1>10 DEF Whole, Q

LEMMA PlaceKinds ==
    /\ \A s \in Sources : <<"ahead", s>> \in Places
    /\ \A p \in Ports, t \in Types, q \in QoS : <<"queue", p, t, q>> \in Places
    /\ \A p \in Ports, t \in Types : <<"link", p, t>> \in Places
    /\ \A p \in Ports : <<"onLine", p>> \in Places
    /\ <<"fromEfcp">> \in Places
    /\ \A x \in Ports \union Ceps : <<"sent", x>> \in Places
    /\ \A k \in Places :
          \/ \E s \in Sources : k = <<"ahead", s>>
          \/ \E p \in Ports, t \in Types, q \in QoS : k = <<"queue", p, t, q>>
          \/ \E p \in Ports, t \in Types : k = <<"link", p, t>>
          \/ \E p \in Ports : k = <<"onLine", p>>
          \/ k = <<"fromEfcp">>
          \/ \E x \in Ports \union Ceps : k = <<"sent", x>>
BY DEF Places

LEMMA PlacesDiffer ==
    ASSUME NEW p, NEW t, NEW q, NEW x, NEW r, NEW v, NEW w, NEW y
    PROVE  /\ <<"ahead", x>> # <<"queue", p, t, q>> /\ <<"ahead", x>> # <<"link", p, t>>
           /\ <<"ahead", x>> # <<"onLine", p>> /\ <<"ahead", x>> # <<"fromEfcp">>
           /\ <<"ahead", x>> # <<"sent", y>> /\ <<"queue", p, t, q>> # <<"link", r, v>>
           /\ <<"queue", p, t, q>> # <<"onLine", r>> /\ <<"queue", p, t, q>> # <<"fromEfcp">>
           /\ <<"queue", p, t, q>> # <<"sent", x>> /\ <<"link", p, t>> # <<"onLine", r>>
           /\ <<"link", p, t>> # <<"fromEfcp">> /\ <<"link", p, t>> # <<"sent", x>>
           /\ <<"onLine", p>> # <<"fromEfcp">> /\ <<"onLine", p>> # <<"sent", x>>
           /\ <<"fromEfcp">> # <<"sent", x>>
           /\ <<"ahead", x>> = <<"ahead", y>> => x = y
           /\ <<"queue", p, t, q>> = <<"queue", r, v, w>> => p = r /\ t = v /\ q = w
           /\ <<"link", p, t>> = <<"link", r, v>> => p = r /\ t = v
           /\ <<"onLine", p>> = <<"onLine", r>> => p = r
           /\ <<"sent", x>> = <<"sent", y>> => x = y
OBVIOUS

LEMMA AtPlaces ==
    /\ \A s \in Sources : At(<<"ahead", s>>) = ahead[s] /\ At(<<"ahead", s>>)' = ahead'[s]
    /\ \A p \in Ports, t \in Types, q \in QoS :
          /\ At(<<"queue", p, t, q>>) = PdusOf(dir[p][t].queue[q])
          /\ At(<<"queue", p, t, q>>)' = PdusOf(dir'[p][t].queue[q])
    /\ \A p \in Ports, t \in Types :
          /\ At(<<"link", p, t>>) = PdusOf(dir[p][t].link)
          /\ At(<<"link", p, t>>)' = PdusOf(dir'[p][t].link)
    /\ \A p \in Ports : /\ At(<<"onLine", p>>) = PdusOf(onLine[p])
                        /\ At(<<"onLine", p>>)' = PdusOf(onLine'[p])
    /\ At(<<"fromEfcp">>) = PdusOf(fromEfcp) /\ At(<<"fromEfcp">>)' = PdusOf(fromEfcp')
    /\ \A x \in Ports \union Ceps : At(<<"sent", x>>) = sent[x] /\ At(<<"sent", x>>)' = sent'[x]
BY DEF At, PdusOf

LEMMA SamePlaces ==
    ASSUME NEW S, NEW T, NEW left, NEW drops, NEW all, Whole(S, left, drops, all),
           \A k \in Places : T[k] = S[k]
    PROVE  Whole(T, left, drops, all)
<1>1. {Range(T[k]) : k \in Places} = {Range(S[k]) : k \in Places}
  OBVIOUS
<1> QED
  BY <1>1 DEF Whole

(* Serving a direction moves a PDU from a queue of it to its link.         *)
LEMMA ServedPlaces ==
    ASSUME NEW S, NEW T, NEW left, NEW drops, NEW all, Whole(S, left, drops, all),
           NEW p \in Ports, NEW t \in Types, NEW d \in Direction, NEW e, Served(d, e),
           \A q \in QoS : /\ S[<<"queue", p, t, q>>] = PdusOf(d.queue[q])
                          /\ T[<<"queue", p, t, q>>] = PdusOf(e.queue[q]),
           S[<<"link", p, t>>] = PdusOf(d.link), T[<<"link", p, t>>] = PdusOf(e.link),
           \A k \in Places :
              k # <<"link", p, t>> /\ (\A q \in QoS : k # <<"queue", p, t, q>>) => T[k] = S[k]
    PROVE  Whole(T, left, drops, all)
<1>0. d.queue \in [QoS -> Seq(FlaggedPDU)] /\ d.link \in Seq(FlaggedPDU)
  BY DirectionFields
<1>1. CASE e.queue = d.queue /\ e.link = d.link
  <2>1. \A k \in Places : T[k] = S[k]
    BY <1>1
  <2> QED
    BY <2>1, SamePlaces
<1>2. ASSUME NEW q \in QoS, d.queue[q] # <<>>, e.queue = [d.queue EXCEPT ![q] = Tail(@)],
             e.link = Append(d.link, Head(d.queue[q]))
      PROVE  Whole(T, left, drops, all)
  <2> DEFINE k == <<"queue", p, t, q>>
             l == <<"link", p, t>>
             w == d.queue[q]
  <2>1. w \in Seq(FlaggedPDU) /\ Head(w) \in FlaggedPDU /\ w # <<>>
    BY <1>0, <1>2, TailFacts
  <2>2. /\ PdusOf(w) # <<>> /\ PdusOf(Tail(w)) = Tail(PdusOf(w))
        /\ Head(PdusOf(w)) = Head(w).pdu
    BY <2>1, PdusOfFacts
  <2>3. PdusOf(Append(d.link, Head(w))) = Append(PdusOf(d.link), Head(w).pdu)
    BY <1>0, <2>1, PdusOfFacts
  <2>4. \A r \in QoS : e.queue[r] = IF r = q THEN Tail(w) ELSE d.queue[r]
    BY <1>0, <1>2
  <2>5. /\ k \in Places /\ l \in Places /\ k # l
        /\ \A r \in QoS : <<"queue", p, t, r>> = k => r = q
    BY PlaceKinds, PlacesDiffer
  <2>6. S[k] # <<>> /\ T[k] = Tail(S[k]) /\ T[l] = Append(S[l], Head(S[k]))
    BY <1>2, <2>2, <2>3, <2>4
  <2>7. \A h \in Places : h # k /\ h # l => T[h] = S[h]
    <3> SUFFICES ASSUME NEW h \in Places, h # k, h # l PROVE T[h] = S[h]
      OBVIOUS
    <3>1. CASE \E r \in QoS : h = <<"queue", p, t, r>>
      <4>1. PICK r \in QoS : h = <<"queue", p, t, r>>
        BY <3>1
      <4>2. r # q
        BY <4>1
      <4>3. e.queue[r] = d.queue[r]
        BY <2>4, <4>2
      <4> QED
        BY <4>1, <4>3
    <3>2. CASE ~\E r \in QoS : h = <<"queue", p, t, r>>
      BY <3>2
    <3> QED
      BY <3>1, <3>2
  <2> HIDE DEF k, l
  <2> QED
    BY <2>5, <2>6, <2>7, MovesOn
<1> QED
  BY <1>1, <1>2 DEF Served

(* A PDU that arrives from a place joins its queue or is dropped; then the *)
(* direction is served.                                                    *)
LEMMA ArrivedPlaces ==
    ASSUME NEW S, NEW T, NEW left, NEW drops, NEW drops2, NEW all, Whole(S, left, drops, all),
           NEW p \in Ports, NEW t \in Types, NEW d \in Direction, NEW u \in FlaggedPDU,
           u.pdu.qos \in QoS, NEW m \in Direction, Arrived(d, m, u), NEW e, Served(m, e),
           m.dropped = d.dropped => drops2 = drops,
           m.dropped = d.dropped \union {u.pdu} => drops2 = drops \union {u.pdu},
           NEW k \in Places, k # <<"link", p, t>>, \A q \in QoS : k # <<"queue", p, t, q>>,
           S[k] # <<>>, Head(S[k]) = u.pdu, T[k] = Tail(S[k]),
           \A q \in QoS : /\ S[<<"queue", p, t, q>>] = PdusOf(d.queue[q])
                          /\ T[<<"queue", p, t, q>>] = PdusOf(e.queue[q]),
           S[<<"link", p, t>>] = PdusOf(d.link), T[<<"link", p, t>>] = PdusOf(e.link),
           \A h \in Places :
              h # k /\ h # <<"link", p, t>> /\ (\A q \in QoS : h # <<"queue", p, t, q>>)
                 => T[h] = S[h]
    PROVE  Whole(T, left, drops2, all)
<1>0. d.queue \in [QoS -> Seq(FlaggedPDU)] /\ m.queue \in [QoS -> Seq(FlaggedPDU)]
  BY DirectionFields
<1> DEFINE l == <<"queue", p, t, u.pdu.qos>>
           X == PdusOf(m.queue[u.pdu.qos])
           M == [h \in Places |-> IF h = k THEN Tail(S[k]) ELSE IF h = l THEN X ELSE S[h]]
<1>1. /\ l \in Places /\ k # l /\ <<"link", p, t>> \in Places /\ l # <<"link", p, t>>
      /\ \A q \in QoS : <<"queue", p, t, q>> \in Places
      /\ \A q \in QoS : <<"queue", p, t, q>> = l => q = u.pdu.qos
  BY PlaceKinds, PlacesDiffer
<1>2. M[k] = Tail(S[k]) /\ M[l] = X /\ \A h \in Places : h # k /\ h # l => M[h] = S[h]
  BY <1>1
<1>3. S[l] = PdusOf(d.queue[u.pdu.qos])
  OBVIOUS
<1> HIDE DEF M
<1>4. Whole(M, left, drops2, all) /\ \A q \in QoS : M[<<"queue", p, t, q>>] = PdusOf(m.queue[q])
  <2>1. CASE m.queue = d.queue /\ m.dropped = d.dropped \union {u.pdu}
    <3>1. \A h \in Places : h # k => M[h] = S[h]
      BY <1>2, <1>3, <2>1
    <3>2. Whole(M, left, drops2, all)
      <4>1. drops2 = drops \union {Head(S[k])}
        BY <2>1
      <4> HIDE DEF l, X
      <4> QED
        BY <1>2, <3>1, <4>1, MovesOut
    <3>3. \A q \in QoS : M[<<"queue", p, t, q>>] = PdusOf(m.queue[q])
      BY <1>1, <2>1, <3>1
    <3> QED
      BY <3>2, <3>3
  <2>2. ASSUME m.dropped = d.dropped, NEW v \in FlaggedPDU, v.pdu = u.pdu,
               m.queue = [d.queue EXCEPT ![u.pdu.qos] = Append(@, v)]
        PROVE  Whole(M, left, drops2, all)
               /\ \A q \in QoS : M[<<"queue", p, t, q>>] = PdusOf(m.queue[q])
    <3>1. \A q \in QoS : m.queue[q] = IF q = u.pdu.qos THEN Append(d.queue[q], v) ELSE d.queue[q]
      BY <1>0, <2>2
    <3>2. X = Append(S[l], Head(S[k]))
      <4>1. d.queue[u.pdu.qos] \in Seq(FlaggedPDU)
        BY <1>0
      <4>2. PdusOf(Append(d.queue[u.pdu.qos], v)) = Append(PdusOf(d.queue[u.pdu.qos]), v.pdu)
        BY <4>1, PdusOfFacts
      <4> QED
        BY <1>3, <2>2, <3>1, <4>2
    <3>3. Whole(M, left, drops2, all)
      <4>1. drops2 = drops
        BY <2>2
      <4> HIDE DEF l, X
      <4> QED
        BY <1>1, <1>2, <3>2, <4>1, MovesOn
    <3>4. ASSUME NEW q \in QoS PROVE M[<<"queue", p, t, q>>] = PdusOf(m.queue[q])
      <4>1. CASE q = u.pdu.qos
        BY <1>2, <4>1
      <4>2. CASE q # u.pdu.qos
        <5>1. M[<<"queue", p, t, q>>] = S[<<"queue", p, t, q>>]
          BY <1>1, <1>2, <4>2
        <5> QED
          BY <3>1, <4>2, <5>1
      <4> QED
        BY <4>1, <4>2
    <3> QED
      BY <3>3, <3>4
  <2> QED
    BY <2>1, <2>2 DEF Arrived
<1>5. M[<<"link", p, t>>] = PdusOf(m.link)
  <2>1. m.link = d.link
    BY DEF Arrived
  <2> QED
    BY <1>1, <1>2, <2>1
<1>6. \A h \in Places :
         h # <<"link", p, t>> /\ (\A q \in QoS : h # <<"queue", p, t, q>>) => T[h] = M[h]
  BY <1>1, <1>2
<1> HIDE DEF l, X
<1> QED
  BY <1>4, <1>5, <1>6, ServedPlaces

Accounted == Whole([k \in Places |-> At(k)], LeftBehind, Dropped, AllTraffic)

LEMMA AccountedNext ==
    Accounted' <=> Whole([k \in Places |-> At(k)'], LeftBehind', Dropped', AllTraffic')
BY DEF Accounted, Whole

LEMMA AccountedPlaces == TypeOK /\ Accounted => EachInOnePlace
<1> SUFFICES ASSUME Accounted PROVE EachInOnePlace
  OBVIOUS
<1>1. /\ \A k \in Places : /\ At(k) \in Seq(PDU) /\ IsInjective(At(k))
                           /\ Range(At(k)) \intersect (LeftBehind \union Dropped) = {}
      /\ \A k, l \in Places : k # l => Range(At(k)) \intersect Range(At(l)) = {}
      /\ LeftBehind \intersect Dropped = {}
      /\ LeftBehind \union Dropped \union UNION {Range(At(k)) : k \in Places} = AllTraffic
  <2> DEFINE S == [k \in Places |-> At(k)]
  <2>1. \A k \in Places : S[k] = At(k)
    OBVIOUS
  <2> HIDE DEF S
  <2>2. {Range(S[k]) : k \in Places} = {Range(At(k)) : k \in Places}
    BY <2>1
  <2>3. Whole(S, LeftBehind, Dropped, AllTraffic)
    BY DEF Accounted, S
  <2> QED
    BY <2>1, <2>2, <2>3 DEF Whole
<1>2. \A k \in Places : \A i \in DOMAIN At(k) : At(k)[i] \in Range(At(k))
  BY DEF Range
<1>3. ASSUME NEW k \in Places, NEW i \in DOMAIN At(k), NEW l \in Places, NEW j \in DOMAIN At(l),
             At(k)[i] = At(l)[j]
      PROVE  k = l /\ i = j
  <2>1. k = l
    BY <1>1, <1>2, <1>3
  <2> QED
    BY <1>1, <1>3, <2>1 DEF IsInjective
<1>4. \A k \in Places : \A i \in DOMAIN At(k) : At(k)[i] \notin LeftBehind \union Dropped
  BY <1>1, <1>2
<1> QED
  BY <1>1, <1>3, <1>4 DEF EachInOnePlace

LEMMA InitAccounted == Init => Accounted
<1> SUFFICES ASSUME Init PROVE Accounted
  OBVIOUS
<1>1. TypeOK
  BY InitTypeOK
<1> DEFINE S == [k \in Places |-> At(k)]
<1>2. \A s \in Sources : /\ S[<<"ahead", s>>] = ahead[s] /\ ahead[s] \in Seq(PDU)
                         /\ ahead[s] = IF s \in Present \union {Efcp} THEN node.traffic[s] ELSE <<>>
  BY <1>1, AtPlaces, PlaceKinds DEF Init, TypeOK
<1>3. node.traffic \in Traffics
  BY DEF Init, Nodes
<1>4. \A k \in Places : (\E s \in Sources : k = <<"ahead", s>>) \/ S[k] = <<>>
  <2> SUFFICES ASSUME NEW k \in Places, ~\E s \in Sources : k = <<"ahead", s>> PROVE At(k) = <<>>
    OBVIOUS
  <2>1. PdusOf(<<>>) = <<>>
    BY DEF PdusOf
  <2>2. /\ fromEfcp = <<>> /\ (\A p \in Ports : onLine[p] = <<>>)
        /\ \A x \in Ports \union Ceps : sent[x] = <<>>
    BY DEF Init
  <2>3. \A p \in Ports, t \in Types : dir[p][t].link = <<>> /\ \A q \in QoS : dir[p][t].queue[q] = <<>>
    BY DEF Init, InitDirection
  <2>4. CASE \E p \in Ports, t \in Types, q \in QoS : k = <<"queue", p, t, q>>
    BY <2>1, <2>3, <2>4, AtPlaces
  <2>5. CASE \E p \in Ports, t \in Types : k = <<"link", p, t>>
    BY <2>1, <2>3, <2>5, AtPlaces
  <2>6. CASE \E p \in Ports : k = <<"onLine", p>>
    BY <2>1, <2>2, <2>6, AtPlaces
  <2>7. CASE k = <<"fromEfcp">>
    BY <2>1, <2>2, <2>7, AtPlaces
  <2>8. CASE \E x \in Ports \union Ceps : k = <<"sent", x>>
    BY <2>2, <2>8, AtPlaces
  <2> QED
    BY <2>4, <2>5, <2>6, <2>7, <2>8, PlaceKinds
<1>5. LeftBehind = {} /\ Dropped = {}
  <2>1. \A w \in Whys : away[w] = {}
    BY DEF Init
  <2>2. \A p \in Ports, t \in Types : dir[p][t].dropped = {}
    BY DEF Init, InitDirection
  <2>3. LeftBehind = {}
    BY <2>1 DEF LeftBehind
  <2>4. Dropped = {}
    BY <2>2 DEF Dropped
  <2> QED
    BY <2>3, <2>4
<1> HIDE DEF S
<1>6. ASSUME NEW s \in Sources
      PROVE  IsInjective(ahead[s]) /\ \A u \in Range(ahead[s]) : u.src = s
  <2>1. CASE ahead[s] = <<>>
    BY <2>1 DEF IsInjective, Range
  <2>2. CASE ahead[s] = node.traffic[s]
    <3> DEFINE w == ahead[s]
    <3>1. /\ w \in Seq(PDU)
          /\ \A i \in DOMAIN w : w[i].src = s /\ \A j \in DOMAIN w : i < j => w[i].id < w[j].id
      <4>1. w \in Seq(PDU) /\ w = node.traffic[s]
        BY <1>2, <2>2
      <4>2. \A i \in DOMAIN node.traffic[s] :
               /\ node.traffic[s][i].src = s
               /\ \A j \in DOMAIN node.traffic[s] :
                     i < j => node.traffic[s][i].id < node.traffic[s][j].id
        BY <1>3, TrafficAssumption
      <4> HIDE DEF w
      <4> QED
        BY <4>1, <4>2
    <3> HIDE DEF w
    <3>2. \A i \in DOMAIN w : i \in Nat /\ w[i].id \in Nat
      <4>1. \A i \in DOMAIN w : i \in Nat /\ w[i] \in PDU
        BY <3>1
      <4>2. \A u \in PDU : u.id \in Nat
        BY DEF PDU
      <4> QED
        BY <4>1, <4>2
    <3>3. IsInjective(w)
      <4> SUFFICES ASSUME NEW i \in DOMAIN w, NEW j \in DOMAIN w, w[i] = w[j] PROVE i = j
        BY DEF IsInjective
      <4>1. ~(i < j) /\ ~(j < i)
        BY <3>1, <3>2
      <4> QED
        BY <3>2, <4>1
    <3>4. \A u \in Range(w) : u.src = s
      BY <3>1 DEF Range
    <3> QED
      BY <3>3, <3>4 DEF w
  <2> QED
    BY <1>2, <2>1, <2>2
<1>7. Range(<<>>) = {} /\ IsInjective(<<>>) /\ <<>> \in Seq(PDU)
  <2>1. DOMAIN <<>> = {} /\ <<>> \in Seq(PDU)
    OBVIOUS
  <2> DEFINE w == <<>>
  <2> HIDE DEF w
  <2>2. DOMAIN w = {} => Range(w) = {} /\ IsInjective(w)
    BY DEF Range, IsInjective
  <2> QED
    BY <2>1, <2>2 DEF w
<1>8. \A k \in Places : S[k] \in Seq(PDU) /\ IsInjective(S[k])
  <2> SUFFICES ASSUME NEW k \in Places PROVE S[k] \in Seq(PDU) /\ IsInjective(S[k])
    OBVIOUS
  <2>1. CASE S[k] = <<>>
    BY <1>7, <2>1
  <2>2. ASSUME NEW s \in Sources, k = <<"ahead", s>>
        PROVE  S[k] \in Seq(PDU) /\ IsInjective(S[k])
    <3>1. S[k] = ahead[s] /\ ahead[s] \in Seq(PDU)
      BY <1>2, <2>2
    <3> QED
      BY <1>6, <3>1
  <2> QED
    BY <1>4, <2>1, <2>2
<1>9. ASSUME NEW k \in Places, NEW l \in Places, k # l
      PROVE  Range(S[k]) \intersect Range(S[l]) = {}
  <2>1. CASE S[k] = <<>> \/ S[l] = <<>>
    BY <1>7, <2>1
  <2>2. CASE S[k] # <<>> /\ S[l] # <<>>
    <3>1. PICK s \in Sources : k = <<"ahead", s>>
      BY <1>4, <2>2
    <3>2. PICK r \in Sources : l = <<"ahead", r>>
      BY <1>4, <2>2
    <3>3. s # r
      BY <1>9, <3>1, <3>2
    <3> QED
      BY <1>2, <1>6, <3>1, <3>2, <3>3
  <2> QED
    BY <2>1, <2>2
<1>10. UNION {Range(S[k]) : k \in Places} = AllTraffic
  <2>0. Present \union {Efcp} \subseteq Sources
    BY PortAssumption DEF Present, Sources
  <2>1. ASSUME NEW k \in Places, NEW u \in Range(S[k]) PROVE u \in AllTraffic
    <3>1. S[k] # <<>>
      BY <1>7, <2>1
    <3>2. PICK s \in Sources : k = <<"ahead", s>>
      BY <1>4, <3>1
    <3>3. s \in Present \union {Efcp} /\ S[k] = node.traffic[s]
      BY <1>2, <3>1, <3>2
    <3> QED
      BY <2>1, <3>3 DEF AllTraffic
  <2>2. ASSUME NEW u \in AllTraffic PROVE \E k \in Places : u \in Range(S[k])
    <3>1. PICK s \in Present \union {Efcp} : u \in Range(node.traffic[s])
      BY <2>2 DEF AllTraffic
    <3>2. s \in Sources /\ S[<<"ahead", s>>] = node.traffic[s]
      BY <1>2, <2>0, <3>1
    <3> QED
      BY <3>1, <3>2, PlaceKinds
  <2> QED
    BY <2>1, <2>2
<1>11. Whole(S, LeftBehind, Dropped, AllTraffic)
  BY <1>5, <1>8, <1>9, <1>10 DEF Whole
<1> QED
  BY <1>11 DEF Accounted, S

(* What leaves the RMT by no port. *)
LEMMA AwayLeaves ==
    ASSUME TypeOK, NEW u, NEW w \in Whys, Away(u, w)
    PROVE  LeftBehind' = LeftBehind \union {u}
<1>1. \A v \in Whys : away'[v] = IF v = w THEN away[v] \union {u} ELSE away[v]
  BY DEF Away, TypeOK
<1> QED
  BY <1>1 DEF LeftBehind

LEMMA DropsStay ==
    ASSUME \A r \in Ports, v \in Types : dir'[r][v].dropped = dir[r][v].dropped
    PROVE  Dropped' = Dropped
BY DEF Dropped

LEMMA OneMoreDropped ==
    ASSUME NEW p \in Ports, NEW t \in Types, NEW u,
           dir'[p][t].dropped = dir[p][t].dropped \union {u},
           \A r \in Ports, v \in Types :
              (r # p \/ v # t) => dir'[r][v].dropped = dir[r][v].dropped
    PROVE  Dropped' = Dropped \union {u}
<1>1. \A x : x \in Dropped <=> \E r \in Ports, v \in Types : x \in dir[r][v].dropped
  BY DEF Dropped
<1>2. \A x : x \in Dropped' <=> \E r \in Ports, v \in Types : x \in dir'[r][v].dropped
  BY DEF Dropped
<1>3. ASSUME NEW x \in Dropped' PROVE x \in Dropped \union {u}
  BY <1>1, <1>2, <1>3
<1>4. ASSUME NEW x \in Dropped PROVE x \in Dropped'
  <2>1. PICK r \in Ports, v \in Types : x \in dir[r][v].dropped
    BY <1>1, <1>4
  <2>2. x \in dir'[r][v].dropped
    <3>1. CASE r = p /\ v = t
      BY <2>1, <3>1
    <3>2. CASE r # p \/ v # t
      BY <2>1, <3>2
    <3> QED
      BY <3>1, <3>2
  <2> QED
    BY <1>2, <2>2
<1>5. u \in Dropped'
  BY <1>2
<1> QED
  BY <1>3, <1>4, <1>5

LEMMA PdusOfHead ==
    ASSUME NEW w \in Seq(FlaggedPDU), w # <<>>
    PROVE  /\ Head(w) \in FlaggedPDU /\ PdusOf(w) # <<>> /\ Head(PdusOf(w)) = Head(w).pdu
           /\ PdusOf(Tail(w)) = Tail(PdusOf(w))
<1>1. Head(w) \in FlaggedPDU
  BY TailFacts
<1> QED
  BY <1>1, PdusOfFacts

LEMMA StepAccounted == TypeOK /\ Accounted /\ [Next]_vars => Accounted'
<1> SUFFICES ASSUME TypeOK, Accounted, [Next]_vars PROVE Accounted'
  OBVIOUS
<1> DEFINE S == [k \in Places |-> At(k)]
           T == [k \in Places |-> At(k)']
<1>1. AllTraffic' = AllTraffic
  BY NodeConstant DEF AllTraffic, Present
<1>2. /\ \A s \in Sources : S[<<"ahead", s>>] = ahead[s] /\ T[<<"ahead", s>>] = ahead'[s]
      /\ \A p \in Ports, t \in Types, q \in QoS :
            /\ S[<<"queue", p, t, q>>] = PdusOf(dir[p][t].queue[q])
            /\ T[<<"queue", p, t, q>>] = PdusOf(dir'[p][t].queue[q])
      /\ \A p \in Ports, t \in Types :
            /\ S[<<"link", p, t>>] = PdusOf(dir[p][t].link)
            /\ T[<<"link", p, t>>] = PdusOf(dir'[p][t].link)
      /\ \A p \in Ports : /\ S[<<"onLine", p>>] = PdusOf(onLine[p])
                          /\ T[<<"onLine", p>>] = PdusOf(onLine'[p])
      /\ S[<<"fromEfcp">>] = PdusOf(fromEfcp) /\ T[<<"fromEfcp">>] = PdusOf(fromEfcp')
      /\ \A x \in Ports \union Ceps : S[<<"sent", x>>] = sent[x] /\ T[<<"sent", x>>] = sent'[x]
  BY AtPlaces, PlaceKinds
<1>3. Whole(S, LeftBehind, Dropped, AllTraffic)
  BY DEF Accounted
<1> SUFFICES Whole(T, LeftBehind', Dropped', AllTraffic)
  BY <1>1, AccountedNext
<1> HIDE DEF S, T
<1> "in" \in Types /\ "out" \in Types /\ "in" # "out"
  BY DEF Types
<1>4. /\ sent \in [Ports \union Ceps -> Seq(PDU)] /\ fromEfcp \in Seq(FlaggedPDU)
      /\ onLine \in [Ports -> Seq(FlaggedPDU)] /\ ahead \in [Sources -> Seq(PDU)]
      /\ Ports \intersect Ceps = {} /\ Efcp \notin Ports /\ Sources = Ports \union {Efcp}
      /\ \A p \in Ports, t \in Types : dir[p][t] \in Direction
  BY OnLineType, DirGood, TypeOKParts, PortAssumption DEF TypeOK, Sources
<1>5. /\ (\A s \in Sources : <<"ahead", s>> \in Places)
      /\ (\A p \in Ports : <<"onLine", p>> \in Places)
      /\ <<"fromEfcp">> \in Places
      /\ (\A x \in Ports \union Ceps : <<"sent", x>> \in Places)
      /\ \A p \in Ports, t \in Types : <<"link", p, t>> \in Places
  BY PlaceKinds
(* The places an unchanged variable stands for. *)
<1>6. /\ UNCHANGED ahead => \A s \in Sources : T[<<"ahead", s>>] = S[<<"ahead", s>>]
      /\ UNCHANGED onLine => \A p \in Ports : T[<<"onLine", p>>] = S[<<"onLine", p>>]
      /\ UNCHANGED fromEfcp => T[<<"fromEfcp">>] = S[<<"fromEfcp">>]
      /\ UNCHANGED sent => \A x \in Ports \union Ceps : T[<<"sent", x>>] = S[<<"sent", x>>]
      /\ \A p \in Ports, t \in Types : dir'[p][t] = dir[p][t] =>
            /\ T[<<"link", p, t>>] = S[<<"link", p, t>>]
            /\ \A q \in QoS : T[<<"queue", p, t, q>>] = S[<<"queue", p, t, q>>]
  BY <1>2
<1>7. UNCHANGED away => LeftBehind' = LeftBehind
  BY DEF LeftBehind
(* A PDU the RMT has looked at leaves place k. *)
<1>8. ASSUME NEW k \in Places, NEW e \in FlaggedPDU, NEW fromPort, ProcessMessage(e, fromPort),
             S[k] # <<>>, Head(S[k]) = e.pdu, T[k] = Tail(S[k]),
             \A p \in Ports : k # <<"onLine", p>>, \A c \in Ceps : k # <<"sent", c>>,
             \A h \in Places : h = k \/ (\E p \in Ports : h = <<"onLine", p>>)
                               \/ (\E x \in Ports \union Ceps : h = <<"sent", x>>) \/ T[h] = S[h],
             Dropped' = Dropped
      PROVE  Whole(T, LeftBehind', Dropped', AllTraffic)
  <2>1. ASSUME sent' = sent, onLine' = onLine, NEW w \in Whys, Away(e.pdu, w)
        PROVE  Whole(T, LeftBehind', Dropped', AllTraffic)
    <3>1. LeftBehind' = LeftBehind \union {Head(S[k])}
      BY <1>8, <2>1, AwayLeaves
    <3>2. \A h \in Places : h # k => T[h] = S[h]
      BY <1>6, <1>8, <2>1
    <3> QED
      BY <1>3, <1>8, <3>1, <3>2, MovesOut
  <2>2. ASSUME sent' = sent, away' = away, NEW p \in Ports,
               onLine' = [onLine EXCEPT ![p] = Append(@, e)]
        PROVE  Whole(T, LeftBehind', Dropped', AllTraffic)
    <3> DEFINE l == <<"onLine", p>>
    <3>1. \A r \in Ports : onLine'[r] = IF r = p THEN Append(onLine[p], e) ELSE onLine[r]
      BY <1>4, <2>2
    <3>2. T[l] = Append(S[l], Head(S[k]))
      <4>1. onLine[p] \in Seq(FlaggedPDU)
        BY <1>4
      <4>2. PdusOf(Append(onLine[p], e)) = Append(PdusOf(onLine[p]), e.pdu)
        BY <1>8, <4>1, PdusOfFacts
      <4> QED
        BY <1>2, <1>8, <3>1, <4>2
    <3>3. \A h \in Places : h # k /\ h # l => T[h] = S[h]
      <4>1. \A r \in Ports : r # p => T[<<"onLine", r>>] = S[<<"onLine", r>>]
        BY <1>2, <3>1
      <4> QED
        BY <1>6, <1>8, <2>2, <4>1
    <3>4. LeftBehind' = LeftBehind /\ l \in Places /\ k # l
      BY <1>5, <1>7, <1>8, <2>2
    <3> HIDE DEF l
    <3> QED
      BY <1>3, <1>8, <3>2, <3>3, <3>4, MovesOn
  <2>3. ASSUME onLine' = onLine, away' = away, NEW c \in Ceps,
               sent' = [sent EXCEPT ![c] = Append(@, e.pdu)]
        PROVE  Whole(T, LeftBehind', Dropped', AllTraffic)
    <3> DEFINE l == <<"sent", c>>
    <3>1. \A x \in Ports \union Ceps : sent'[x] = IF x = c THEN Append(sent[c], e.pdu) ELSE sent[x]
      BY <1>4, <2>3
    <3>2. T[l] = Append(S[l], Head(S[k]))
      BY <1>2, <1>8, <3>1
    <3>3. \A h \in Places : h # k /\ h # l => T[h] = S[h]
      <4>1. \A x \in Ports \union Ceps : x # c => T[<<"sent", x>>] = S[<<"sent", x>>]
        BY <1>2, <3>1
      <4> QED
        BY <1>6, <1>8, <2>3, <4>1
    <3>4. LeftBehind' = LeftBehind /\ l \in Places /\ k # l
      BY <1>5, <1>7, <1>8, <2>3
    <3> HIDE DEF l
    <3> QED
      BY <1>3, <1>8, <3>2, <3>3, <3>4, MovesOn
  <2> QED
    BY <1>8, <2>1, <2>2, <2>3, ProcessMessageMoves
(* A PDU enters a direction from place k. *)
<1>9. ASSUME NEW k \in Places, NEW p \in Ports, NEW t \in Types, NEW u \in FlaggedPDU,
             u.pdu.qos \in QoS, NEW m \in Direction, Arrived(dir[p][t], m, u),
             Served(m, dir'[p][t]), k # <<"link", p, t>>, \A q \in QoS : k # <<"queue", p, t, q>>,
             S[k] # <<>>, Head(S[k]) = u.pdu, T[k] = Tail(S[k]),
             \A r \in Ports, v \in Types : (r # p \/ v # t) => dir'[r][v] = dir[r][v],
             \A h \in Places : h = k \/ (\E r \in Ports, v \in Types : h = <<"link", r, v>>)
                               \/ (\E r \in Ports, v \in Types, q \in QoS : h = <<"queue", r, v, q>>)
                               \/ T[h] = S[h],
             away' = away
      PROVE  Whole(T, LeftBehind', Dropped', AllTraffic)
  <2> DEFINE d == dir[p][t]
             e == dir'[p][t]
  <2>1. LeftBehind' = LeftBehind /\ e.dropped = m.dropped /\ d \in Direction
    BY <1>4, <1>7, <1>9 DEF Served
  <2>2. m.dropped = d.dropped => Dropped' = Dropped
    BY <1>9, <2>1, DropsStay
  <2>3. m.dropped = d.dropped \union {u.pdu} => Dropped' = Dropped \union {u.pdu}
    <3> SUFFICES ASSUME m.dropped = d.dropped \union {u.pdu} PROVE Dropped' = Dropped \union {u.pdu}
      OBVIOUS
    <3>1. dir'[p][t].dropped = dir[p][t].dropped \union {u.pdu}
      BY <2>1
    <3>2. \A r \in Ports, v \in Types :
             (r # p \/ v # t) => dir'[r][v].dropped = dir[r][v].dropped
      BY <1>9
    <3> QED
      BY <3>1, <3>2, OneMoreDropped
  <2>4. \A h \in Places :
           h # k /\ h # <<"link", p, t>> /\ (\A q \in QoS : h # <<"queue", p, t, q>>)
              => T[h] = S[h]
    <3> SUFFICES ASSUME NEW h \in Places, h # k, h # <<"link", p, t>>,
                        \A q \in QoS : h # <<"queue", p, t, q>>
                 PROVE  T[h] = S[h]
      OBVIOUS
    <3>1. CASE \E r \in Ports, v \in Types : h = <<"link", r, v>>
      <4>1. PICK r \in Ports, v \in Types : h = <<"link", r, v>>
        BY <3>1
      <4>2. r # p \/ v # t
        BY <4>1
      <4> QED
        BY <1>6, <1>9, <4>1, <4>2
    <3>2. CASE \E r \in Ports, v \in Types, q \in QoS : h = <<"queue", r, v, q>>
      <4>1. PICK r \in Ports, v \in Types, q \in QoS : h = <<"queue", r, v, q>>
        BY <3>2
      <4>2. r # p \/ v # t
        BY <4>1
      <4> QED
        BY <1>6, <1>9, <4>1, <4>2
    <3> QED
      BY <1>9, <3>1, <3>2
  <2>5. /\ \A q \in QoS : /\ S[<<"queue", p, t, q>>] = PdusOf(d.queue[q])
                          /\ T[<<"queue", p, t, q>>] = PdusOf(e.queue[q])
        /\ S[<<"link", p, t>>] = PdusOf(d.link) /\ T[<<"link", p, t>>] = PdusOf(e.link)
    BY <1>2
  <2> HIDE DEF d, e
  <2>6. Arrived(d, m, u) /\ Served(m, e)
    BY <1>9 DEF d, e
  <2> QED
    BY <1>3, <1>9, <2>1, <2>2, <2>3, <2>4, <2>5, <2>6, ArrivedPlaces
<1>11. ASSUME NEW p \in Ports, ReceiveFromSouth(p) PROVE Whole(T, LeftBehind', Dropped', AllTraffic)
  <2> DEFINE k == <<"ahead", p>>
             u == Unmarked(Head(ahead[p]))
  <2>1. /\ u \in FlaggedPDU /\ u.pdu = Head(ahead[p]) /\ ahead[p] # <<>> /\ p \in Sources
    BY <1>4, <1>11, ReceiveFromSouthServes
  <2>2. UNCHANGED <<onLine, fromEfcp, sent>> /\ ahead' = [ahead EXCEPT ![p] = Tail(@)]
    BY <1>11 DEF ReceiveFromSouth
  <2>3. /\ S[k] # <<>> /\ Head(S[k]) = u.pdu /\ T[k] = Tail(S[k])
        /\ \A s \in Sources : s # p => T[<<"ahead", s>>] = S[<<"ahead", s>>]
    BY <1>2, <1>4, <2>1, <2>2
  <2>4. \A h \in Places : h = k \/ (\E r \in Ports, v \in Types : h = <<"link", r, v>>)
                          \/ (\E r \in Ports, v \in Types, q \in QoS : h = <<"queue", r, v, q>>)
                          \/ T[h] = S[h]
    BY <1>6, <2>2, <2>3, PlaceKinds
  <2>5. CASE u.pdu.qos \in QoS
    <3>1. PICK error : dir' = [dir EXCEPT ![p]["in"] = EnqueuePDU(@, u, error)]
      BY <1>11, <2>1, <2>5 DEF ReceiveFromSouth
    <3>2. away' = away
      BY <1>11, <2>1, <2>5 DEF ReceiveFromSouth
    <3>3. k \in Places /\ k # <<"link", p, "in">> /\ \A q \in QoS : k # <<"queue", p, "in", q>>
      BY <1>5, <2>1, PlacesDiffer
    <3> HIDE DEF u, k
    <3>4. /\ \E m \in Direction : Arrived(dir[p]["in"], m, u) /\ Served(m, dir'[p]["in"])
          /\ \A r \in Ports, v \in Types : (r # p \/ v # "in") => dir'[r][v] = dir[r][v]
      BY <2>1, <2>5, <3>1, ArrivalServes
    <3> QED
      BY <1>9, <2>1, <2>3, <2>4, <2>5, <3>2, <3>3, <3>4
  <2>6. CASE u.pdu.qos \notin QoS
    <3>1. dir' = dir /\ Away(u.pdu, "noQueue")
      BY <1>11, <2>1, <2>6 DEF ReceiveFromSouth
    <3>2. LeftBehind' = LeftBehind \union {Head(S[k])}
      BY <2>3, <3>1, AwayLeaves DEF Whys
    <3>3. Dropped' = Dropped /\ k \in Places
      BY <1>5, <2>1, <3>1, DropsStay
    <3>4. \A h \in Places : h # k => T[h] = S[h]
      BY <1>6, <2>4, <3>1
    <3> HIDE DEF k
    <3> QED
      BY <1>3, <2>3, <3>2, <3>3, <3>4, MovesOut
  <2> QED
    BY <2>5, <2>6
<1>12. ASSUME NEW p \in Ports, EnqueueOutput(p) PROVE Whole(T, LeftBehind', Dropped', AllTraffic)
  <2> DEFINE k == <<"onLine", p>>
             u == Head(onLine[p])
  <2>1. /\ u \in FlaggedPDU /\ u.pdu.qos \in QoS /\ onLine[p] # <<>> /\ onLine[p] \in Seq(FlaggedPDU)
        /\ \E m \in Direction : Arrived(dir[p]["out"], m, u) /\ Served(m, dir'[p]["out"])
        /\ \A r \in Ports, v \in Types : (r # p \/ v # "out") => dir'[r][v] = dir[r][v]
    BY <1>4, <1>12, EnqueueOutputServes
  <2>2. UNCHANGED <<ahead, fromEfcp, sent, away>> /\ onLine' = [onLine EXCEPT ![p] = Tail(@)]
    BY <1>12 DEF EnqueueOutput
  <2>3. \A r \in Ports : onLine'[r] = IF r = p THEN Tail(onLine[p]) ELSE onLine[r]
    BY <1>4, <2>2
  <2>4. /\ S[k] # <<>> /\ Head(S[k]) = u.pdu /\ T[k] = Tail(S[k])
        /\ \A r \in Ports : r # p => T[<<"onLine", r>>] = S[<<"onLine", r>>]
    <3>1. /\ PdusOf(onLine[p]) # <<>> /\ Head(PdusOf(onLine[p])) = u.pdu
          /\ PdusOf(Tail(onLine[p])) = Tail(PdusOf(onLine[p]))
      BY <2>1, PdusOfHead
    <3>2. onLine'[p] = Tail(onLine[p]) /\ \A r \in Ports : r # p => onLine'[r] = onLine[r]
      BY <2>3
    <3>3. S[k] = PdusOf(onLine[p]) /\ T[k] = PdusOf(Tail(onLine[p]))
      BY <1>2, <3>2
    <3>4. \A r \in Ports : r # p => T[<<"onLine", r>>] = S[<<"onLine", r>>]
      BY <1>2, <3>2
    <3> HIDE DEF k, u
    <3> QED
      BY <3>1, <3>3, <3>4
  <2>5. \A h \in Places : h = k \/ (\E r \in Ports, v \in Types : h = <<"link", r, v>>)
                          \/ (\E r \in Ports, v \in Types, q \in QoS : h = <<"queue", r, v, q>>)
                          \/ T[h] = S[h]
    BY <1>6, <2>2, <2>4, PlaceKinds
  <2>6. k \in Places /\ k # <<"link", p, "out">> /\ \A q \in QoS : k # <<"queue", p, "out", q>>
    BY <1>5, PlacesDiffer
  <2> HIDE DEF u, k
  <2> QED
    BY <1>9, <2>1, <2>2, <2>4, <2>5, <2>6
<1>13. ASSUME NEW p \in Ports, RelayFromPort(p) PROVE Whole(T, LeftBehind', Dropped', AllTraffic)
  <2> DEFINE k == <<"link", p, "in">>
             e == Head(dir[p]["in"].link)
  <2>1. /\ dir[p]["in"].link \in Seq(FlaggedPDU) /\ dir[p]["in"].link # <<>>
        /\ dir'[p]["in"].link = Tail(dir[p]["in"].link)
        /\ dir'[p]["in"].queue = dir[p]["in"].queue
        /\ dir'[p]["in"].dropped = dir[p]["in"].dropped
        /\ \A r \in Ports, v \in Types : (r # p \/ v # "in") => dir'[r][v] = dir[r][v]
    BY <1>13, RelayFromPortServes
  <2>2. e \in FlaggedPDU /\ ProcessMessage(e, TRUE) /\ UNCHANGED <<ahead, fromEfcp>>
    <3>1. e \in FlaggedPDU
      BY <2>1, PdusOfHead
    <3> QED
      BY <1>13, <3>1 DEF RelayFromPort
  <2>3. S[k] # <<>> /\ Head(S[k]) = e.pdu /\ T[k] = Tail(S[k])
    <3>1. LET w == dir[p]["in"].link
          IN  /\ PdusOf(w) # <<>> /\ Head(PdusOf(w)) = e.pdu
              /\ PdusOf(Tail(w)) = Tail(PdusOf(w))
      BY <2>1, PdusOfHead
    <3>2. S[k] = PdusOf(dir[p]["in"].link) /\ T[k] = PdusOf(Tail(dir[p]["in"].link))
      BY <1>2, <2>1
    <3> HIDE DEF k, e
    <3> QED
      BY <3>1, <3>2
  <2>4. Dropped' = Dropped
    BY <2>1, DropsStay
  <2>5. /\ \A r \in Ports, v \in Types, q \in QoS : T[<<"queue", r, v, q>>] = S[<<"queue", r, v, q>>]
        /\ \A r \in Ports, v \in Types : <<"link", r, v>> = k \/ T[<<"link", r, v>>] = S[<<"link", r, v>>]
    BY <1>2, <2>1
  <2>6. \A h \in Places : h = k \/ (\E r \in Ports : h = <<"onLine", r>>)
                          \/ (\E x \in Ports \union Ceps : h = <<"sent", x>>) \/ T[h] = S[h]
    BY <1>6, <2>2, <2>5, PlaceKinds
  <2>7. k \in Places /\ (\A r \in Ports : k # <<"onLine", r>>) /\ \A c \in Ceps : k # <<"sent", c>>
    BY <1>5, PlacesDiffer
  <2> HIDE DEF k, e
  <2> QED
    BY <1>8, <2>2, <2>3, <2>4, <2>6, <2>7
<1>14. CASE RelayFromEfcp
  <2> DEFINE k == <<"fromEfcp">>
             e == Head(fromEfcp)
  <2>1. /\ fromEfcp # <<>> /\ fromEfcp' = Tail(fromEfcp) /\ ProcessMessage(e, FALSE)
        /\ UNCHANGED <<dir, ahead>> /\ e \in FlaggedPDU
    <3>1. fromEfcp # <<>>
      BY <1>14 DEF RelayFromEfcp
    <3>2. e \in FlaggedPDU
      BY <1>4, <3>1, PdusOfHead
    <3> QED
      BY <1>14, <3>1, <3>2 DEF RelayFromEfcp
  <2>2. S[k] # <<>> /\ Head(S[k]) = e.pdu /\ T[k] = Tail(S[k])
    BY <1>2, <1>4, <2>1, PdusOfHead
  <2>3. Dropped' = Dropped
    BY <2>1, DropsStay
  <2>4. \A h \in Places : h = k \/ (\E r \in Ports : h = <<"onLine", r>>)
                          \/ (\E x \in Ports \union Ceps : h = <<"sent", x>>) \/ T[h] = S[h]
    <3>1. \A r \in Ports, v \in Types :
             /\ T[<<"link", r, v>>] = S[<<"link", r, v>>]
             /\ \A q \in QoS : T[<<"queue", r, v, q>>] = S[<<"queue", r, v, q>>]
      BY <1>6, <2>1
    <3>2. \A x \in Sources : T[<<"ahead", x>>] = S[<<"ahead", x>>]
      BY <1>6, <2>1
    <3>3. ASSUME NEW h \in Places,
                 \/ \E r \in Ports, v \in Types : h = <<"link", r, v>>
                 \/ \E r \in Ports, v \in Types, q \in QoS : h = <<"queue", r, v, q>>
          PROVE  T[h] = S[h]
      BY <3>1, <3>3
    <3> HIDE DEF e
    <3> QED
      BY <3>2, <3>3, PlaceKinds
  <2>5. k \in Places /\ (\A r \in Ports : k # <<"onLine", r>>) /\ \A c \in Ceps : k # <<"sent", c>>
    BY <1>5, PlacesDiffer
  <2> HIDE DEF k, e
  <2> QED
    BY <1>8, <2>1, <2>2, <2>3, <2>4, <2>5
<1>15. CASE ReceiveFromEfcp
  <2> DEFINE k == <<"ahead", Efcp>>
             l == <<"fromEfcp">>
             u == Head(ahead[Efcp])
  <2>1. /\ ahead[Efcp] \in Seq(PDU) /\ ahead[Efcp] # <<>> /\ Efcp \in Sources
        /\ fromEfcp' = Append(fromEfcp, Unmarked(u)) /\ ahead' = [ahead EXCEPT ![Efcp] = Tail(@)]
        /\ UNCHANGED <<dir, onLine, sent, away>>
    BY <1>4, <1>15 DEF ReceiveFromEfcp
  <2>2. Unmarked(u) \in FlaggedPDU /\ Unmarked(u).pdu = u
    <3>1. u \in PDU
      BY <2>1
    <3> QED
      BY <3>1 DEF Unmarked, FlaggedPDU
  <2>3. /\ S[k] # <<>> /\ T[k] = Tail(S[k]) /\ Head(S[k]) = u
        /\ \A s \in Sources : s # Efcp => T[<<"ahead", s>>] = S[<<"ahead", s>>]
    BY <1>2, <1>4, <2>1
  <2>4. T[l] = Append(S[l], Head(S[k]))
    <3>1. PdusOf(Append(fromEfcp, Unmarked(u))) = Append(PdusOf(fromEfcp), u)
      <4> HIDE DEF u
      <4> QED
        BY <1>4, <2>2, PdusOfFacts
    <3> QED
      BY <1>2, <2>1, <2>3, <3>1
  <2>5. \A h \in Places : h # k /\ h # l => T[h] = S[h]
    <3>1. \A r \in Ports, v \in Types :
             /\ T[<<"link", r, v>>] = S[<<"link", r, v>>]
             /\ \A q \in QoS : T[<<"queue", r, v, q>>] = S[<<"queue", r, v, q>>]
      BY <1>6, <2>1
    <3>2. /\ \A p \in Ports : T[<<"onLine", p>>] = S[<<"onLine", p>>]
          /\ \A x \in Ports \union Ceps : T[<<"sent", x>>] = S[<<"sent", x>>]
      BY <1>6, <2>1
    <3>3. ASSUME NEW s \in Sources, <<"ahead", s>> # k
          PROVE  T[<<"ahead", s>>] = S[<<"ahead", s>>]
      <4>1. s # Efcp
        BY <3>3
      <4> QED
        BY <2>3, <4>1
    <3>4. ASSUME NEW h \in Places,
                 \/ \E r \in Ports, v \in Types : h = <<"link", r, v>>
                 \/ \E r \in Ports, v \in Types, q \in QoS : h = <<"queue", r, v, q>>
          PROVE  T[h] = S[h]
      BY <3>1, <3>4
    <3> SUFFICES ASSUME NEW h \in Places, h # k, h # l PROVE T[h] = S[h]
      OBVIOUS
    <3>5. CASE \E s \in Sources : h = <<"ahead", s>>
      BY <3>3, <3>5
    <3>6. CASE \E r \in Ports : h = <<"onLine", r>>
      BY <3>2, <3>6
    <3>7. CASE \E x \in Ports \union Ceps : h = <<"sent", x>>
      BY <3>2, <3>7
    <3> QED
      BY <3>4, <3>5, <3>6, <3>7, PlaceKinds
  <2>6. k \in Places /\ l \in Places /\ k # l
    BY <1>5, <2>1, PlacesDiffer
  <2>7. LeftBehind' = LeftBehind /\ Dropped' = Dropped
    BY <1>7, <2>1, DropsStay
  <2> HIDE DEF k, l, u
  <2> QED
    BY <1>3, <2>3, <2>4, <2>5, <2>6, <2>7, MovesOn
<1>16. ASSUME NEW p \in Ports, SendSouth(p) PROVE Whole(T, LeftBehind', Dropped', AllTraffic)
  <2> DEFINE k == <<"link", p, "out">>
             l == <<"sent", p>>
             d == dir[p]["out"]
             e == dir'[p]["out"]
             M == [h \in Places |-> IF h = k THEN Tail(S[k])
                                    ELSE IF h = l THEN Append(S[l], Head(S[k])) ELSE S[h]]
  <2>1. /\ d.link \in Seq(FlaggedPDU) /\ d.link # <<>>
        /\ \A r \in Ports, v \in Types : (r # p \/ v # "out") => dir'[r][v] = dir[r][v]
    BY <1>16, SendSouthServes
  <2>2. PICK m \in Direction :
           /\ m.link = Tail(d.link) /\ m.queue = d.queue /\ m.dropped = d.dropped
           /\ Served(m, e)
    BY <1>16, SendSouthServes
  <2>3. /\ UNCHANGED <<onLine, fromEfcp, ahead, away>>
        /\ sent' = [sent EXCEPT ![p] = Append(@, Head(d.link).pdu)]
    BY <1>16 DEF SendSouth
  <2>4. \A x \in Ports \union Ceps :
           sent'[x] = IF x = p THEN Append(sent[p], Head(d.link).pdu) ELSE sent[x]
    BY <1>4, <2>3
  <2>5. /\ S[k] # <<>> /\ Head(S[k]) = Head(d.link).pdu /\ Tail(S[k]) = PdusOf(m.link)
        /\ T[l] = Append(S[l], Head(S[k]))
    <3>1. /\ PdusOf(d.link) # <<>> /\ Head(PdusOf(d.link)) = Head(d.link).pdu
          /\ PdusOf(m.link) = Tail(PdusOf(d.link))
      BY <2>1, <2>2, PdusOfHead
    <3>2. S[k] = PdusOf(d.link) /\ S[l] = sent[p] /\ T[l] = sent'[p]
      BY <1>2
    <3>3. sent'[p] = Append(sent[p], Head(d.link).pdu)
      BY <2>4
    <3> QED
      BY <3>1, <3>2, <3>3
  <2>6. /\ k \in Places /\ l \in Places /\ k # l
        /\ \A q \in QoS : /\ <<"queue", p, "out", q>> \in Places
                           /\ <<"queue", p, "out", q>> # k /\ <<"queue", p, "out", q>> # l
    BY <1>5, PlaceKinds, PlacesDiffer
  <2>7. /\ M[k] = Tail(S[k]) /\ M[l] = Append(S[l], Head(S[k]))
        /\ \A h \in Places : h # k /\ h # l => M[h] = S[h]
    BY <2>6
  <2>8. /\ \A q \in QoS : /\ S[<<"queue", p, "out", q>>] = PdusOf(d.queue[q])
                           /\ T[<<"queue", p, "out", q>>] = PdusOf(e.queue[q])
        /\ T[k] = PdusOf(e.link)
    BY <1>2
  <2>9. \A h \in Places : h # k /\ (\A q \in QoS : h # <<"queue", p, "out", q>>) /\ h # l => T[h] = S[h]
    <3> SUFFICES ASSUME NEW h \in Places, h # k, \A q \in QoS : h # <<"queue", p, "out", q>>, h # l
                 PROVE  T[h] = S[h]
      OBVIOUS
    <3>1. CASE \E r \in Ports, v \in Types : h = <<"link", r, v>>
      <4>1. PICK r \in Ports, v \in Types : h = <<"link", r, v>>
        BY <3>1
      <4>2. r # p \/ v # "out"
        BY <4>1
      <4> QED
        BY <1>6, <2>1, <4>1, <4>2
    <3>2. CASE \E r \in Ports, v \in Types, q \in QoS : h = <<"queue", r, v, q>>
      <4>1. PICK r \in Ports, v \in Types, q \in QoS : h = <<"queue", r, v, q>>
        BY <3>2
      <4>2. r # p \/ v # "out"
        BY <4>1
      <4> QED
        BY <1>6, <2>1, <4>1, <4>2
    <3>3. CASE \E x \in Ports \union Ceps : h = <<"sent", x>>
      <4>1. PICK x \in Ports \union Ceps : h = <<"sent", x>>
        BY <3>3
      <4>2. x # p
        BY <4>1
      <4> QED
        BY <1>2, <2>4, <4>1, <4>2
    <3> QED
      BY <1>6, <2>3, <3>1, <3>2, <3>3, PlaceKinds
  <2>10. LeftBehind' = LeftBehind /\ Dropped' = Dropped
    <3>1. e.dropped = d.dropped
      BY <2>2 DEF Served
    <3>2. \A r \in Ports, v \in Types : dir'[r][v].dropped = dir[r][v].dropped
      BY <2>1, <3>1
    <3> QED
      BY <1>7, <2>3, <3>2, DropsStay
  <2> HIDE DEF k, l, d, e, M
  <2>11. Whole(M, LeftBehind', Dropped', AllTraffic)
    BY <1>3, <2>5, <2>6, <2>7, <2>10, MovesOn
  <2>12. /\ \A q \in QoS : /\ M[<<"queue", p, "out", q>>] = PdusOf(m.queue[q])
                            /\ T[<<"queue", p, "out", q>>] = PdusOf(e.queue[q])
         /\ M[k] = PdusOf(m.link) /\ T[k] = PdusOf(e.link)
    BY <2>2, <2>5, <2>6, <2>7, <2>8
  <2>13. \A h \in Places : h # k /\ (\A q \in QoS : h # <<"queue", p, "out", q>>) => T[h] = M[h]
    BY <2>5, <2>7, <2>9
  <2> QED
    BY <2>2, <2>11, <2>12, <2>13, ServedPlaces DEF k
<1>17. CASE /\ \A r \in Ports, v \in Types : Served(dir[r][v], dir'[r][v])
            /\ \E p \in Ports : \A r \in Ports, v \in Types : r # p => dir'[r][v] = dir[r][v]
            /\ UNCHANGED <<onLine, fromEfcp, ahead, sent, away>>
  <2>1. PICK p \in Ports : \A r \in Ports, v \in Types : r # p => dir'[r][v] = dir[r][v]
    BY <1>17
  <2> DEFINE Of(t) == {<<"link", p, t>>} \union {<<"queue", p, t, q>> : q \in QoS}
             M == [h \in Places |-> IF h \in Of("in") THEN T[h] ELSE S[h]]
  <2>2. \A t \in Types : /\ <<"link", p, t>> \in Places /\ <<"link", p, t>> \in Of(t)
                          /\ \A q \in QoS : /\ <<"queue", p, t, q>> \in Places
                                             /\ <<"queue", p, t, q>> \in Of(t)
    BY PlaceKinds
  <2>3. \A h \in Of("in") : h \notin Of("out")
    BY PlacesDiffer
  <2>4. \A h \in Places : h \notin Of("in") /\ h \notin Of("out") => T[h] = S[h]
    <3> SUFFICES ASSUME NEW h \in Places, h \notin Of("in"), h \notin Of("out") PROVE T[h] = S[h]
      OBVIOUS
    <3>1. CASE \E r \in Ports, v \in Types : h = <<"link", r, v>>
      <4>1. PICK r \in Ports, v \in Types : h = <<"link", r, v>>
        BY <3>1
      <4>2. r # p
        BY <4>1 DEF Types
      <4> QED
        BY <1>6, <2>1, <4>1, <4>2
    <3>2. CASE \E r \in Ports, v \in Types, q \in QoS : h = <<"queue", r, v, q>>
      <4>1. PICK r \in Ports, v \in Types, q \in QoS : h = <<"queue", r, v, q>>
        BY <3>2
      <4>2. r # p
        BY <4>1 DEF Types
      <4> QED
        BY <1>6, <2>1, <4>1, <4>2
    <3> QED
      BY <1>6, <1>17, <3>1, <3>2, PlaceKinds
  <2>5. \A h \in Places : h \in Of("in") => M[h] = T[h]
    OBVIOUS
  <2>6. \A h \in Places : h \notin Of("in") => M[h] = S[h]
    OBVIOUS
  <2>7. \A h \in Places : h \notin Of("out") => T[h] = M[h]
    <3> HIDE DEF M, Of
    <3> QED
      BY <2>4, <2>5, <2>6
  <2>8. \A t \in Types : \A h : h # <<"link", p, t>> /\ (\A q \in QoS : h # <<"queue", p, t, q>>)
                              => h \notin Of(t)
    OBVIOUS
  <2>9. LeftBehind' = LeftBehind /\ Dropped' = Dropped
    <3>1. \A r \in Ports, v \in Types : dir'[r][v].dropped = dir[r][v].dropped
      BY <1>17 DEF Served
    <3> QED
      BY <1>7, <1>17, <3>1, DropsStay
  <2> HIDE DEF M, Of
  <2>10. Whole(M, LeftBehind', Dropped', AllTraffic)
    <3> DEFINE d == dir[p]["in"]
               e == dir'[p]["in"]
    <3>1. d \in Direction /\ Served(d, e)
      BY <1>4, <1>17
    <3>2. /\ \A q \in QoS : /\ S[<<"queue", p, "in", q>>] = PdusOf(d.queue[q])
                             /\ M[<<"queue", p, "in", q>>] = PdusOf(e.queue[q])
          /\ S[<<"link", p, "in">>] = PdusOf(d.link) /\ M[<<"link", p, "in">>] = PdusOf(e.link)
      BY <1>2, <2>2, <2>5
    <3>3. \A h \in Places : h # <<"link", p, "in">> /\ (\A q \in QoS : h # <<"queue", p, "in", q>>)
                                => M[h] = S[h]
      BY <2>6, <2>8
    <3> HIDE DEF d, e
    <3> QED
      BY <1>3, <2>9, <3>1, <3>2, <3>3, ServedPlaces
  <2>11. Whole(T, LeftBehind', Dropped', AllTraffic)
    <3> DEFINE d == dir[p]["out"]
               e == dir'[p]["out"]
    <3>1. d \in Direction /\ Served(d, e)
      BY <1>4, <1>17
    <3>2. /\ \A q \in QoS : /\ M[<<"queue", p, "out", q>>] = PdusOf(d.queue[q])
                             /\ T[<<"queue", p, "out", q>>] = PdusOf(e.queue[q])
          /\ M[<<"link", p, "out">>] = PdusOf(d.link) /\ T[<<"link", p, "out">>] = PdusOf(e.link)
      BY <1>2, <2>2, <2>3, <2>6
    <3>3. \A h \in Places : h # <<"link", p, "out">> /\ (\A q \in QoS : h # <<"queue", p, "out", q>>)
                                => T[h] = M[h]
      BY <2>7, <2>8
    <3> HIDE DEF d, e
    <3> QED
      BY <2>10, <3>1, <3>2, <3>3, ServedPlaces
  <2> QED
    BY <2>11
<1> QED
  BY <1>11, <1>12, <1>13, <1>14, <1>15, <1>16, <1>17, StepKinds

(* The RMT's books: what holds at the start and is preserved. *)
Books == TypeOK /\ AllCounted /\ Accounted

LEMMA BooksKept == (Init => Books) /\ (Books /\ [Next]_vars => Books')
<1>1. Init => Books
  BY InitTypeOK, InitCounted, InitAccounted DEF Books
<1>2. Books /\ [Next]_vars => Books'
  BY StepTypeOK, StepCounted, StepAccounted DEF Books
<1> QED
  BY <1>1, <1>2

(* Under every scheduler, a port counts as waiting what its queues hold,   *)
(* and each PDU is in one place of the RMT, and there once, or was         *)
(* dropped, or left behind: arrivals, bit errors, drops, releases,         *)
(* relaying and sending neither lose a PDU nor make a second of it.        *)
THEOREM NoPduLostOrDoubled == Spec => [](WaitingAreQueued /\ EachInOnePlace)
<1>1. Books => WaitingAreQueued /\ EachInOnePlace
  BY AccountedPlaces DEF Books, AllCounted, Counted, WaitingAreQueued
<1> QED
  BY <1>1, BooksKept, PTL DEF Spec

(* Under LongestQFirst, which serves whichever queue has PDUs, a port that *)
(* is ready has moreover none waiting, whether the last PDU arrived or the *)
(* port got ready first. DumbSch serves what its monitor lists, which may  *)
(* be nothing while PDUs wait.                                             *)
THEOREM QueuesAlwaysAccount ==
    ASSUME Scheduler = "LongestQFirst"
    PROVE  Spec => []QueuesAccount
<1>1. Books => QueuesAccount
  <2>1. Books => TypeOK /\ WaitingAreQueued /\ EachInOnePlace
    BY AccountedPlaces DEF Books, AllCounted, Counted, WaitingAreQueued
  <2>2. Books => ReadyHasNoneWaiting
    BY DEF Books, AllCounted, Idle, ReadyHasNoneWaiting
  <2> QED
    BY <2>1, <2>2 DEF QueuesAccount
<1> QED
  BY <1>1, BooksKept, PTL DEF Spec
=============================================================================
