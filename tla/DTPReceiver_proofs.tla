------------------------- MODULE DTPReceiver_proofs --------------------------
(***************************************************************************)
(* Proofs about the receiving half, for every QoS cube, every bound and    *)
(* every order in which PDUs may arrive. The handlers are operators on a   *)
(* record, so the proofs are about one call: lemmas on the steps handlers  *)
(* are made of, then one lemma per handler, then the invariant.            *)
(***************************************************************************)
EXTENDS DTPReceiver, TLAPS, WellFoundedInduction

(* A non-empty set of naturals has a least element, and Min finds it. *)
LEMMA MinOfNats ==
    ASSUME NEW T \in SUBSET Nat, T # {}
    PROVE  Min(T) \in T /\ \A x \in T : Min(T) <= x
<1>1. IsWellFoundedOn(OpToRel(<, Nat), Nat)
  BY NatLessThanWellFounded
<1>2. PICK x \in T : \A y \in T : ~(<<y, x>> \in OpToRel(<, Nat))
  BY <1>1, WFMin
<1>3. \A y \in T : x <= y
  <2> SUFFICES ASSUME NEW y \in T, y < x PROVE FALSE
    OBVIOUS
  <2>1. <<y, x>> \in OpToRel(<, Nat)
    BY DEF OpToRel
  <2> QED
    BY <2>1, <1>2
<1> QED
  BY <1>2, <1>3 DEF Min

-----------------------------------------------------------------------------
(* What the steps of a handler, and a whole handler, give. *)

(* s is r with the left edge perhaps advanced and timers or credit changed. *)
Advances(r, s) ==
    /\ s \in RcvState
    /\ s.rcvLeftWinEdge >= r.rcvLeftWinEdge
    /\ s.reassemblyPDUQ = r.reassemblyPDUQ
    /\ s.maxSeqNumRcvd = r.maxSeqNumRcvd
    /\ s.thrown = r.thrown

(* What goes up comes from between the old left edge, n, and the new one. *)
HandsUp(o, n) ==
    /\ Settled(o.st)
    /\ o.st.rcvLeftWinEdge >= n
    /\ o.up \subseteq DataPDU
    /\ ForceOrder => \A d \in o.up : n <= d.seq /\ d.seq < o.st.rcvLeftWinEdge

-----------------------------------------------------------------------------
LEMMA NextMissingRange ==
    ASSUME NEW Q \in SUBSET DataPDU, NEW n \in 0..(MaxSeq + 1)
    PROVE  NextMissing(Q, n) \in n..(MaxSeq + 1)
<1> DEFINE T == {m \in n..(MaxSeq + 1) : m \notin SeqNums(Q)}
<1>1. MaxSeq \in Nat
  BY QoSAssumption
<1>2. MaxSeq + 1 \in T
  BY <1>1 DEF SeqNums, DataPDU, SeqNum
<1>3. T \in SUBSET Nat
  BY <1>1
<1>4. Min(T) \in T
  BY <1>2, <1>3, MinOfNats
<1> QED
  BY <1>4 DEF NextMissing

(* The left edge never moves back, nor beyond one more than MaxSeq. *)
LEMMA LeftEdgeAdvances ==
    ASSUME NEW r \in RcvState
    PROVE  LeftEdgeAfter(r) \in r.rcvLeftWinEdge..(MaxSeq + 1)
<1> DEFINE Q == r.reassemblyPDUQ
           n == r.rcvLeftWinEdge
<1>1. MaxSeq \in Nat
  BY QoSAssumption
<1>2. Q \in SUBSET DataPDU /\ n \in 0..(MaxSeq + 1)
  BY DEF RcvState
<1>3. NextMissing(Q, n) \in n..(MaxSeq + 1)
  BY <1>2, NextMissingRange
<1>4. ASSUME NEW d \in Q, ~ \E e \in Q : e.seq <= n
      PROVE  Min(SeqNums(Q)) \in n..(MaxSeq + 1)
  <2>1. SeqNums(Q) \in SUBSET Nat /\ SeqNums(Q) # {}
    BY <1>1, <1>2 DEF SeqNums, DataPDU, SeqNum
  <2>2. Min(SeqNums(Q)) \in SeqNums(Q)
    BY <2>1, MinOfNats
  <2>3. PICK e \in Q : Min(SeqNums(Q)) = e.seq
    BY <2>2 DEF SeqNums
  <2> QED
    BY <1>1, <1>2, <1>4, <2>3 DEF DataPDU, SeqNum
<1>5. n \in n..(MaxSeq + 1)
  BY <1>1, <1>2
<1> QED
  BY <1>3, <1>4, <1>5 DEF LeftEdgeAfter

LEMMA UpdateAdvances ==
    ASSUME NEW r \in RcvState
    PROVE  Advances(r, UpdateRcvLWE(r))
<1>1. LeftEdgeAfter(r) \in r.rcvLeftWinEdge..(MaxSeq + 1)
  BY LeftEdgeAdvances
<1>2. MaxSeq \in Nat /\ r.rcvLeftWinEdge \in 0..(MaxSeq + 1)
  BY QoSAssumption DEF RcvState
<1> QED
  BY <1>1, <1>2 DEF Advances, UpdateRcvLWE, RcvState

LEMMA StartATimerAdvances ==
    ASSUME NEW r \in RcvState, NEW n \in SeqNum
    PROVE  Advances(r, StartATimer(r, n))
<1>1. r.rcvLeftWinEdge \in Nat
  BY QoSAssumption DEF RcvState
<1>2. [r.aTimers EXCEPT ![n] = @ + 1] \in [SeqNum -> Nat]
  BY DEF RcvState
<1> QED
  BY <1>1, <1>2 DEF Advances, StartATimer, RcvState

LEMMA AdvancesTransitive ==
    ASSUME NEW r \in RcvState, NEW s, NEW t, Advances(r, s), Advances(s, t)
    PROVE  Advances(r, t)
<1>1. MaxSeq \in Nat
  BY QoSAssumption
<1>2. /\ r.rcvLeftWinEdge \in 0..(MaxSeq + 1)
      /\ s.rcvLeftWinEdge \in 0..(MaxSeq + 1)
      /\ t.rcvLeftWinEdge \in 0..(MaxSeq + 1)
  BY DEF Advances, RcvState
<1> QED
  BY <1>1, <1>2 DEF Advances

(* svUpdate moves edges and timers only. *)
LEMMA SvUpdateAdvances ==
    ASSUME NEW r \in RcvState
    PROVE  Advances(r, SvUpdate(r))
<1> DEFINE u == UpdateRcvLWE(r)
           c == Credited(r)
<1>1. Advances(r, u)
  BY UpdateAdvances
<1>2. Advances(r, c)
  <2>1. u \in RcvState
    BY <1>1 DEF Advances
  <2>2. [u EXCEPT !.rcvRtWinEdge = @ + 1] \in RcvState
    BY <2>1 DEF RcvState
  <2> QED
    BY <1>1, <2>1, <2>2 DEF Advances, Credited, RcvState
<1>3. c \in RcvState
  BY <1>2 DEF Advances
<1>4. Advances(r, UpdateRcvLWE(c))
  BY <1>2, <1>3, UpdateAdvances, AdvancesTransitive
<1>5. Advances(r, StartATimer(c, RcvrAckNum(c)))
  <2>1. RcvrAckNum(c) \in SeqNum
    <3>1. c.rcvLeftWinEdge \in 0..(MaxSeq + 1) /\ MaxSeq \in Nat
      BY <1>3, QoSAssumption DEF RcvState
    <3> HIDE DEF c
    <3> QED
      BY <3>1 DEF RcvrAckNum, SeqNum
  <2> QED
    BY <1>2, <1>3, <2>1, StartATimerAdvances, AdvancesTransitive
<1> QED
  BY <1>2, <1>4, <1>5 DEF SvUpdate

-----------------------------------------------------------------------------
(* Delimiting what the left edge releases leaves the rest settled. *)
LEMMA DelimitSettles ==
    ASSUME NEW r \in RcvState, ~r.thrown, Bounded(r)
    PROVE  /\ Settled(Delimit(r))
           /\ Delimit(r).rcvLeftWinEdge = r.rcvLeftWinEdge
           /\ Delimit(r).maxSeqNumRcvd = r.maxSeqNumRcvd
           /\ Deliverable(r) \subseteq r.reassemblyPDUQ
           /\ ForceOrder => \A d \in Deliverable(r) : d.seq < r.rcvLeftWinEdge
<1> DEFINE s == Delimit(r)
<1>1. Deliverable(r) \subseteq r.reassemblyPDUQ
  BY DEF Deliverable
<1>2. /\ s.rcvLeftWinEdge = r.rcvLeftWinEdge
      /\ s.maxSeqNumRcvd = r.maxSeqNumRcvd
      /\ s.thrown = r.thrown
      /\ s.reassemblyPDUQ = r.reassemblyPDUQ \ Deliverable(r)
  BY DEF Delimit, RcvState
<1>3. s \in RcvState
  BY DEF Delimit, RcvState
<1>4. Bounded(s)
  BY <1>2 DEF Bounded
<1>5. ForceOrder => \A d \in Deliverable(r) : d.seq < r.rcvLeftWinEdge
  BY DEF Deliverable
<1>6. AtOrBeyond(s, s.rcvLeftWinEdge)
  BY <1>2, QoSAssumption DEF AtOrBeyond, Deliverable, RcvState, DataPDU, SeqNum
<1> QED
  BY <1>1, <1>2, <1>3, <1>4, <1>5, <1>6 DEF Settled

(* The common end of the handlers, for a left edge that was at n. *)
LEMMA HandedHandsUp ==
    ASSUME NEW r \in RcvState, ~r.thrown, Bounded(r),
           NEW n \in 0..(MaxSeq + 1), r.rcvLeftWinEdge >= n, AtOrBeyond(r, n), NEW out
    PROVE  HandsUp(Handed(r, out), n)
<1>1. /\ Handed(r, out).st = Delimit(r)
      /\ Handed(r, out).up = Deliverable(r)
  BY DEF Handed, Outcome
<1>2. r.reassemblyPDUQ \subseteq DataPDU
  BY DEF RcvState
<1> QED
  BY <1>1, <1>2, DelimitSettles DEF HandsUp, AtOrBeyond

-----------------------------------------------------------------------------
(* Queueing a PDU that is not queued yet. *)
LEMMA Adding ==
    ASSUME NEW r \in RcvState, NEW d \in DataPDU, d.seq \notin SeqNums(r.reassemblyPDUQ)
    PROVE  /\ AddToReassemblyQ(r, d) \in RcvState
           /\ AddToReassemblyQ(r, d).reassemblyPDUQ = r.reassemblyPDUQ \union {d}
           /\ AddToReassemblyQ(r, d).rcvLeftWinEdge = r.rcvLeftWinEdge
           /\ AddToReassemblyQ(r, d).maxSeqNumRcvd = r.maxSeqNumRcvd
           /\ AddToReassemblyQ(r, d).thrown = r.thrown
<1>1. AddToReassemblyQ(r, d) = [r EXCEPT !.reassemblyPDUQ = @ \union {d}]
  BY DEF AddToReassemblyQ
<1> QED
  BY <1>1 DEF RcvState

(* The handlers that queue a PDU and go through svUpdate. *)
LEMMA AddedAndUpdated ==
    ASSUME NEW r \in RcvState, ~r.thrown, Bounded(r),
           NEW n \in 0..(MaxSeq + 1), r.rcvLeftWinEdge >= n, AtOrBeyond(r, n), NEW out
    PROVE  HandsUp(Handed(SvUpdate(r), out), n)
<1> DEFINE u == SvUpdate(r)
<1>1. Advances(r, u)
  BY SvUpdateAdvances
<1>2. u \in RcvState /\ ~u.thrown /\ Bounded(u) /\ AtOrBeyond(u, n)
  BY <1>1 DEF Advances, Bounded, AtOrBeyond
<1>3. u.rcvLeftWinEdge >= n
  <2>1. MaxSeq \in Nat /\ r.rcvLeftWinEdge \in 0..(MaxSeq + 1) /\ u.rcvLeftWinEdge \in 0..(MaxSeq + 1)
    BY <1>2, QoSAssumption DEF RcvState
  <2> QED
    BY <1>1, <2>1 DEF Advances
<1> QED
  BY <1>2, <1>3, HandedHandsUp

LEMMA IntoGapHandsUp ==
    ASSUME NEW r, Settled(r), NEW d \in DataPDU, AmongGaps(r, d), ~Queued(r, d)
    PROVE  HandsUp(IntoGap(r, d), r.rcvLeftWinEdge)
<1> DEFINE n == r.rcvLeftWinEdge
           a == AddToReassemblyQ(r, d)
           e == [a EXCEPT !.rcvLeftWinEdge = r.maxSeqNumRcvd]
<1>1. MaxSeq \in Nat /\ n \in 0..(MaxSeq + 1) /\ r.maxSeqNumRcvd \in 0..MaxSeq /\ d.seq \in 0..MaxSeq
  BY QoSAssumption DEF Settled, RcvState, DataPDU, SeqNum
<1>2. /\ a \in RcvState
      /\ a.reassemblyPDUQ = r.reassemblyPDUQ \union {d}
      /\ a.rcvLeftWinEdge = n
      /\ a.maxSeqNumRcvd = r.maxSeqNumRcvd
      /\ a.thrown = r.thrown
  BY Adding DEF Settled, Queued
<1>3. n < d.seq /\ d.seq <= r.maxSeqNumRcvd
  BY DEF AmongGaps
<1>4. ~a.thrown /\ Bounded(a) /\ AtOrBeyond(a, n)
  BY <1>1, <1>2, <1>3 DEF Settled, Bounded, AtOrBeyond
<1>5. HandsUp(Handed(SvUpdate(a), SvUpdateOut(a)), n)
  BY <1>1, <1>2, <1>4, AddedAndUpdated
<1>6. HandsUp(Handed(e, <<>>), n)
  <2>1. /\ e \in RcvState
        /\ e.rcvLeftWinEdge = r.maxSeqNumRcvd
        /\ e.reassemblyPDUQ = a.reassemblyPDUQ
        /\ e.maxSeqNumRcvd = a.maxSeqNumRcvd
        /\ e.thrown = a.thrown
    BY <1>1, <1>2 DEF RcvState
  <2>2. ~e.thrown /\ Bounded(e) /\ AtOrBeyond(e, n) /\ e.rcvLeftWinEdge >= n
    BY <1>1, <1>3, <1>4, <2>1 DEF Bounded, AtOrBeyond
  <2> QED
    BY <1>1, <2>1, <2>2, HandedHandsUp
<1> QED
  BY <1>5, <1>6 DEF IntoGap

LEMMA NextInOrderHandsUp ==
    ASSUME NEW r, Settled(r), NEW d \in DataPDU, InOrder(r, d)
    PROVE  HandsUp(NextInOrder(r, d), r.rcvLeftWinEdge)
<1> DEFINE n == r.rcvLeftWinEdge
           m == [r EXCEPT !.maxSeqNumRcvd = @ + 1]
           a == AddToReassemblyQ(m, d)
           e == [a EXCEPT !.rcvLeftWinEdge = d.seq + 1]
           t == StartATimer(e, d.seq)
<1>1. MaxSeq \in Nat /\ n \in 0..(MaxSeq + 1) /\ r.maxSeqNumRcvd \in 0..MaxSeq /\ d.seq \in 0..MaxSeq
  BY QoSAssumption DEF Settled, RcvState, DataPDU, SeqNum
<1>2. n <= d.seq /\ d.seq = r.maxSeqNumRcvd + 1
  BY DEF InOrder
<1>3. /\ m \in RcvState
      /\ m.reassemblyPDUQ = r.reassemblyPDUQ
      /\ m.rcvLeftWinEdge = n
      /\ m.maxSeqNumRcvd = d.seq
      /\ m.thrown = r.thrown
  BY <1>1, <1>2 DEF Settled, RcvState, SeqNum
<1>4. d.seq \notin SeqNums(m.reassemblyPDUQ)
  <2>1. \A q \in r.reassemblyPDUQ : q.seq \in 0..MaxSeq /\ q.seq <= r.maxSeqNumRcvd
    BY DEF Settled, Bounded, RcvState, DataPDU, SeqNum
  <2> QED
    BY <1>1, <1>2, <1>3, <2>1 DEF SeqNums
<1>5. /\ a \in RcvState
      /\ a.reassemblyPDUQ = r.reassemblyPDUQ \union {d}
      /\ a.rcvLeftWinEdge = n
      /\ a.maxSeqNumRcvd = d.seq
      /\ a.thrown = r.thrown
  BY <1>3, <1>4, Adding
<1>6. \A q \in r.reassemblyPDUQ : q.seq \in 0..MaxSeq
  BY DEF Settled, RcvState, DataPDU, SeqNum
<1>7. ~a.thrown /\ Bounded(a) /\ AtOrBeyond(a, n)
  BY <1>1, <1>2, <1>5, <1>6 DEF Settled, Bounded, AtOrBeyond
<1>8. HandsUp(Handed(SvUpdate(a), SvUpdateOut(a)), n)
  BY <1>1, <1>5, <1>7, AddedAndUpdated
<1>9. HandsUp(Handed(t, <<>>), n)
  <2>1. /\ e \in RcvState
        /\ e.rcvLeftWinEdge = d.seq + 1
        /\ e.reassemblyPDUQ = a.reassemblyPDUQ
        /\ e.maxSeqNumRcvd = a.maxSeqNumRcvd
        /\ e.thrown = a.thrown
    BY <1>1, <1>5 DEF RcvState
  <2>2. Advances(e, t)
    BY <1>1, <2>1, StartATimerAdvances DEF SeqNum
  <2>3. t \in RcvState /\ ~t.thrown /\ Bounded(t) /\ AtOrBeyond(t, n)
    BY <1>7, <2>1, <2>2 DEF Advances, Bounded, AtOrBeyond
  <2>4. t.rcvLeftWinEdge >= n
    <3>1. t.rcvLeftWinEdge \in 0..(MaxSeq + 1)
      BY <2>3 DEF RcvState
    <3> QED
      BY <1>1, <1>2, <2>1, <2>2, <3>1 DEF Advances
  <2> QED
    BY <1>1, <2>3, <2>4, HandedHandsUp
<1> QED
  BY <1>8, <1>9 DEF NextInOrder

LEMMA BeyondGapHandsUp ==
    ASSUME NEW r, Settled(r), NEW d \in DataPDU, OutOfOrder(r, d)
    PROVE  HandsUp(BeyondGap(r, d), r.rcvLeftWinEdge)
<1> DEFINE n == r.rcvLeftWinEdge
           q == AddToReassemblyQ(r, d)
           a == SetMaxSeqNumRcvd(q, d.seq)
           t == StartATimer(a, d.seq)
<1>1. MaxSeq \in Nat /\ n \in 0..(MaxSeq + 1) /\ r.maxSeqNumRcvd \in 0..MaxSeq /\ d.seq \in 0..MaxSeq
  BY QoSAssumption DEF Settled, RcvState, DataPDU, SeqNum
<1>2. n <= d.seq /\ d.seq > r.maxSeqNumRcvd + 1
  BY DEF OutOfOrder
<1>3. \A p \in r.reassemblyPDUQ : p.seq \in 0..MaxSeq /\ p.seq <= r.maxSeqNumRcvd
  BY DEF Settled, Bounded, RcvState, DataPDU, SeqNum
<1>4. d.seq \notin SeqNums(r.reassemblyPDUQ)
  BY <1>1, <1>2, <1>3 DEF SeqNums
<1>5. /\ q \in RcvState
      /\ q.reassemblyPDUQ = r.reassemblyPDUQ \union {d}
      /\ q.rcvLeftWinEdge = n
      /\ q.maxSeqNumRcvd = r.maxSeqNumRcvd
      /\ q.thrown = r.thrown
  BY <1>4, Adding DEF Settled
<1>6. /\ a \in RcvState
      /\ a.reassemblyPDUQ = r.reassemblyPDUQ \union {d}
      /\ a.rcvLeftWinEdge = n
      /\ a.maxSeqNumRcvd = d.seq
      /\ a.thrown = r.thrown
  <2> HIDE DEF q
  <2>1. ~(q.maxSeqNumRcvd > d.seq)
    BY <1>1, <1>2, <1>5
  <2>2. a = [q EXCEPT !.maxSeqNumRcvd = d.seq]
    BY <1>5, <2>1 DEF SetMaxSeqNumRcvd, RcvState
  <2> HIDE DEF a
  <2> QED
    BY <1>1, <1>5, <2>2 DEF RcvState, SeqNum
<1>7. ~a.thrown /\ Bounded(a) /\ AtOrBeyond(a, n)
  BY <1>1, <1>2, <1>3, <1>6 DEF Settled, Bounded, AtOrBeyond
<1>8. HandsUp(Handed(SvUpdate(a), SvUpdateOut(a)), n)
  BY <1>1, <1>6, <1>7, AddedAndUpdated
<1>9. HandsUp(Handed(t, <<>>), n)
  <2>1. Advances(a, t)
    BY <1>1, <1>6, StartATimerAdvances DEF SeqNum
  <2>2. t \in RcvState /\ ~t.thrown /\ Bounded(t) /\ AtOrBeyond(t, n) /\ t.rcvLeftWinEdge >= n
    BY <1>6, <1>7, <2>1 DEF Advances, Bounded, AtOrBeyond
  <2> QED
    BY <1>1, <2>2, HandedHandsUp
<1> QED
  BY <1>8, <1>9 DEF BeyondGap

(* DRF: what an ordered flow hands up is this PDU alone, because nothing   *)
(* was left deliverable, and the new left edge is beyond it.               *)
LEMMA StartOfRunHandsUp ==
    ASSUME NEW r, Settled(r), NEW d \in DataPDU
    PROVE  /\ Settled(StartOfRun(r, d).st)
           /\ StartOfRun(r, d).up \subseteq DataPDU
           /\ ForceOrder => \A p \in StartOfRun(r, d).up :
                                 p.seq < StartOfRun(r, d).st.rcvLeftWinEdge
<1> DEFINE b == Delimit(r)
           e == [b EXCEPT !.reassemblyPDUQ = {}]
           m == SetMaxSeqNumRcvd(e, d.seq)
           f == [m EXCEPT !.rcvLeftWinEdge = d.seq + 1]
           a == AddToReassemblyQ(f, d)
           u == IF DtcpPresent THEN SvUpdate(a) ELSE a
<1>1. MaxSeq \in Nat /\ d.seq \in 0..MaxSeq
  BY QoSAssumption DEF DataPDU, SeqNum
<1>2. Settled(b) /\ Deliverable(r) \subseteq r.reassemblyPDUQ
  BY DelimitSettles DEF Settled
<1>3. e \in RcvState /\ e.reassemblyPDUQ = {} /\ ~e.thrown
  BY <1>2 DEF Settled, RcvState
<1>4. m \in RcvState /\ m.reassemblyPDUQ = {} /\ ~m.thrown /\ d.seq <= m.maxSeqNumRcvd
  <2> HIDE DEF e
  <2>1. e.maxSeqNumRcvd \in 0..MaxSeq
    BY <1>3 DEF RcvState, SeqNum
  <2> QED
    <3>1. \/ m = [e EXCEPT !.maxSeqNumRcvd = d.seq]
          \/ m = e /\ d.seq <= e.maxSeqNumRcvd
      BY <1>1, <1>3, <2>1 DEF SetMaxSeqNumRcvd, RcvState
    <3> HIDE DEF m
    <3> QED
      BY <1>1, <1>3, <2>1, <3>1 DEF RcvState, SeqNum
<1>5. f \in RcvState /\ f.reassemblyPDUQ = {} /\ ~f.thrown /\ d.seq <= f.maxSeqNumRcvd
  <2> HIDE DEF m
  <2> QED
    BY <1>1, <1>4 DEF RcvState
<1>6. a \in RcvState /\ ~a.thrown /\ Bounded(a)
  <2> HIDE DEF f
  <2>1. d.seq \notin SeqNums(f.reassemblyPDUQ)
    BY <1>5 DEF SeqNums
  <2>2. /\ a \in RcvState
        /\ a.reassemblyPDUQ = f.reassemblyPDUQ \union {d}
        /\ a.maxSeqNumRcvd = f.maxSeqNumRcvd
        /\ a.thrown = f.thrown
    BY <1>5, <2>1, Adding
  <2> HIDE DEF a
  <2> QED
    BY <1>5, <2>2 DEF Bounded
<1>7. u \in RcvState /\ ~u.thrown /\ Bounded(u)
  <2> HIDE DEF a
  <2>1. Advances(a, SvUpdate(a))
    BY <1>6, SvUpdateAdvances
  <2> QED
    BY <1>6, <2>1 DEF Advances, Bounded
<1>8. /\ StartOfRun(r, d).st = Delimit(u)
      /\ StartOfRun(r, d).up = Deliverable(r) \union Deliverable(u)
  BY DEF StartOfRun, Outcome
<1>9. ForceOrder => Deliverable(r) = {}
  <2>1. r.rcvLeftWinEdge \in Nat /\ \A p \in r.reassemblyPDUQ : p.seq \in Nat
    BY <1>1 DEF Settled, RcvState, DataPDU, SeqNum
  <2> QED
    BY <2>1 DEF Settled, AtOrBeyond, Deliverable
<1>10. r.reassemblyPDUQ \subseteq DataPDU /\ u.reassemblyPDUQ \subseteq DataPDU
  BY <1>7 DEF Settled, RcvState
<1>11. /\ Settled(Delimit(u))
       /\ Delimit(u).rcvLeftWinEdge = u.rcvLeftWinEdge
       /\ Deliverable(u) \subseteq u.reassemblyPDUQ
       /\ ForceOrder => \A p \in Deliverable(u) : p.seq < u.rcvLeftWinEdge
  <2> HIDE DEF u
  <2> QED
    BY <1>7, DelimitSettles
<1> HIDE DEF u
<1> QED
  BY <1>2, <1>8, <1>9, <1>10, <1>11

LEMMA DroppingHandsUp ==
    ASSUME NEW r, Settled(r), NEW out
    PROVE  HandsUp(Outcome(r, {}, out), r.rcvLeftWinEdge)
<1>1. r.rcvLeftWinEdge \in Nat
  BY QoSAssumption DEF Settled, RcvState
<1> QED
  BY <1>1 DEF HandsUp, Outcome

(* A PDU without DRF, whichever case it falls in. *)
LEMMA ReceiveHandsUp ==
    ASSUME NEW r, Settled(r), NEW d \in DataPDU, ~d.drf
    PROVE  HandsUp(Receive(r, d), r.rcvLeftWinEdge)
<1> DEFINE n == r.rcvLeftWinEdge
<1>1. HandsUp(DropDuplicate(r), n) /\ HandsUp(Outcome(r, {}, <<>>), n)
  BY DroppingHandsUp DEF DropDuplicate
<1>2. AmongGaps(r, d) /\ ~Queued(r, d) => HandsUp(IntoGap(r, d), n)
  BY IntoGapHandsUp
<1>3. InOrder(r, d) => HandsUp(NextInOrder(r, d), n)
  BY NextInOrderHandsUp
<1>4. OutOfOrder(r, d) => HandsUp(BeyondGap(r, d), n)
  BY BeyondGapHandsUp
<1>5. \/ Receive(r, d) = DropDuplicate(r)
      \/ AmongGaps(r, d) /\ ~Queued(r, d) /\ Receive(r, d) = IntoGap(r, d)
      \/ InOrder(r, d) /\ Receive(r, d) = NextInOrder(r, d)
      \/ OutOfOrder(r, d) /\ Receive(r, d) = BeyondGap(r, d)
      \/ Receive(r, d) = Outcome(r, {}, <<>>)
  BY DEF Receive
<1> QED
  BY <1>1, <1>2, <1>3, <1>4, <1>5

LEMMA ATimerHandsUp ==
    ASSUME NEW r, Settled(r), NEW n \in SeqNum, r.aTimers[n] > 0
    PROVE  HandsUp(ATimerFired(r, n), r.rcvLeftWinEdge)
<1> DEFINE l == r.rcvLeftWinEdge
           f == [r EXCEPT !.aTimers[n] = @ - 1]
           u == UpdateRcvLWE(f)
           e == [f EXCEPT !.rcvLeftWinEdge = IF @ > n THEN @ ELSE n]
<1>1. MaxSeq \in Nat /\ l \in 0..(MaxSeq + 1) /\ n \in 0..MaxSeq
  BY QoSAssumption DEF Settled, RcvState, SeqNum
<1>2. /\ f \in RcvState
      /\ f.rcvLeftWinEdge = l
      /\ f.reassemblyPDUQ = r.reassemblyPDUQ
      /\ f.maxSeqNumRcvd = r.maxSeqNumRcvd
      /\ f.thrown = r.thrown
  <2>1. r.aTimers \in [SeqNum -> Nat]
    BY DEF Settled, RcvState
  <2>2. [r.aTimers EXCEPT ![n] = @ - 1] \in [SeqNum -> Nat]
    BY <2>1
  <2> QED
    BY <2>2 DEF Settled, RcvState
<1> HIDE DEF f
<1>3. ~f.thrown /\ Bounded(f) /\ AtOrBeyond(f, l)
  BY <1>2 DEF Settled, Bounded, AtOrBeyond
<1>4. HandsUp(Handed(u, <<>>), l)
  <2>1. Advances(f, u)
    BY <1>2, UpdateAdvances
  <2>2. u \in RcvState /\ ~u.thrown /\ Bounded(u) /\ AtOrBeyond(u, l) /\ u.rcvLeftWinEdge >= l
    BY <1>2, <1>3, <2>1 DEF Advances, Bounded, AtOrBeyond
  <2> QED
    BY <1>1, <2>2, HandedHandsUp
<1>5. HandsUp(Handed(e, <<>>), l)
  <2>1. /\ e \in RcvState
        /\ e.rcvLeftWinEdge >= l
        /\ e.reassemblyPDUQ = f.reassemblyPDUQ
        /\ e.maxSeqNumRcvd = f.maxSeqNumRcvd
        /\ e.thrown = f.thrown
    BY <1>1, <1>2 DEF RcvState
  <2>2. ~e.thrown /\ Bounded(e) /\ AtOrBeyond(e, l)
    BY <1>3, <2>1 DEF Bounded, AtOrBeyond
  <2> QED
    BY <1>1, <2>1, <2>2, HandedHandsUp
<1> QED
  BY <1>4, <1>5 DEF ATimerFired, f

-----------------------------------------------------------------------------
(* The invariant: initially, then one lemma per action of Next. *)

LEMMA InitIInv == Init => IInv
<1> SUFFICES ASSUME Init PROVE IInv
  OBVIOUS
<1>1. InitRcv \in RcvState
  BY QoSAssumption, ReceiverAssumption DEF InitRcv, RcvState, SeqNum
<1>2. Settled(InitRcv)
  BY <1>1 DEF Settled, Bounded, AtOrBeyond, InitRcv
<1> QED
  BY <1>2 DEF Init, IInv, Within

(* What a step that stays in the run does to the history. *)
LEMMA StaysInRun ==
    ASSUME IInv, NEW o, HandsUp(o, rcv.rcvLeftWinEdge), Becomes(o, FALSE)
    PROVE  /\ IInv'
           /\ rcv'.rcvLeftWinEdge >= rcv.rcvLeftWinEdge
           /\ ForceOrder => \A n \in delivered' \ delivered : \A m \in delivered : m < n
<1> DEFINE l == rcv.rcvLeftWinEdge
           e == rcv'.rcvLeftWinEdge
<1>1. /\ rcv' = o.st
      /\ newRun' = FALSE
      /\ delivered' = delivered \union SeqNums(o.up)
      /\ repeated' = (repeated \/ SeqNums(o.up) \intersect delivered # {})
  BY DEF Becomes
<1>2. Settled(rcv') /\ e >= l
  BY <1>1 DEF HandsUp
<1>3. SeqNums(o.up) \subseteq SeqNum
  BY DEF HandsUp, SeqNums, DataPDU
<1>4. MaxSeq \in Nat /\ l \in 0..(MaxSeq + 1) /\ e \in 0..(MaxSeq + 1)
  BY <1>2, QoSAssumption DEF IInv, Settled, RcvState
<1>5. delivered \subseteq 0..MaxSeq /\ SeqNums(o.up) \subseteq 0..MaxSeq
  BY <1>3 DEF IInv, SeqNum
<1>6. ForceOrder => \A n \in SeqNums(o.up) : l <= n /\ n < e
  BY <1>1 DEF HandsUp, SeqNums
<1>7. ForceOrder => Within(delivered, l) /\ ~repeated
  BY DEF IInv
<1>8. ForceOrder => Within(delivered', e) /\ ~repeated'
  <2> SUFFICES ASSUME ForceOrder PROVE Within(delivered', e) /\ ~repeated'
    OBVIOUS
  <2>1. \A n \in delivered : n < l
    BY <1>7 DEF Within
  <2>2. \A n \in delivered' : n < e
    BY <1>1, <1>2, <1>4, <1>5, <1>6, <2>1
  <2>3. SeqNums(o.up) \intersect delivered = {}
    BY <1>4, <1>5, <1>6, <2>1
  <2> QED
    BY <1>1, <1>7, <2>2, <2>3 DEF Within
<1>9. ForceOrder => \A n \in delivered' \ delivered : \A m \in delivered : m < n
  BY <1>1, <1>4, <1>5, <1>6, <1>7 DEF Within
<1>10. delivered' \subseteq SeqNum /\ newRun' \in BOOLEAN /\ repeated' \in BOOLEAN
  BY <1>1, <1>3 DEF IInv
<1> QED
  BY <1>2, <1>8, <1>9, <1>10 DEF IInv

(* What a step that starts a run does to the history. *)
LEMMA StartsRun ==
    ASSUME IInv, NEW d \in DataPDU, d.drf, Becomes(Receive(rcv, d), d.drf)
    PROVE  IInv' /\ newRun'
<1> DEFINE o == StartOfRun(rcv, d)
<1>1. /\ rcv' = o.st
      /\ newRun' = TRUE
      /\ delivered' = SeqNums(o.up)
      /\ repeated' = repeated
  <2>1. Receive(rcv, d) = o
    BY DEF Receive, BehindLeftEdge, AmongGaps, InOrder, OutOfOrder
  <2>2. d.drf = TRUE
    BY DEF DataPDU
  <2> QED
    BY <2>1, <2>2 DEF Becomes, IInv
<1>2. /\ Settled(o.st)
      /\ o.up \subseteq DataPDU
      /\ ForceOrder => \A p \in o.up : p.seq < o.st.rcvLeftWinEdge
  BY StartOfRunHandsUp DEF IInv
<1> HIDE DEF o
<1>3. delivered' \subseteq SeqNum
  BY <1>1, <1>2 DEF SeqNums, DataPDU
<1>4. ForceOrder => Within(delivered', rcv'.rcvLeftWinEdge)
  BY <1>1, <1>2 DEF SeqNums, Within
<1> QED
  BY <1>1, <1>2, <1>3, <1>4 DEF IInv

LEMMA StepIInv ==
    ASSUME IInv, [Next]_vars
    PROVE  /\ IInv'
           /\ ForceOrder /\ ~newRun' =>
                 \A n \in delivered' \ delivered : \A m \in delivered : m < n
           /\ vars' # vars /\ ~newRun' => rcv'.rcvLeftWinEdge >= rcv.rcvLeftWinEdge
<1>1. ASSUME NEW d \in Sendable, ReceiveData(d), d.drf
      PROVE  IInv' /\ newRun'
  BY <1>1, StartsRun DEF ReceiveData, Sendable
<1>2. ASSUME NEW d \in Sendable, ReceiveData(d), ~d.drf
      PROVE  /\ IInv'
             /\ rcv'.rcvLeftWinEdge >= rcv.rcvLeftWinEdge
             /\ ForceOrder => \A n \in delivered' \ delivered : \A m \in delivered : m < n
  <2>1. HandsUp(Receive(rcv, d), rcv.rcvLeftWinEdge)
    BY <1>2, ReceiveHandsUp DEF IInv, Sendable
  <2>2. Becomes(Receive(rcv, d), FALSE)
    BY <1>2 DEF ReceiveData, Sendable, DataPDU
  <2> QED
    BY <2>1, <2>2, StaysInRun
<1>3. ASSUME NEW n \in SeqNum, ATimerExpires(n)
      PROVE  /\ IInv'
             /\ rcv'.rcvLeftWinEdge >= rcv.rcvLeftWinEdge
             /\ ForceOrder => \A i \in delivered' \ delivered : \A m \in delivered : m < i
  <2>1. HandsUp(ATimerFired(rcv, n), rcv.rcvLeftWinEdge)
    BY <1>3, ATimerHandsUp DEF IInv, ATimerExpires
  <2>2. Becomes(ATimerFired(rcv, n), FALSE)
    BY <1>3 DEF ATimerExpires
  <2> QED
    BY <2>1, <2>2, StaysInRun
<1>4. CASE UNCHANGED vars
  BY <1>4 DEF IInv, Within, vars
<1> QED
  BY <1>1, <1>2, <1>3, <1>4 DEF Next

-----------------------------------------------------------------------------
(* The results. *)

(* The invariant holds in every reachable state. *)
THEOREM Invariance == Spec => []IInv
<1>1. IInv /\ [Next]_vars => IInv'
  BY StepIInv
<1> QED
  BY InitIInv, <1>1, PTL DEF Spec

(* Type correctness, for every QoS cube and every bound. *)
THEOREM TypeCorrectness == Spec => []TypeOK
<1>1. IInv => TypeOK
  BY DEF IInv, Settled, TypeOK
<1> QED
  BY Invariance, <1>1, PTL

(* No arrival order makes addPDUToReassemblyQ throw. *)
THEOREM ThrowsNothing == Spec => []NeverThrown
<1>1. IInv => NeverThrown
  BY DEF IInv, Settled, NeverThrown
<1> QED
  BY Invariance, <1>1, PTL

(* The reassembly queue stays between the left edge and the highest number *)
(* received.                                                               *)
THEOREM QueueStaysWithinEdges == Spec => []QueueWithinEdges
<1>1. IInv => QueueWithinEdges
  BY DEF IInv, Settled, Bounded, AtOrBeyond, QueueWithinEdges
<1> QED
  BY Invariance, <1>1, PTL

(* No PDU of an ordered flow goes up twice within a run. *)
THEOREM RepeatsNothing == Spec => []NoRepeatInRun
<1>1. IInv => NoRepeatInRun
  BY DEF IInv, NoRepeatInRun
<1> QED
  BY Invariance, <1>1, PTL

(* Within a run an ordered flow hands PDUs up in the order of their        *)
(* sequence numbers, whatever order they arrive in.                        *)
THEOREM HandsUpInOrder == Spec => InOrderInRun
<1> DEFINE A == ForceOrder /\ ~newRun' =>
                  \A n \in delivered' \ delivered : \A m \in delivered : m < n
<1>1. IInv /\ [Next]_vars => [A]_vars
  BY StepIInv
<1> QED
  BY Invariance, <1>1, PTL DEF Spec, InOrderInRun

(* Within a run the left edge, and so the acknowledgements, never go back. *)
THEOREM NeverWithdrawsAcks == Spec => EdgeMonotone
<1> DEFINE A == ~newRun' => rcv'.rcvLeftWinEdge >= rcv.rcvLeftWinEdge
<1>1. IInv /\ [Next]_vars => [A]_vars
  BY StepIInv
<1> QED
  BY Invariance, <1>1, PTL DEF Spec, EdgeMonotone

-----------------------------------------------------------------------------
(* What the second update of the left edge is for: with immediate acks the *)
(* first one may stop at a queued PDU, and the second moves past it.       *)

NoTimers(r) == \A n \in SeqNum : r.aTimers[n] = 0

Unstranded(r) ==
    RxOn /\ Immediate =>
        /\ r.rcvLeftWinEdge \notin SeqNums(r.reassemblyPDUQ)
        /\ NoTimers(r)

(* The least number that is missing is missing. *)
LEMMA NextMissingIsMissing ==
    ASSUME NEW Q \in SUBSET DataPDU, NEW n \in 0..(MaxSeq + 1)
    PROVE  NextMissing(Q, n) \notin SeqNums(Q)
<1> DEFINE T == {m \in n..(MaxSeq + 1) : m \notin SeqNums(Q)}
<1>1. MaxSeq \in Nat
  BY QoSAssumption
<1>2. MaxSeq + 1 \in T
  BY <1>1 DEF SeqNums, DataPDU, SeqNum
<1>3. T \in SUBSET Nat
  BY <1>1
<1>4. Min(T) \in T
  <2> HIDE DEF T
  <2> QED
    BY <1>2, <1>3, MinOfNats
<1> QED
  BY <1>4 DEF NextMissing

(* An update from a queue that reaches the edge, or leaves it where it is, *)
(* ends at a missing number; the only other outcome is a jump to the front *)
(* of the queue, from which another update does.                           *)
LEMMA UpdatedTwice ==
    ASSUME NEW r \in RcvState, NEW s \in RcvState,
           s.reassemblyPDUQ = r.reassemblyPDUQ,
           s.lastSDUDelivered = r.lastSDUDelivered,
           s.rcvLeftWinEdge = LeftEdgeAfter(r)
    PROVE  LeftEdgeAfter(s) \notin SeqNums(s.reassemblyPDUQ)
<1> DEFINE Q == r.reassemblyPDUQ
           n == r.rcvLeftWinEdge
           m == s.rcvLeftWinEdge
           near == \E d \in Q : /\ \A e \in Q : d.seq <= e.seq
                                /\ SDUSeqNumOf(d) <= r.lastSDUDelivered + MaxAllowGap
<1>1. /\ MaxSeq \in Nat /\ Q \in SUBSET DataPDU
      /\ n \in 0..(MaxSeq + 1) /\ m \in 0..(MaxSeq + 1)
      /\ \A d \in Q : d.seq \in Nat
  BY QoSAssumption DEF RcvState, DataPDU, SeqNum
<1>2. m >= n
  BY <1>1, LeftEdgeAdvances
<1>3. ASSUME \E d \in Q : d.seq <= m
      PROVE  LeftEdgeAfter(s) \notin SeqNums(Q)
  <2>1. LeftEdgeAfter(s) = NextMissing(Q, m)
    BY <1>3 DEF LeftEdgeAfter
  <2> QED
    BY <1>1, <2>1, NextMissingIsMissing
<1>4. CASE \E d \in Q : d.seq <= n
  BY <1>1, <1>2, <1>3, <1>4
<1>5. CASE ~(\E d \in Q : d.seq <= n) /\ near
  <2>1. m = Min(SeqNums(Q))
    BY <1>5 DEF LeftEdgeAfter
  <2>2. SeqNums(Q) \in SUBSET Nat /\ SeqNums(Q) # {}
    BY <1>1, <1>5 DEF SeqNums
  <2>3. m \in SeqNums(Q)
    BY <2>1, <2>2, MinOfNats
  <2>4. \E d \in Q : d.seq <= m
    BY <1>1, <2>3 DEF SeqNums
  <2> QED
    BY <1>3, <2>4
<1>6. CASE ~(\E d \in Q : d.seq <= n) /\ ~near
  <2>1. m = n
    BY <1>6 DEF LeftEdgeAfter
  <2>2. LeftEdgeAfter(s) = n
    BY <1>6, <2>1 DEF LeftEdgeAfter
  <2> QED
    BY <1>1, <1>6, <2>2 DEF SeqNums
<1> QED
  BY <1>4, <1>5, <1>6

LEMMA SvUpdateUnstrands ==
    ASSUME NEW r \in RcvState, NoTimers(r)
    PROVE  SvUpdate(r) \in RcvState /\ Unstranded(SvUpdate(r))
<1> DEFINE u == UpdateRcvLWE(r)
           c == Credited(r)
           t == SvUpdate(r)
<1>1. t \in RcvState
  BY SvUpdateAdvances DEF Advances
<1>2. ASSUME RxOn, Immediate
      PROVE  t.rcvLeftWinEdge \notin SeqNums(t.reassemblyPDUQ) /\ NoTimers(t)
  <2>1. /\ u \in RcvState
        /\ u.reassemblyPDUQ = r.reassemblyPDUQ
        /\ u.lastSDUDelivered = r.lastSDUDelivered
        /\ u.rcvLeftWinEdge = LeftEdgeAfter(r)
        /\ u.aTimers = r.aTimers
    <3>1. u \in RcvState
      BY UpdateAdvances DEF Advances
    <3> QED
      BY <3>1 DEF UpdateRcvLWE, RcvState
  <2>2. /\ c \in RcvState
        /\ c.reassemblyPDUQ = r.reassemblyPDUQ
        /\ c.lastSDUDelivered = r.lastSDUDelivered
        /\ c.rcvLeftWinEdge = LeftEdgeAfter(r)
        /\ c.aTimers = r.aTimers
    BY <2>1 DEF Credited, RcvState
  <2>3. t = UpdateRcvLWE(c)
    BY <1>2 DEF SvUpdate
  <2>4. LeftEdgeAfter(c) \notin SeqNums(c.reassemblyPDUQ)
    BY <2>2, UpdatedTwice
  <2>5. /\ t.rcvLeftWinEdge = LeftEdgeAfter(c)
        /\ t.reassemblyPDUQ = c.reassemblyPDUQ
        /\ t.aTimers = c.aTimers
    <3> HIDE DEF c, t
    <3> QED
      BY <2>2, <2>3 DEF UpdateRcvLWE, RcvState
  <2> QED
    BY <2>2, <2>4, <2>5 DEF NoTimers
<1> QED
  BY <1>1, <1>2 DEF Unstranded

(* Delimiting takes PDUs out of the queue and leaves the edge. *)
LEMMA DelimitUnstranded ==
    ASSUME NEW r \in RcvState, Unstranded(r)
    PROVE  Unstranded(Delimit(r))
<1>1. /\ Delimit(r).rcvLeftWinEdge = r.rcvLeftWinEdge
      /\ Delimit(r).reassemblyPDUQ \subseteq r.reassemblyPDUQ
      /\ Delimit(r).aTimers = r.aTimers
  BY DEF Delimit, RcvState
<1> QED
  BY <1>1 DEF Unstranded, SeqNums, NoTimers

LEMMA HandedUnstranded ==
    ASSUME NEW r \in RcvState, NoTimers(r), NEW out
    PROVE  Unstranded(Handed(SvUpdate(r), out).st)
<1>1. Unstranded(Delimit(SvUpdate(r)))
  BY SvUpdateUnstrands, DelimitUnstranded
<1> QED
  BY <1>1 DEF Handed, Outcome

(* No case of handleDataTransferPDUFromRMT strands the head of the queue.  *)
LEMMA ReceiveUnstranded ==
    ASSUME NEW r, Settled(r), Unstranded(r), NEW d \in DataPDU
    PROVE  Unstranded(Receive(r, d).st)
<1> SUFFICES ASSUME RxOn, Immediate
             PROVE  Unstranded(Receive(r, d).st)
  BY DEF Unstranded
<1>1. /\ r \in RcvState /\ NoTimers(r) /\ DtcpPresent
      /\ MaxSeq \in Nat /\ d.seq \in 0..MaxSeq
  BY QoSAssumption DEF Settled, Unstranded, DtcpPresent, DataPDU, SeqNum
<1>2. ASSUME NEW a \in RcvState, a.aTimers = r.aTimers, d.seq \notin SeqNums(a.reassemblyPDUQ)
      PROVE  AddToReassemblyQ(a, d) \in RcvState /\ NoTimers(AddToReassemblyQ(a, d))
  <2>1. AddToReassemblyQ(a, d) = [a EXCEPT !.reassemblyPDUQ = @ \union {d}]
    BY <1>2 DEF AddToReassemblyQ
  <2>2. AddToReassemblyQ(a, d) \in RcvState /\ AddToReassemblyQ(a, d).aTimers = a.aTimers
    BY <2>1 DEF RcvState
  <2> QED
    BY <1>1, <1>2, <2>2 DEF NoTimers
<1>3. CASE d.drf
  <2> DEFINE b == Delimit(r)
             e == [b EXCEPT !.reassemblyPDUQ = {}]
             f == SetMaxSeqNumRcvd(e, d.seq)
             g == [f EXCEPT !.rcvLeftWinEdge = d.seq + 1]
             a == AddToReassemblyQ(g, d)
  <2>1. b \in RcvState /\ b.aTimers = r.aTimers
    BY <1>1 DEF Delimit, RcvState
  <2>2. e \in RcvState /\ e.aTimers = r.aTimers /\ e.reassemblyPDUQ = {}
    <3> HIDE DEF b
    <3> QED
      BY <2>1 DEF RcvState
  <2>3. f \in RcvState /\ f.aTimers = r.aTimers /\ f.reassemblyPDUQ = {}
    <3> HIDE DEF e
    <3> QED
      BY <1>1, <2>2 DEF SetMaxSeqNumRcvd, RcvState, SeqNum
  <2>4. g \in RcvState /\ g.aTimers = r.aTimers /\ g.reassemblyPDUQ = {}
    <3> HIDE DEF f
    <3> QED
      BY <1>1, <2>3 DEF RcvState
  <2>5. a \in RcvState /\ NoTimers(a)
    <3> HIDE DEF g
    <3> QED
      BY <1>2, <2>4 DEF SeqNums
  <2>6. StartOfRun(r, d).st = Delimit(SvUpdate(a))
    BY <1>1 DEF StartOfRun, Outcome
  <2>7. Unstranded(Delimit(SvUpdate(a)))
    BY <2>5, SvUpdateUnstrands, DelimitUnstranded
  <2>8. Receive(r, d) = StartOfRun(r, d)
    BY <1>3 DEF Receive, BehindLeftEdge, AmongGaps, InOrder, OutOfOrder
  <2> QED
    BY <2>6, <2>7, <2>8
<1>4. CASE ~d.drf
  <2>1. Unstranded(DropDuplicate(r).st) /\ Unstranded(Outcome(r, {}, <<>>).st)
    BY DEF DropDuplicate, Outcome
  <2>2. AmongGaps(r, d) /\ ~Queued(r, d) => Unstranded(IntoGap(r, d).st)
    <3> SUFFICES ASSUME ~Queued(r, d)
                 PROVE  Unstranded(IntoGap(r, d).st)
      OBVIOUS
    <3>1. AddToReassemblyQ(r, d) \in RcvState /\ NoTimers(AddToReassemblyQ(r, d))
      BY <1>1, <1>2 DEF Queued
    <3>2. IntoGap(r, d) = Handed(SvUpdate(AddToReassemblyQ(r, d)),
                                 SvUpdateOut(AddToReassemblyQ(r, d)))
      BY <1>1 DEF IntoGap
    <3> QED
      BY <3>1, <3>2, HandedUnstranded
  <2>3. InOrder(r, d) => Unstranded(NextInOrder(r, d).st)
    <3> SUFFICES ASSUME InOrder(r, d)
                 PROVE  Unstranded(NextInOrder(r, d).st)
      OBVIOUS
    <3> DEFINE m == [r EXCEPT !.maxSeqNumRcvd = @ + 1]
               a == AddToReassemblyQ(m, d)
    <3>1. r.maxSeqNumRcvd \in Nat /\ d.seq = r.maxSeqNumRcvd + 1
      BY <1>1 DEF InOrder, RcvState, SeqNum
    <3>2. m \in RcvState /\ m.aTimers = r.aTimers /\ m.reassemblyPDUQ = r.reassemblyPDUQ
      BY <1>1, <3>1 DEF RcvState, SeqNum
    <3>3. d.seq \notin SeqNums(r.reassemblyPDUQ)
      BY <1>1, <3>1 DEF Settled, Bounded, SeqNums, RcvState, DataPDU, SeqNum
    <3>4. a \in RcvState /\ NoTimers(a)
      <4> HIDE DEF m
      <4> QED
        BY <1>2, <3>2, <3>3
    <3>5. NextInOrder(r, d) = Handed(SvUpdate(a), SvUpdateOut(a))
      BY <1>1 DEF NextInOrder
    <3> QED
      BY <3>4, <3>5, HandedUnstranded
  <2>4. OutOfOrder(r, d) => Unstranded(BeyondGap(r, d).st)
    <3> SUFFICES ASSUME OutOfOrder(r, d)
                 PROVE  Unstranded(BeyondGap(r, d).st)
      OBVIOUS
    <3> DEFINE q == AddToReassemblyQ(r, d)
               a == SetMaxSeqNumRcvd(q, d.seq)
    <3>1. d.seq > r.maxSeqNumRcvd + 1 /\ r.maxSeqNumRcvd \in Nat
      BY <1>1 DEF OutOfOrder, RcvState, SeqNum
    <3>2. d.seq \notin SeqNums(r.reassemblyPDUQ)
      BY <1>1, <3>1 DEF Settled, Bounded, SeqNums, RcvState, DataPDU, SeqNum
    <3>3. q \in RcvState /\ NoTimers(q)
      BY <1>1, <1>2, <3>2
    <3>4. a \in RcvState /\ NoTimers(a)
      <4> HIDE DEF q
      <4> QED
        BY <1>1, <3>3 DEF SetMaxSeqNumRcvd, RcvState, SeqNum, NoTimers
    <3>5. BeyondGap(r, d) = Handed(SvUpdate(a), SvUpdateOut(a))
      BY <1>1 DEF BeyondGap
    <3> QED
      BY <3>4, <3>5, HandedUnstranded
  <2> QED
    BY <1>4, <2>1, <2>2, <2>3, <2>4 DEF Receive
<1> QED
  BY <1>3, <1>4

(* With retransmission and immediate acks a PDU that continues what went   *)
(* up does not wait in the queue for another event: there is no A-timer,   *)
(* and no arrival leaves it there.                                         *)
THEOREM HeadIsNeverStranded == Spec => []HeadNotStranded
<1>1. Init => Unstranded(rcv)
  BY DEF Init, InitRcv, Unstranded, SeqNums, NoTimers
<1>2. IInv /\ Unstranded(rcv) /\ [Next]_vars => Unstranded(rcv)'
  <2> SUFFICES ASSUME IInv, Unstranded(rcv), [Next]_vars
               PROVE  Unstranded(rcv')
    BY DEF Unstranded, NoTimers
  <2>1. ASSUME NEW d \in Sendable, ReceiveData(d)
        PROVE  Unstranded(rcv')
    <3>1. rcv' = Receive(rcv, d).st
      BY <2>1 DEF ReceiveData, Becomes
    <3> QED
      BY <3>1, ReceiveUnstranded DEF IInv, Sendable
  <2>2. ASSUME NEW n \in SeqNum, ATimerExpires(n)
        PROVE  Unstranded(rcv')
    BY <2>2 DEF ATimerExpires, Unstranded, NoTimers
  <2>3. CASE UNCHANGED vars
    BY <2>3 DEF vars
  <2> QED
    BY <2>1, <2>2, <2>3 DEF Next
<1>3. Unstranded(rcv) => HeadNotStranded
  BY DEF Unstranded, HeadNotStranded
<1> QED
  BY Invariance, <1>1, <1>2, <1>3, PTL DEF Spec
=============================================================================
