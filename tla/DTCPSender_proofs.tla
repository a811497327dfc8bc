-------------------------- MODULE DTCPSender_proofs --------------------------
(***************************************************************************)
(* Proofs about the sending half of an EFCP instance, for every QoS cube,  *)
(* credit, queue length and whatever the peer says. IInv is about the      *)
(* sender's record, so that it can be carried through the steps a handler  *)
(* is made of: numbering, acknowledging, releasing, posting.               *)
(***************************************************************************)
EXTENDS DTCPSender, TLAPS, WellFoundedInduction

(* A non-empty set of naturals has a least element, and Min finds it. *)
LEMMA MinOfNats ==
    ASSUME NEW T \in SUBSET Nat, T # {}
    PROVE  Min(T) \in T /\ \A x \in T : Min(T) <= x
<1>1. IsWellFoundedOn(OpToRel(<, Nat), Nat)
  BY NatLessThanWellFounded
<1>2. PICK x \in T : \A y \in T : ~(<<y, x>> \in OpToRel(<, Nat))
  BY <1>1, WFMin
<1>3. \A y \in T : x <= y
  <2> SUFFICES ASSUME NEW y \in T, y < x PROVE FALSE
    OBVIOUS
  <2>1. <<y, x>> \in OpToRel(<, Nat)
    BY DEF OpToRel
  <2> QED
    BY <2>1, <1>2
<1> QED
  BY <1>2, <1>3 DEF Min

(* Numbers wrap at Modulus. *)
LEMMA Wrapped ==
    ASSUME NEW n \in Int
    PROVE  /\ UInt(n) \in 0..(Modulus - 1)
           /\ n \in 0..(Modulus - 1) => UInt(n) = n
<1>1. Modulus \in Nat /\ Modulus > 0
  BY QoSAssumption
<1> QED
  BY <1>1 DEF UInt

(* The window lets out a prefix of a queue, up to the first PDU beyond it. *)
LEMMA OpenPrefixStops ==
    ASSUME NEW q \in Seq(DataPDU), NEW edge \in Nat
    PROVE  /\ OpenPrefix(q, edge) \in 0..Len(q)
           /\ OpenPrefix(q, edge) < Len(q) => q[OpenPrefix(q, edge) + 1].seq > edge
           /\ q # <<>> /\ q[1].seq > edge => OpenPrefix(q, edge) = 0
<1> DEFINE T == {j \in 0..Len(q) : j < Len(q) => q[j + 1].seq > edge}
<1>1. Len(q) \in T /\ T \in SUBSET Nat
  OBVIOUS
<1>2. Min(T) \in T /\ \A x \in T : Min(T) <= x
  <2> HIDE DEF T
  <2> QED
    BY <1>1, MinOfNats
<1>3. q # <<>> /\ q[1].seq > edge => 0 \in T
  OBVIOUS
<1>4. OpenPrefix(q, edge) = Min(T)
  BY DEF OpenPrefix
<1> QED
  BY <1>2, <1>3, <1>4

-----------------------------------------------------------------------------
(* The queue of kept PDUs. *)

(* The least turn is somebody's. *)
LEMMA FirstInTurn ==
    ASSUME NEW Q \in SUBSET RxEntry, Q # {}
    PROVE  (CHOOSE e \in Q : \A f \in Q : e.turn <= f.turn) \in Q
<1> DEFINE T == {e.turn : e \in Q}
<1>1. T \in SUBSET Nat /\ T # {}
  BY DEF RxEntry
<1>2. Min(T) \in T /\ \A x \in T : Min(T) <= x
  <2> HIDE DEF T
  <2> QED
    BY <1>1, MinOfNats
<1>3. \E e \in Q : \A f \in Q : e.turn <= f.turn
  BY <1>2
<1> QED
  BY <1>3

LEMMA UpdatedSndLWE ==
    ASSUME NEW s \in SndState, NEW n \in 0..(Modulus - 1)
    PROVE  \E e \in 0..(Modulus - 1) : UpdateSndLWE(s, n) = [s EXCEPT !.senderLeftWinEdge = e]
<1>1. CASE s.rxQ = {}
  BY <1>1 DEF UpdateSndLWE
<1>2. CASE s.rxQ # {}
  <2> DEFINE first == CHOOSE e \in s.rxQ : \A f \in s.rxQ : e.turn <= f.turn
  <2>1. s.rxQ \in SUBSET RxEntry
    BY DEF SndState
  <2>2. first \in s.rxQ
    BY <1>2, <2>1, FirstInTurn
  <2>3. first.pdu.seq \in 0..(Modulus - 1)
    <3>1. first.pdu.seq \in 0..MaxSeq
      BY <2>1, <2>2 DEF RxEntry, DataPDU, SeqNum
    <3> QED
      BY <3>1, QoSAssumption
  <2>4. UpdateSndLWE(s, n) = [s EXCEPT !.senderLeftWinEdge = first.pdu.seq]
    BY <1>2 DEF UpdateSndLWE
  <2> QED
    BY <2>3, <2>4
<1> QED
  BY <1>1, <1>2

LEMMA Fields ==
    ASSUME NEW s \in SndState
    PROVE  /\ s.nextSeqNumToSend \in Nat /\ s.nextSeqNumToSend >= 1
           /\ s.nextSeqNumToSend <= MaxSeq + 1
           /\ s.closedWindowQ \in Seq(DataPDU) /\ Len(s.closedWindowQ) \in Nat
           /\ s.rxQ \in SUBSET RxEntry
           /\ s.rxTurn \in Nat /\ s.sndRtWinEdge \in Nat
           /\ \A e \in s.rxQ : e.turn \in Nat /\ e.pdu \in DataPDU /\ e.pdu.seq \in Nat
           /\ \A i \in 1..Len(s.closedWindowQ) :
                 s.closedWindowQ[i] \in DataPDU /\ s.closedWindowQ[i].seq \in Nat
<1>1. MaxSeq \in Nat
  BY QoSAssumption
<1>2. /\ s.nextSeqNumToSend \in 1..(MaxSeq + 1)
      /\ s.closedWindowQ \in Seq(DataPDU)
      /\ s.rxQ \in SUBSET RxEntry
      /\ s.rxTurn \in Nat /\ s.sndRtWinEdge \in Nat
  BY DEF SndState
<1>3. \A d \in DataPDU : d.seq \in Nat
  BY <1>1 DEF DataPDU, SeqNum
<1>4. \A e \in s.rxQ : e.turn \in Nat /\ e.pdu \in DataPDU /\ e.pdu.seq \in Nat
  BY <1>2, <1>3 DEF RxEntry
<1>5. Len(s.closedWindowQ) \in Nat /\ \A i \in 1..Len(s.closedWindowQ) :
         s.closedWindowQ[i] \in DataPDU /\ s.closedWindowQ[i].seq \in Nat
  BY <1>2, <1>3
<1> QED
  BY <1>1, <1>2, <1>4, <1>5

(* What PushBackToRxQ adds. *)
Batch(t, pdus) ==
    {[pdu |-> pdus[i], expiryCount |-> 0, turn |-> t + i - 1] : i \in 1..Len(pdus)}

(* p is s after these PDUs have been posted. *)
Posted(p, s, pdus) ==
    /\ p \in SndState
    /\ p.nextSeqNumToSend = s.nextSeqNumToSend
    /\ p.setDRFFlag = s.setDRFFlag
    /\ p.closedWindowQ = s.closedWindowQ
    /\ p.closedWindow <=> s.closedWindow
    /\ p.blockingPort <=> s.blockingPort
    /\ p.sndRtWinEdge = s.sndRtWinEdge
    /\ p.rxQ = IF RxOn THEN s.rxQ \union Batch(s.rxTurn, pdus) ELSE s.rxQ
    /\ p.rxTurn = IF RxOn THEN s.rxTurn + Len(pdus) ELSE s.rxTurn

LEMMA PushedBack ==
    ASSUME NEW s \in SndState, NEW pdus \in Seq(DataPDU)
    PROVE  /\ PushBackToRxQ(s, pdus) \in SndState
           /\ PushBackToRxQ(s, pdus) =
                 [s EXCEPT !.rxQ = @ \union Batch(s.rxTurn, pdus), !.rxTurn = @ + Len(pdus)]
<1>1. s.rxTurn \in Nat /\ s.rxQ \in SUBSET RxEntry
  BY DEF SndState
<1>2. Batch(s.rxTurn, pdus) \in SUBSET RxEntry
  <2> SUFFICES ASSUME NEW i \in 1..Len(pdus)
               PROVE  [pdu |-> pdus[i], expiryCount |-> 0, turn |-> s.rxTurn + i - 1] \in RxEntry
    BY DEF Batch
  <2>1. pdus[i] \in DataPDU /\ s.rxTurn + i - 1 \in Nat
    BY <1>1
  <2> QED
    BY <2>1 DEF RxEntry
<1>3. s.rxTurn + Len(pdus) \in Nat
  BY <1>1
<1>4. PushBackToRxQ(s, pdus) =
         [s EXCEPT !.rxQ = @ \union Batch(s.rxTurn, pdus), !.rxTurn = @ + Len(pdus)]
  BY DEF PushBackToRxQ, Batch
<1> HIDE DEF Batch
<1>5. [s EXCEPT !.rxQ = @ \union Batch(s.rxTurn, pdus), !.rxTurn = @ + Len(pdus)] \in SndState
  BY <1>1, <1>2, <1>3 DEF SndState
<1> QED
  BY <1>4, <1>5

LEMMA SentToRMT ==
    ASSUME NEW s \in SndState, NEW pdus \in Seq(DataPDU)
    PROVE  \E l \in SeqNum : SendToRMT(s, pdus) = [s EXCEPT !.lastSeqNumSent = l]
<1>1. CASE pdus = <<>>
  BY <1>1 DEF SendToRMT, SndState
<1>2. CASE pdus # <<>>
  <2>1. pdus[Len(pdus)] \in DataPDU
    BY <1>2
  <2> QED
    BY <1>2, <2>1 DEF SendToRMT, DataPDU
<1> QED
  BY <1>1, <1>2

LEMMA PostPosts ==
    ASSUME NEW s \in SndState, NEW pdus \in Seq(DataPDU)
    PROVE  Posted(Post(s, pdus), s, pdus)
<1>1. MaxSeq \in Nat /\ MaxSeq < Modulus /\ Modulus \in Nat
  BY QoSAssumption
<1>2. CASE ~DtcpPresent
  <2>1. ~RxOn
    BY <1>2 DEF DtcpPresent
  <2>2. PICK l \in SeqNum : SendToRMT(s, pdus) = [s EXCEPT !.lastSeqNumSent = l]
    BY SentToRMT
  <2>3. Post(s, pdus) = [s EXCEPT !.lastSeqNumSent = l]
    BY <1>2, <2>2 DEF Post
  <2> QED
    BY <2>1, <2>3 DEF Posted, SndState
<1>3. CASE DtcpPresent
  <2> DEFINE kept == IF RxOn THEN PushBackToRxQ(s, pdus) ELSE s
             sent == SendToRMT(kept, pdus)
  <2>1. /\ kept \in SndState
        /\ kept = IF RxOn THEN [s EXCEPT !.rxQ = @ \union Batch(s.rxTurn, pdus),
                                         !.rxTurn = @ + Len(pdus)]
                  ELSE s
    BY PushedBack
  <2> HIDE DEF kept
  <2>2. PICK l \in SeqNum : sent = [kept EXCEPT !.lastSeqNumSent = l]
    BY <2>1, SentToRMT
  <2>3. sent \in SndState /\ sent.lastSeqNumSent = l
    BY <2>1, <2>2 DEF SndState
  <2> HIDE DEF sent
  <2>4. l \in 0..(Modulus - 1)
    BY <1>1 DEF SeqNum
  <2>5. PICK e \in 0..(Modulus - 1) :
           UpdateSndLWE(sent, l) = [sent EXCEPT !.senderLeftWinEdge = e]
    BY <2>3, <2>4, UpdatedSndLWE
  <2>6. Post(s, pdus) = [sent EXCEPT !.senderLeftWinEdge = e]
    BY <1>3, <2>3, <2>5 DEF Post, sent, kept
  <2>7. Post(s, pdus) \in SndState
    BY <2>3, <2>6 DEF SndState
  <2> HIDE DEF Batch
  <2> QED
    BY <2>1, <2>2, <2>3, <2>6, <2>7 DEF Posted, SndState
<1> QED
  BY <1>2, <1>3

-----------------------------------------------------------------------------
(* The invariant, of a record s whose numbers "done" have been             *)
(* acknowledged or given up.                                               *)

(* Every number given out is in one place, and a kept PDU in one entry.    *)
Numbers(s, done) ==
    /\ \A i \in 1..Len(s.closedWindowQ) :
          s.closedWindowQ[i].seq \in 1..(s.nextSeqNumToSend - 1)
    /\ \A i, j \in 1..Len(s.closedWindowQ) :
          i < j => s.closedWindowQ[i].seq < s.closedWindowQ[j].seq
    /\ \A e \in s.rxQ : e.pdu.seq \in 1..(s.nextSeqNumToSend - 1)
    /\ \A e, f \in s.rxQ : e.pdu.seq = f.pdu.seq => e = f
    /\ done \subseteq 1..(s.nextSeqNumToSend - 1)
    /\ \A e \in s.rxQ : e.pdu.seq \notin done
    /\ \A i \in 1..Len(s.closedWindowQ) :
          /\ s.closedWindowQ[i].seq \notin done
          /\ \A e \in s.rxQ : s.closedWindowQ[i].seq # e.pdu.seq
    /\ RxOn => \A m \in 1..(s.nextSeqNumToSend - 1) :
                  \/ \E i \in 1..Len(s.closedWindowQ) : m = s.closedWindowQ[i].seq
                  \/ \E e \in s.rxQ : m = e.pdu.seq
                  \/ m \in done

(* The flags say how long the closed window queue is. *)
Flags(s) ==
    /\ MaxClosedWinQueLen > 0 =>
          /\ s.blockingPort <=> Len(s.closedWindowQ) >= MaxClosedWinQueLen
          /\ s.closedWindow <=> s.closedWindowQ # <<>>
    /\ ~WindowFcOn => s.closedWindowQ = <<>>

(* While the window moves only together with the queue: what waits is      *)
(* beyond the window and behind all that was sent.                         *)
Order(s) ==
    /\ s.closedWindowQ # <<>> => s.closedWindowQ[1].seq > s.sndRtWinEdge
    /\ \A e, f \in s.rxQ :
          e.turn < f.turn /\ ~e.pdu.empty /\ ~f.pdu.empty => e.pdu.seq < f.pdu.seq
    /\ \A e \in s.rxQ : \A i \in 1..Len(s.closedWindowQ) :
          ~e.pdu.empty => e.pdu.seq < s.closedWindowQ[i].seq

Good(s, done, ordered) ==
    /\ s \in SndState
    /\ Numbers(s, done)
    /\ Flags(s)
    /\ \A e \in s.rxQ : e.turn < s.rxTurn
    /\ ordered => Order(s)

IInv ==
    /\ TypeOK
    /\ Good(snd, acked \union abandoned, ~controlAcked)

-----------------------------------------------------------------------------
(* The first n of the next k numbers go out, the others wait. *)
Written(t, s, k, sent) ==
    LET n == Len(sent)
        q == Len(s.closedWindowQ)
    IN  /\ t \in SndState
        /\ sent \in Seq(DataPDU)
        /\ n \in 0..k
        /\ t.nextSeqNumToSend = s.nextSeqNumToSend + k
        /\ t.sndRtWinEdge = s.sndRtWinEdge
        /\ Len(t.closedWindowQ) = q + (k - n)
        /\ \A i \in 1..q : t.closedWindowQ[i] = s.closedWindowQ[i]
        /\ \A j \in (n + 1)..k :
              t.closedWindowQ[q + j - n].seq = s.nextSeqNumToSend + j - 1
        /\ \A i \in 1..n : sent[i].seq = s.nextSeqNumToSend + i - 1
        /\ t.rxQ = IF RxOn THEN s.rxQ \union Batch(s.rxTurn, sent) ELSE s.rxQ
        /\ t.rxTurn = IF RxOn THEN s.rxTurn + Len(sent) ELSE s.rxTurn

(* Whether an entry is new, and which number it has then.                  *)
LEMMA WrittenEntries ==
    ASSUME NEW s \in SndState, NEW k \in Nat, NEW sent, NEW t, Written(t, s, k, sent),
           NEW e \in t.rxQ, e \notin s.rxQ
    PROVE  /\ RxOn
           /\ \E i \in 1..Len(sent) :
                 /\ e = [pdu |-> sent[i], expiryCount |-> 0, turn |-> s.rxTurn + i - 1]
                 /\ e.pdu = sent[i] /\ e.turn = s.rxTurn + i - 1
                 /\ e.pdu.seq = s.nextSeqNumToSend + i - 1
<1>1. RxOn /\ e \in Batch(s.rxTurn, sent)
  BY DEF Written
<1>2. PICK i \in 1..Len(sent) :
         e = [pdu |-> sent[i], expiryCount |-> 0, turn |-> s.rxTurn + i - 1]
  BY <1>1 DEF Batch
<1>3. e.pdu = sent[i] /\ e.turn = s.rxTurn + i - 1
  BY <1>2
<1>4. sent[i].seq = s.nextSeqNumToSend + i - 1
  BY DEF Written
<1> QED
  BY <1>1, <1>2, <1>3, <1>4

(* Whether a place of the queue is new. *)
LEMMA WrittenPlaces ==
    ASSUME NEW s \in SndState, NEW k \in Nat, NEW sent, NEW t, Written(t, s, k, sent),
           NEW i \in 1..Len(t.closedWindowQ)
    PROVE  \/ i \in 1..Len(s.closedWindowQ) /\ t.closedWindowQ[i] = s.closedWindowQ[i]
           \/ /\ i > Len(s.closedWindowQ)
              /\ t.closedWindowQ[i].seq
                    = s.nextSeqNumToSend + Len(sent) + (i - Len(s.closedWindowQ)) - 1
              /\ i - Len(s.closedWindowQ) <= k - Len(sent)
<1> DEFINE N == s.nextSeqNumToSend
           n == Len(sent)
           q == Len(s.closedWindowQ)
           p == Len(t.closedWindowQ)
<1>1. q \in Nat /\ N \in Nat
  BY Fields
<1>2. n \in Nat /\ n <= k /\ p = q + (k - n)
  BY DEF Written
<1>3. CASE i \in 1..q
  BY <1>3 DEF Written
<1>4. CASE i > q
  <2> DEFINE j == i - q + n
  <2>1. i \in 1..p
    OBVIOUS
  <2>2. j \in (n + 1)..k /\ q + j - n = i /\ N + j - 1 = N + n + (i - q) - 1 /\ i - q <= k - n
    <3> HIDE DEF N, n, q, p
    <3> QED
      BY <1>1, <1>2, <1>4, <2>1
  <2>3. t.closedWindowQ[q + j - n].seq = N + j - 1
    <3> HIDE DEF j
    <3> QED
      BY <2>2 DEF Written
  <2> QED
    BY <1>4, <2>2, <2>3
<1> QED
  BY <1>1, <1>3, <1>4

LEMMA WrittenNumbers ==
    ASSUME NEW s \in SndState, NEW k \in Nat, NEW sent, NEW t, Written(t, s, k, sent),
           NEW done, Numbers(s, done)
    PROVE  Numbers(t, done)
<1> DEFINE N == s.nextSeqNumToSend
           n == Len(sent)
           q == Len(s.closedWindowQ)
           p == Len(t.closedWindowQ)
<1>a. N \in Nat /\ N >= 1 /\ q \in Nat
  BY Fields
<1>b. n \in Nat /\ n <= k /\ t.nextSeqNumToSend = N + k /\ p = q + (k - n)
  BY DEF Written
<1>c. s.rxQ \subseteq t.rxQ
  BY DEF Written
<1>1. /\ N \in Nat /\ N >= 1 /\ n \in Nat /\ n <= k /\ q \in Nat
      /\ t.nextSeqNumToSend = N + k /\ p = q + (k - n)
      /\ s.rxQ \subseteq t.rxQ
  BY <1>a, <1>b, <1>c
<1>2. \A e \in t.rxQ :
         \/ e \in s.rxQ /\ e.pdu.seq \in 1..(N - 1)
         \/ e \notin s.rxQ /\ e.pdu.seq \in N..(N + n - 1)
  <2> SUFFICES ASSUME NEW e \in t.rxQ, e \notin s.rxQ PROVE e.pdu.seq \in N..(N + n - 1)
    BY DEF Numbers
  <2>1. PICK i \in 1..n : e.pdu.seq = N + i - 1
    BY WrittenEntries
  <2> QED
    BY <1>1, <2>1
<1>3. \A i \in 1..p :
         \/ i \in 1..q /\ t.closedWindowQ[i] = s.closedWindowQ[i]
            /\ t.closedWindowQ[i].seq \in 1..(N - 1)
         \/ i > q /\ t.closedWindowQ[i].seq = N + n + (i - q) - 1
            /\ t.closedWindowQ[i].seq \in (N + n)..(N + k - 1)
  <2> SUFFICES ASSUME NEW i \in 1..p
               PROVE \/ i \in 1..q /\ t.closedWindowQ[i] = s.closedWindowQ[i]
                        /\ t.closedWindowQ[i].seq \in 1..(N - 1)
                     \/ i > q /\ t.closedWindowQ[i].seq = N + n + (i - q) - 1
                        /\ t.closedWindowQ[i].seq \in (N + n)..(N + k - 1)
    OBVIOUS
  <2>1. CASE i \in 1..q /\ t.closedWindowQ[i] = s.closedWindowQ[i]
    BY <2>1 DEF Numbers
  <2>2. CASE i > q /\ t.closedWindowQ[i].seq = N + n + (i - q) - 1 /\ i - q <= k - n
    <3> HIDE DEF N, n, q
    <3> QED
      BY <1>1, <2>2
  <2> QED
    BY <2>1, <2>2, WrittenPlaces
<1> HIDE DEF N, n, q, p
<1>4. \A i \in 1..p : t.closedWindowQ[i].seq \in 1..(t.nextSeqNumToSend - 1)
  BY <1>1, <1>3
<1>5. ASSUME NEW i \in 1..p, NEW j \in 1..p, i < j
      PROVE  t.closedWindowQ[i].seq < t.closedWindowQ[j].seq
  <2>1. CASE i \in 1..q /\ j \in 1..q
    <3>1. s.closedWindowQ[i].seq < s.closedWindowQ[j].seq
      BY <1>5, <2>1 DEF Numbers, q
    <3> QED
      BY <1>1, <1>3, <2>1, <3>1
  <2>2. CASE i \in 1..q /\ j > q
    BY <1>1, <1>3, <2>2
  <2>3. CASE i > q /\ j > q
    <3>1. t.closedWindowQ[i].seq = N + n + (i - q) - 1 /\ t.closedWindowQ[j].seq = N + n + (j - q) - 1
      BY <1>1, <1>3, <2>3
    <3> QED
      BY <1>1, <1>5, <3>1
  <2> QED
    BY <1>1, <1>5, <2>1, <2>2, <2>3
<1>6. \A e \in t.rxQ : e.pdu.seq \in 1..(t.nextSeqNumToSend - 1)
  BY <1>1, <1>2
<1>7. ASSUME NEW e \in t.rxQ, NEW f \in t.rxQ, e.pdu.seq = f.pdu.seq
      PROVE  e = f
  <2>1. CASE e \in s.rxQ /\ f \in s.rxQ
    BY <1>7, <2>1 DEF Numbers
  <2>2. CASE e \notin s.rxQ /\ f \notin s.rxQ
    <3>1. PICK i \in 1..n : e = [pdu |-> sent[i], expiryCount |-> 0, turn |-> s.rxTurn + i - 1]
                            /\ e.pdu.seq = N + i - 1
      BY <2>2, WrittenEntries DEF N, n
    <3>2. PICK j \in 1..n : f = [pdu |-> sent[j], expiryCount |-> 0, turn |-> s.rxTurn + j - 1]
                            /\ f.pdu.seq = N + j - 1
      BY <2>2, WrittenEntries DEF N, n
    <3>3. i = j
      BY <1>1, <1>7, <3>1, <3>2
    <3> QED
      BY <3>1, <3>2, <3>3
  <2>3. (e \in s.rxQ) <=> (f \in s.rxQ)
    BY <1>1, <1>2, <1>7
  <2> QED
    BY <2>1, <2>2, <2>3
<1>8. done \subseteq 1..(t.nextSeqNumToSend - 1) /\ done \subseteq 1..(N - 1)
  BY <1>1 DEF Numbers, N
<1>9. \A e \in t.rxQ : e.pdu.seq \notin done
  <2> SUFFICES ASSUME NEW e \in t.rxQ PROVE e.pdu.seq \notin done
    OBVIOUS
  <2>1. e \in s.rxQ => e.pdu.seq \notin done
    BY DEF Numbers
  <2> QED
    BY <1>1, <1>2, <1>8, <2>1
<1>10. ASSUME NEW i \in 1..p
       PROVE  /\ t.closedWindowQ[i].seq \notin done
              /\ \A e \in t.rxQ : t.closedWindowQ[i].seq # e.pdu.seq
  <2>1. i \in 1..q => /\ s.closedWindowQ[i].seq \notin done
                      /\ \A e \in s.rxQ : s.closedWindowQ[i].seq # e.pdu.seq
    BY DEF Numbers, q
  <2>2. t.closedWindowQ[i].seq \notin done
    BY <1>1, <1>3, <1>8, <2>1
  <2>3. ASSUME NEW e \in t.rxQ PROVE t.closedWindowQ[i].seq # e.pdu.seq
    <3>1. CASE i \in 1..q
      BY <1>1, <1>2, <1>3, <2>1, <3>1
    <3>2. CASE i > q
      BY <1>1, <1>2, <1>3, <3>2
    <3> QED
      BY <1>1, <3>1, <3>2
  <2> QED
    BY <2>2, <2>3
<1>11. ASSUME RxOn, NEW m \in 1..(t.nextSeqNumToSend - 1)
       PROVE  \/ \E i \in 1..p : m = t.closedWindowQ[i].seq
              \/ \E e \in t.rxQ : m = e.pdu.seq
              \/ m \in done
  <2>1. CASE m \in 1..(N - 1)
    <3>1. CASE \E i \in 1..q : m = s.closedWindowQ[i].seq
      <4>1. PICK i \in 1..q : m = s.closedWindowQ[i].seq
        BY <3>1
      <4>2. i \in 1..p /\ t.closedWindowQ[i] = s.closedWindowQ[i]
        BY <1>1, <1>3
      <4> QED
        BY <4>1, <4>2
    <3>2. CASE \E e \in s.rxQ : m = e.pdu.seq
      BY <1>1, <3>2
    <3> QED
      BY <1>11, <2>1, <3>1, <3>2 DEF Numbers, N, q
  <2>2. CASE m \in N..(N + n - 1)
    <3> DEFINE i == m - N + 1
               e == [pdu |-> sent[i], expiryCount |-> 0, turn |-> s.rxTurn + i - 1]
    <3>1. i \in 1..n /\ i \in 1..Len(sent)
      BY <1>1, <2>2 DEF n
    <3>2. e \in Batch(s.rxTurn, sent)
      BY <3>1 DEF Batch
    <3>3. e \in t.rxQ
      BY <1>11, <3>2 DEF Written
    <3>4. sent[i].seq = N + i - 1
      BY <3>1 DEF Written, N
    <3>5. e.pdu.seq = m
      BY <1>1, <3>1, <3>4
    <3> QED
      BY <3>3, <3>5
  <2>3. CASE m \in (N + n)..(N + k - 1)
    <3> DEFINE i == q + (m - N - n + 1)
    <3>1. i \in 1..p /\ i > q
      BY <1>1, <2>3
    <3>2. t.closedWindowQ[i].seq = N + n + (i - q) - 1
      BY <1>1, <1>3, <3>1
    <3>3. t.closedWindowQ[i].seq = m
      BY <1>1, <2>3, <3>2
    <3> QED
      BY <3>1, <3>3
  <2> QED
    BY <1>1, <2>1, <2>2, <2>3
<1> QED
  BY <1>4, <1>5, <1>6, <1>7, <1>8, <1>9, <1>10, <1>11 DEF Numbers, p

(* Entries of an earlier turn stay earlier. *)
LEMMA WrittenTurns ==
    ASSUME NEW s \in SndState, NEW k \in Nat, NEW sent, NEW t, Written(t, s, k, sent),
           \A e \in s.rxQ : e.turn < s.rxTurn
    PROVE  /\ \A e \in t.rxQ : e.turn < t.rxTurn
           /\ \A e, f \in t.rxQ : e \notin s.rxQ /\ f \in s.rxQ => f.turn < e.turn
<1>1. /\ s.rxTurn \in Nat /\ Len(sent) \in Nat
      /\ RxOn => t.rxTurn = s.rxTurn + Len(sent)
      /\ ~RxOn => t.rxTurn = s.rxTurn
      /\ \A e \in s.rxQ : e.turn \in Nat
  BY DEF SndState, RxEntry, Written
<1>2. \A e \in t.rxQ : e \notin s.rxQ =>
         RxOn /\ \E i \in 1..Len(sent) : e.turn = s.rxTurn + i - 1
  BY WrittenEntries
<1> QED
  BY <1>1, <1>2

LEMMA WrittenOrder ==
    ASSUME NEW s \in SndState, NEW k \in Nat, NEW sent, NEW t, Written(t, s, k, sent),
           NEW done, Numbers(s, done), Order(s), \A e \in s.rxQ : e.turn < s.rxTurn,
           s.closedWindowQ # <<>> => Len(sent) = 0,
           s.closedWindowQ = <<>> /\ Len(sent) < k =>
               s.nextSeqNumToSend + Len(sent) > s.sndRtWinEdge
    PROVE  Order(t)
<1> DEFINE N == s.nextSeqNumToSend
           n == Len(sent)
           q == Len(s.closedWindowQ)
           p == Len(t.closedWindowQ)
<1>1. N \in Nat /\ q \in Nat /\ s.rxTurn \in Nat
  BY Fields
<1>2. n \in Nat /\ n <= k /\ p = q + (k - n) /\ t.sndRtWinEdge = s.sndRtWinEdge
  BY DEF Written
<1>3. \A e \in s.rxQ : e.pdu.seq \in 1..(N - 1) /\ e.turn \in Nat
  BY Fields DEF Numbers
<1>4. \A e \in t.rxQ : e \notin s.rxQ =>
         \E i \in 1..n : e.turn = s.rxTurn + i - 1 /\ e.pdu.seq = N + i - 1
  BY WrittenEntries
<1>5. \A i \in 1..p :
         \/ i \in 1..q /\ t.closedWindowQ[i] = s.closedWindowQ[i]
         \/ i > q /\ t.closedWindowQ[i].seq = N + n + (i - q) - 1
  BY WrittenPlaces
<1>6. q = 0 <=> s.closedWindowQ = <<>>
  BY Fields
<1>7. p = 0 <=> t.closedWindowQ = <<>>
  <2>1. t \in SndState
    BY DEF Written
  <2> QED
    BY <2>1, Fields
<1>8. t.closedWindowQ # <<>> => t.closedWindowQ[1].seq > t.sndRtWinEdge
  <2> SUFFICES ASSUME p # 0 PROVE t.closedWindowQ[1].seq > t.sndRtWinEdge
    BY <1>7
  <2>1. p \in Nat /\ 1 \in 1..p
    BY <1>1, <1>2
  <2>2. CASE q # 0
    <3>1. t.closedWindowQ[1] = s.closedWindowQ[1] /\ s.closedWindowQ[1].seq > s.sndRtWinEdge
      <4>1. 1 \in 1..q
        BY <1>1, <2>2
      <4> QED
        BY <1>6, <2>2, <4>1 DEF Order, Written
    <3> QED
      BY <1>2, <3>1
  <2>3. CASE q = 0
    <3>1. t.closedWindowQ[1].seq = N + n /\ n < k
      <4> HIDE DEF N, n, q, p
      <4> QED
        BY <1>1, <1>2, <1>5, <2>1, <2>3
    <3> QED
      BY <1>2, <1>6, <2>3, <3>1
  <2> QED
    BY <2>2, <2>3
<1>9. ASSUME NEW e \in t.rxQ, NEW f \in t.rxQ, e.turn < f.turn, ~e.pdu.empty, ~f.pdu.empty
      PROVE  e.pdu.seq < f.pdu.seq
  <2>1. CASE e \in s.rxQ /\ f \in s.rxQ
    BY <1>9, <2>1 DEF Order
  <2>2. CASE e \in s.rxQ /\ f \notin s.rxQ
    <3> HIDE DEF N, n, q, p
    <3> QED
      BY <1>1, <1>2, <1>3, <1>4, <2>2
  <2>3. CASE e \notin s.rxQ /\ f \notin s.rxQ
    <3> HIDE DEF N, n, q, p
    <3> QED
      BY <1>1, <1>2, <1>4, <1>9, <2>3
  <2>4. CASE e \notin s.rxQ /\ f \in s.rxQ
    <3>1. f.turn < e.turn
      BY <2>4, WrittenTurns
    <3>2. f.turn \in Nat /\ e.turn \in Int
      <4> HIDE DEF N, n, q, p
      <4> QED
        BY <1>1, <1>2, <1>3, <1>4, <2>4
    <3> QED
      BY <1>9, <3>1, <3>2
  <2> QED
    BY <2>1, <2>2, <2>3, <2>4
<1>10. ASSUME NEW e \in t.rxQ, NEW i \in 1..p, ~e.pdu.empty
       PROVE  e.pdu.seq < t.closedWindowQ[i].seq
  <2>1. CASE e \in s.rxQ /\ i \in 1..q /\ t.closedWindowQ[i] = s.closedWindowQ[i]
    BY <1>10, <2>1 DEF Order
  <2>2. CASE e \in s.rxQ /\ i > q /\ t.closedWindowQ[i].seq = N + n + (i - q) - 1
    <3> HIDE DEF N, n, q, p
    <3> QED
      BY <1>1, <1>2, <1>3, <2>2
  <2>3. CASE e \notin s.rxQ
    <3>1. q = 0
      <4>1. n # 0
        <5> HIDE DEF N, n, q, p
        <5> QED
          BY <1>4, <2>3
      <4> QED
        BY <1>6, <4>1
    <3> HIDE DEF N, n, q, p
    <3> QED
      BY <1>1, <1>2, <1>4, <1>5, <2>3, <3>1
  <2> QED
    BY <1>5, <2>1, <2>2, <2>3
<1> QED
  BY <1>8, <1>9, <1>10 DEF Order

-----------------------------------------------------------------------------
(* The first PDUs that wait go out. *)
Freed(t, s, sent) ==
    LET n == Len(sent)
        q == Len(s.closedWindowQ)
    IN  /\ t \in SndState
        /\ sent \in Seq(DataPDU)
        /\ n \in 0..q
        /\ t.nextSeqNumToSend = s.nextSeqNumToSend
        /\ Len(t.closedWindowQ) = q - n
        /\ \A i \in 1..(q - n) : t.closedWindowQ[i] = s.closedWindowQ[i + n]
        /\ \A i \in 1..n : sent[i] = s.closedWindowQ[i]
        /\ t.rxQ = IF RxOn THEN s.rxQ \union Batch(s.rxTurn, sent) ELSE s.rxQ
        /\ t.rxTurn = IF RxOn THEN s.rxTurn + Len(sent) ELSE s.rxTurn

LEMMA FreedEntries ==
    ASSUME NEW s \in SndState, NEW sent, NEW t, Freed(t, s, sent),
           NEW e \in t.rxQ, e \notin s.rxQ
    PROVE  /\ RxOn
           /\ \E i \in 1..Len(sent) :
                 /\ e = [pdu |-> sent[i], expiryCount |-> 0, turn |-> s.rxTurn + i - 1]
                 /\ e.pdu = s.closedWindowQ[i] /\ e.turn = s.rxTurn + i - 1
                 /\ i \in 1..Len(s.closedWindowQ)
<1>1. RxOn /\ e \in Batch(s.rxTurn, sent)
  BY DEF Freed
<1>2. PICK i \in 1..Len(sent) :
         e = [pdu |-> sent[i], expiryCount |-> 0, turn |-> s.rxTurn + i - 1]
  BY <1>1 DEF Batch
<1>3. e.pdu = sent[i] /\ e.turn = s.rxTurn + i - 1
  BY <1>2
<1>4. sent[i] = s.closedWindowQ[i]
  BY DEF Freed
<1>5. Len(sent) \in 0..Len(s.closedWindowQ) /\ Len(s.closedWindowQ) \in Nat
  BY Fields DEF Freed
<1>6. i \in 1..Len(s.closedWindowQ)
  BY <1>5
<1> QED
  BY <1>1, <1>2, <1>3, <1>4, <1>6

LEMMA FreedPlaces ==
    ASSUME NEW s \in SndState, NEW sent, NEW t, Freed(t, s, sent),
           NEW i \in 1..Len(t.closedWindowQ)
    PROVE  /\ i + Len(sent) \in 1..Len(s.closedWindowQ)
           /\ t.closedWindowQ[i] = s.closedWindowQ[i + Len(sent)]
           /\ Len(sent) \in Nat
<1>1. Len(s.closedWindowQ) \in Nat
  BY Fields
<1>2. Len(sent) \in 0..Len(s.closedWindowQ)
      /\ Len(t.closedWindowQ) = Len(s.closedWindowQ) - Len(sent)
  BY DEF Freed
<1>3. i \in 1..(Len(s.closedWindowQ) - Len(sent))
  BY <1>2
<1>4. t.closedWindowQ[i] = s.closedWindowQ[i + Len(sent)]
  BY <1>3 DEF Freed
<1> QED
  BY <1>1, <1>2, <1>3, <1>4

LEMMA FreedNumbers ==
    ASSUME NEW s \in SndState, NEW sent, NEW t, Freed(t, s, sent),
           NEW done, Numbers(s, done)
    PROVE  Numbers(t, done)
<1> DEFINE N == s.nextSeqNumToSend
           n == Len(sent)
           q == Len(s.closedWindowQ)
           p == Len(t.closedWindowQ)
<1>1. t.nextSeqNumToSend = N /\ s.rxQ \subseteq t.rxQ /\ n \in Nat /\ n <= q /\ p = q - n
  BY DEF Freed
<1>2. \A i \in 1..p : i + n \in 1..q /\ t.closedWindowQ[i] = s.closedWindowQ[i + n]
  BY FreedPlaces
<1>3. \A e \in t.rxQ : e \notin s.rxQ =>
         \E i \in 1..n : /\ e = [pdu |-> sent[i], expiryCount |-> 0, turn |-> s.rxTurn + i - 1]
                         /\ e.pdu = s.closedWindowQ[i] /\ i \in 1..q
  BY FreedEntries
<1>4. q \in Nat
  BY Fields
<1> HIDE DEF N, n, q, p
<1>5. \A i \in 1..p : t.closedWindowQ[i].seq \in 1..(t.nextSeqNumToSend - 1)
  BY <1>1, <1>2 DEF Numbers, N, q
<1>6. ASSUME NEW i \in 1..p, NEW j \in 1..p, i < j
      PROVE  t.closedWindowQ[i].seq < t.closedWindowQ[j].seq
  <2>1. i + n \in 1..q /\ j + n \in 1..q /\ i + n < j + n
    BY <1>1, <1>2, <1>6
  <2>2. s.closedWindowQ[i + n].seq < s.closedWindowQ[j + n].seq
    BY <2>1 DEF Numbers, q
  <2> QED
    BY <1>2, <2>2
<1>7. \A e \in t.rxQ : e.pdu.seq \in 1..(t.nextSeqNumToSend - 1)
  BY <1>1, <1>3 DEF Numbers, N, q
<1>d. \A i, j \in 1..q : s.closedWindowQ[i].seq = s.closedWindowQ[j].seq => i = j
  <2> SUFFICES ASSUME NEW i \in 1..q, NEW j \in 1..q, i < j
               PROVE  s.closedWindowQ[i].seq # s.closedWindowQ[j].seq
    BY <1>4
  <2>1. s.closedWindowQ[i].seq < s.closedWindowQ[j].seq /\ s.closedWindowQ[i].seq \in Nat
    BY Fields DEF Numbers, q
  <2> QED
    BY <2>1
<1>8. ASSUME NEW e \in t.rxQ, NEW f \in t.rxQ, e.pdu.seq = f.pdu.seq
      PROVE  e = f
  <2>1. CASE e \in s.rxQ /\ f \in s.rxQ
    BY <1>8, <2>1 DEF Numbers
  <2>2. CASE e \notin s.rxQ /\ f \notin s.rxQ
    <3>1. PICK i \in 1..n : /\ e = [pdu |-> sent[i], expiryCount |-> 0, turn |-> s.rxTurn + i - 1]
                            /\ e.pdu = s.closedWindowQ[i] /\ i \in 1..q
      BY <1>3, <2>2
    <3>2. PICK j \in 1..n : /\ f = [pdu |-> sent[j], expiryCount |-> 0, turn |-> s.rxTurn + j - 1]
                            /\ f.pdu = s.closedWindowQ[j] /\ j \in 1..q
      BY <1>3, <2>2
    <3>3. i = j
      BY <1>8, <1>d, <3>1, <3>2
    <3> QED
      BY <3>1, <3>2, <3>3
  <2>3. CASE e \in s.rxQ /\ f \notin s.rxQ
    <3>1. PICK j \in 1..q : f.pdu = s.closedWindowQ[j]
      BY <1>3, <2>3
    <3> QED
      BY <1>8, <2>3, <3>1 DEF Numbers, q
  <2>4. CASE e \notin s.rxQ /\ f \in s.rxQ
    <3>1. PICK j \in 1..q : e.pdu = s.closedWindowQ[j]
      BY <1>3, <2>4
    <3> QED
      BY <1>8, <2>4, <3>1 DEF Numbers, q
  <2> QED
    BY <2>1, <2>2, <2>3, <2>4
<1>9. done \subseteq 1..(t.nextSeqNumToSend - 1)
  BY <1>1 DEF Numbers, N
<1>10. \A e \in t.rxQ : e.pdu.seq \notin done
  BY <1>3 DEF Numbers, q
<1>11. ASSUME NEW i \in 1..p
       PROVE  /\ t.closedWindowQ[i].seq \notin done
              /\ \A e \in t.rxQ : t.closedWindowQ[i].seq # e.pdu.seq
  <2>1. i + n \in 1..q /\ t.closedWindowQ[i] = s.closedWindowQ[i + n]
    BY <1>2
  <2>2. t.closedWindowQ[i].seq \notin done
    BY <2>1 DEF Numbers, q
  <2>3. ASSUME NEW e \in t.rxQ PROVE t.closedWindowQ[i].seq # e.pdu.seq
    <3>1. CASE e \in s.rxQ
      BY <2>1, <3>1 DEF Numbers, q
    <3>2. CASE e \notin s.rxQ
      <4>1. PICK j \in 1..n : e.pdu = s.closedWindowQ[j] /\ j \in 1..q
        BY <1>3, <3>2
      <4>2. i + n # j
        BY <1>1, <2>1, <4>1
      <4> QED
        BY <1>d, <2>1, <4>1, <4>2
    <3> QED
      BY <3>1, <3>2
  <2> QED
    BY <2>2, <2>3
<1>12. ASSUME RxOn, NEW m \in 1..(t.nextSeqNumToSend - 1)
       PROVE  \/ \E i \in 1..p : m = t.closedWindowQ[i].seq
              \/ \E e \in t.rxQ : m = e.pdu.seq
              \/ m \in done
  <2>1. CASE \E i \in 1..q : m = s.closedWindowQ[i].seq
    <3>1. PICK i \in 1..q : m = s.closedWindowQ[i].seq
      BY <2>1
    <3>2. CASE i > n
      <4>1. i - n \in 1..p /\ (i - n) + n = i
        BY <1>1, <1>4, <3>2
      <4>2. t.closedWindowQ[i - n] = s.closedWindowQ[i]
        BY <1>2, <4>1
      <4> QED
        BY <3>1, <4>1, <4>2
    <3>3. CASE i <= n
      <4> DEFINE e == [pdu |-> sent[i], expiryCount |-> 0, turn |-> s.rxTurn + i - 1]
      <4>1. i \in 1..Len(sent)
        BY <1>1, <3>3 DEF n
      <4>2. e \in Batch(s.rxTurn, sent)
        BY <4>1 DEF Batch
      <4>3. e \in t.rxQ
        BY <1>12, <4>2 DEF Freed
      <4>4. sent[i] = s.closedWindowQ[i]
        BY <4>1 DEF Freed
      <4>5. e.pdu.seq = m
        BY <3>1, <4>4
      <4> QED
        BY <4>3, <4>5
    <3> QED
      BY <1>1, <3>2, <3>3
  <2>2. CASE \E e \in s.rxQ : m = e.pdu.seq
    BY <1>1, <2>2
  <2> QED
    BY <1>1, <1>12, <2>1, <2>2 DEF Numbers, N, q
<1> QED
  BY <1>5, <1>6, <1>7, <1>8, <1>9, <1>10, <1>11, <1>12 DEF Numbers, p

LEMMA FreedTurns ==
    ASSUME NEW s \in SndState, NEW sent, NEW t, Freed(t, s, sent),
           \A e \in s.rxQ : e.turn < s.rxTurn
    PROVE  /\ \A e \in t.rxQ : e.turn < t.rxTurn
           /\ \A e, f \in t.rxQ : e \notin s.rxQ /\ f \in s.rxQ => f.turn < e.turn
<1>1. /\ s.rxTurn \in Nat /\ Len(sent) \in Nat
      /\ RxOn => t.rxTurn = s.rxTurn + Len(sent)
      /\ ~RxOn => t.rxTurn = s.rxTurn
      /\ \A e \in s.rxQ : e.turn \in Nat
  BY DEF SndState, RxEntry, Freed
<1>2. \A e \in t.rxQ : e \notin s.rxQ =>
         RxOn /\ \E i \in 1..Len(sent) : e.turn = s.rxTurn + i - 1
  BY FreedEntries
<1> QED
  BY <1>1, <1>2

LEMMA FreedOrder ==
    ASSUME NEW s \in SndState, NEW sent, NEW t, Freed(t, s, sent),
           NEW done, Numbers(s, done), Order(s), \A e \in s.rxQ : e.turn < s.rxTurn,
           t.closedWindowQ # <<>> => t.closedWindowQ[1].seq > t.sndRtWinEdge
    PROVE  Order(t)
<1> DEFINE n == Len(sent)
           q == Len(s.closedWindowQ)
           p == Len(t.closedWindowQ)
<1>1. q \in Nat /\ s.rxTurn \in Nat /\ \A e \in s.rxQ : e.turn \in Nat
  BY Fields
<1>2. \A e \in t.rxQ : e \notin s.rxQ =>
         \E i \in 1..n : /\ e.turn = s.rxTurn + i - 1
                         /\ e.pdu = s.closedWindowQ[i] /\ i \in 1..q
  BY FreedEntries
<1>3. \A i \in 1..p : i + n \in 1..q /\ t.closedWindowQ[i] = s.closedWindowQ[i + n] /\ n \in Nat
  BY FreedPlaces
<1>4. \A i, j \in 1..q : i < j => s.closedWindowQ[i].seq < s.closedWindowQ[j].seq
  BY DEF Numbers
<1>5. ASSUME NEW e \in t.rxQ, NEW f \in t.rxQ, e.turn < f.turn, ~e.pdu.empty, ~f.pdu.empty
      PROVE  e.pdu.seq < f.pdu.seq
  <2>1. CASE e \in s.rxQ /\ f \in s.rxQ
    BY <1>5, <2>1 DEF Order
  <2>2. CASE e \in s.rxQ /\ f \notin s.rxQ
    <3>1. PICK j \in 1..q : f.pdu = s.closedWindowQ[j]
      BY <1>2, <2>2
    <3> QED
      BY <1>5, <2>2, <3>1 DEF Order
  <2>3. CASE e \notin s.rxQ /\ f \notin s.rxQ
    <3> HIDE DEF n, q, p
    <3>1. PICK i \in 1..n : e.turn = s.rxTurn + i - 1 /\ e.pdu = s.closedWindowQ[i] /\ i \in 1..q
      BY <1>2, <2>3
    <3>2. PICK j \in 1..n : f.turn = s.rxTurn + j - 1 /\ f.pdu = s.closedWindowQ[j] /\ j \in 1..q
      BY <1>2, <2>3
    <3>3. i < j
      BY <1>1, <1>5, <3>1, <3>2
    <3> QED
      BY <1>4, <3>1, <3>2, <3>3
  <2>4. CASE e \notin s.rxQ /\ f \in s.rxQ
    <3>1. f.turn < e.turn
      BY <2>4, FreedTurns
    <3>2. f.turn \in Nat /\ e.turn \in Int
      <4> HIDE DEF n, q, p
      <4> QED
        BY <1>1, <1>2, <2>4
    <3> QED
      BY <1>5, <3>1, <3>2
  <2> QED
    BY <2>1, <2>2, <2>3, <2>4
<1>6. ASSUME NEW e \in t.rxQ, NEW i \in 1..p, ~e.pdu.empty
      PROVE  e.pdu.seq < t.closedWindowQ[i].seq
  <2> HIDE DEF n, q, p
  <2>1. i + n \in 1..q /\ t.closedWindowQ[i] = s.closedWindowQ[i + n] /\ n \in Nat
    BY <1>3
  <2>2. CASE e \in s.rxQ
    BY <1>6, <2>1, <2>2 DEF Order, q
  <2>3. CASE e \notin s.rxQ
    <3>1. PICK j \in 1..n : e.pdu = s.closedWindowQ[j] /\ j \in 1..q
      BY <1>2, <2>3
    <3>2. j < i + n
      BY <2>1, <3>1
    <3> QED
      BY <1>4, <2>1, <3>1, <3>2
  <2> QED
    BY <2>2, <2>3
<1> QED
  BY <1>5, <1>6 DEF Order

-----------------------------------------------------------------------------
(* DTP::handleMsgFromDelimiting. *)

LEMMA GeneratedPDUs ==
    ASSUME NEW s \in SndState, NEW k \in Nat, s.nextSeqNumToSend + k <= MaxSeq + 1
    PROVE  /\ Generated(s, k) \in Seq(DataPDU)
           /\ Len(Generated(s, k)) = k
           /\ \A i \in 1..k : Generated(s, k)[i].seq = s.nextSeqNumToSend + i - 1
           /\ Numbered(s, k) \in SndState
           /\ Numbered(s, k) = [s EXCEPT !.nextSeqNumToSend = s.nextSeqNumToSend + k,
                                         !.setDRFFlag = FALSE]
<1> DEFINE N == s.nextSeqNumToSend
           g == Generated(s, k)
<1>1. N \in Nat /\ N >= 1 /\ MaxSeq \in Nat
  BY Fields, QoSAssumption
<1>2. g = [i \in 1..k |-> [seq |-> N + i - 1, drf |-> s.setDRFFlag /\ i = 1, empty |-> FALSE]]
  BY DEF Generated
<1>3. \A i \in 1..k : N + i - 1 \in SeqNum
  <2> HIDE DEF N
  <2> QED
    BY <1>1 DEF SeqNum, N
<1>4. \A i \in 1..k : [seq |-> N + i - 1, drf |-> s.setDRFFlag /\ i = 1, empty |-> FALSE] \in DataPDU
  BY <1>3 DEF DataPDU
<1>5. N + k \in 1..(MaxSeq + 1)
  BY <1>1
<1>6. Numbered(s, k) = [s EXCEPT !.nextSeqNumToSend = N + k, !.setDRFFlag = FALSE]
  BY DEF Numbered
<1>7. Numbered(s, k) \in SndState
  BY <1>5, <1>6 DEF SndState
<1>8. g \in Seq(DataPDU) /\ Len(g) = k
  <2> HIDE DEF g, N
  <2> QED
    BY <1>2, <1>4
<1>9. \A i \in 1..k : g[i].seq = N + i - 1
  BY <1>2
<1> QED
  BY <1>6, <1>7, <1>8, <1>9

(* h is s with these PDUs at the end of the closed window queue. *)
Holding(h, s, held) ==
    /\ h \in SndState
    /\ Flags(h)
    /\ h.closedWindowQ = s.closedWindowQ \o held
    /\ h.nextSeqNumToSend = s.nextSeqNumToSend
    /\ h.sndRtWinEdge = s.sndRtWinEdge
    /\ h.rxQ = s.rxQ
    /\ h.rxTurn = s.rxTurn

LEMMA Holds ==
    ASSUME NEW s \in SndState, NEW n \in Nat, NEW held \in Seq(DataPDU), Flags(s), WindowFcOn
    PROVE  Holding(Hold(s, n, held), s, held)
<1> DEFINE h == Hold(s, n, held)
           q == s.closedWindowQ
           full == \/ s.blockingPort
                   \/ held # <<>> /\ Overruns(Len(q) + Len(held) - 1)
           closed == \/ s.closedWindow
                     \/ held # <<>>
                     \/ n > 0 /\ Len(q) >= MaxClosedWinQueLen
<1>1. h = [s EXCEPT !.closedWindowQ = q \o held, !.closedWindow = closed, !.blockingPort = full]
  BY DEF Hold
<1>2. q \in Seq(DataPDU) /\ q \o held \in Seq(DataPDU) /\ Len(q \o held) = Len(q) + Len(held)
      /\ Len(held) \in Nat /\ Len(q) \in Nat
  BY Fields
<1>3. (s.closedWindow \in BOOLEAN) /\ (s.blockingPort \in BOOLEAN)
  BY DEF SndState
<1>4. (closed \in BOOLEAN) /\ (full \in BOOLEAN)
  BY <1>3
<1> HIDE DEF closed, full
<1>5. h \in SndState
  BY <1>1, <1>2, <1>4 DEF SndState
<1>6. /\ h.closedWindowQ = q \o held /\ (h.closedWindow <=> closed) /\ (h.blockingPort <=> full)
      /\ h.nextSeqNumToSend = s.nextSeqNumToSend /\ h.sndRtWinEdge = s.sndRtWinEdge
      /\ h.rxQ = s.rxQ /\ h.rxTurn = s.rxTurn
  BY <1>1 DEF SndState
<1>7. ASSUME MaxClosedWinQueLen > 0
      PROVE  /\ full <=> Len(q) + Len(held) >= MaxClosedWinQueLen
             /\ closed <=> q \o held # <<>>
  <2>1. MaxClosedWinQueLen \in Nat /\ MaxClosedWinQueLen < Modulus /\ Modulus \in Nat
    BY SenderAssumption, QoSAssumption
  <2>2. UInt(MaxClosedWinQueLen - 1) = MaxClosedWinQueLen - 1
    <3>1. MaxClosedWinQueLen - 1 \in 0..(Modulus - 1) /\ MaxClosedWinQueLen - 1 \in Int
      BY <1>7, <2>1
    <3> QED
      BY <3>1, Wrapped
  <2>3. /\ s.blockingPort <=> Len(q) >= MaxClosedWinQueLen
        /\ s.closedWindow <=> q # <<>>
    BY <1>7 DEF Flags
  <2>4. held = <<>> <=> Len(held) = 0
    OBVIOUS
  <2>5. q = <<>> <=> Len(q) = 0
    BY <1>2
  <2>6. q \o held = <<>> <=> Len(q) + Len(held) = 0
    BY <1>2
  <2>7. full <=> Len(q) + Len(held) >= MaxClosedWinQueLen
    BY <1>2, <2>1, <2>2, <2>3, <2>4 DEF full, Overruns
  <2>8. closed <=> q \o held # <<>>
    BY <1>2, <1>7, <2>1, <2>3, <2>4, <2>5, <2>6 DEF closed
  <2> QED
    BY <2>7, <2>8
<1>8. Flags(h)
  BY <1>2, <1>6, <1>7 DEF Flags
<1> QED
  BY <1>5, <1>6, <1>8 DEF Holding

(* An SDU of k PDUs: some go out, the others wait; none goes out past a    *)
(* queue that the window holds back.                                       *)
LEMMA Writes ==
    ASSUME NEW s \in SndState, NEW k \in Nat, s.nextSeqNumToSend + k <= MaxSeq + 1, Flags(s),
           \A i \in 1..Len(s.closedWindowQ) : s.closedWindowQ[i].seq < s.nextSeqNumToSend
    PROVE  \E sent : LET t == TrySendGenerated(Numbered(s, k), Generated(s, k)).st
                     IN  /\ Written(t, s, k, sent)
                         /\ Flags(t)
                         /\ s.closedWindowQ # <<>> /\ s.closedWindowQ[1].seq > s.sndRtWinEdge =>
                               Len(sent) = 0
                         /\ s.closedWindowQ = <<>> /\ Len(sent) < k =>
                               s.nextSeqNumToSend + Len(sent) > s.sndRtWinEdge
<1> DEFINE N == s.nextSeqNumToSend
           g == Generated(s, k)
           num == Numbered(s, k)
           t == TrySendGenerated(num, g).st
           q == s.closedWindowQ
<1>1. /\ g \in Seq(DataPDU) /\ Len(g) = k
      /\ \A i \in 1..k : g[i].seq = N + i - 1
      /\ num \in SndState
      /\ num = [s EXCEPT !.nextSeqNumToSend = N + k, !.setDRFFlag = FALSE]
  BY GeneratedPDUs
<1>2. /\ num.nextSeqNumToSend = N + k /\ num.sndRtWinEdge = s.sndRtWinEdge
      /\ num.closedWindowQ = q /\ num.rxQ = s.rxQ /\ num.rxTurn = s.rxTurn
      /\ (num.closedWindow <=> s.closedWindow) /\ (num.blockingPort <=> s.blockingPort)
  BY <1>1 DEF SndState
<1>3. Flags(num)
  BY <1>2 DEF Flags
<1>4. N \in Nat /\ N >= 1 /\ q \in Seq(DataPDU) /\ Len(q) \in Nat /\ s.sndRtWinEdge \in Nat
  BY Fields
<1> HIDE DEF g, num
<1>5. CASE ~WindowFcOn
  <2>1. t = Post(num, g)
    BY <1>5 DEF TrySendGenerated, Outcome
  <2>2. Posted(t, num, g)
    BY <1>1, <2>1, PostPosts
  <2>3. q = <<>>
    BY <1>5 DEF Flags
  <2>4. Written(t, s, k, g)
    BY <1>1, <1>2, <1>4, <2>2, <2>3 DEF Posted, Written
  <2>5. Flags(t)
    BY <1>3, <2>2 DEF Flags, Posted
  <2> QED
    BY <1>1, <2>3, <2>4, <2>5 DEF num, g
<1>6. CASE WindowFcOn
  <2> DEFINE n == OpenPrefix(g, s.sndRtWinEdge)
             sent == SubSeq(g, 1, n)
             held == SubSeq(g, n + 1, Len(g))
             h == Hold(num, n, held)
  <2>1. /\ n \in 0..k
        /\ n < k => g[n + 1].seq > s.sndRtWinEdge
        /\ g # <<>> /\ g[1].seq > s.sndRtWinEdge => n = 0
    BY <1>1, <1>4, OpenPrefixStops
  <2> HIDE DEF n
  <2>2. /\ sent \in Seq(DataPDU) /\ Len(sent) = n /\ held \in Seq(DataPDU) /\ Len(held) = k - n
        /\ \A i \in 1..n : sent[i] = g[i]
        /\ \A i \in 1..(k - n) : held[i] = g[n + i]
    BY <1>1, <2>1
  <2>3. t = Post(h, sent)
    BY <1>2, <1>6 DEF TrySendGenerated, Outcome, n
  <2> HIDE DEF sent, held
  <2>4. /\ h \in SndState /\ Flags(h) /\ h.closedWindowQ = q \o held
        /\ h.nextSeqNumToSend = N + k /\ h.sndRtWinEdge = s.sndRtWinEdge
        /\ h.rxQ = s.rxQ /\ h.rxTurn = s.rxTurn
    <3>1. n \in Nat
      BY <2>1
    <3>2. Holding(h, num, held)
      BY <1>1, <1>3, <1>6, <2>2, <3>1, Holds
    <3> QED
      BY <1>2, <3>2 DEF Holding
  <2> HIDE DEF h
  <2>5. Posted(t, h, sent)
    BY <2>2, <2>3, <2>4, PostPosts
  <2>6. t.closedWindowQ = q \o held /\ t.nextSeqNumToSend = N + k
        /\ t.sndRtWinEdge = s.sndRtWinEdge
    BY <2>4, <2>5 DEF Posted
  <2>7. Len(t.closedWindowQ) = Len(q) + (k - n)
    BY <1>4, <2>2, <2>6
  <2>8. \A i \in 1..Len(q) : t.closedWindowQ[i] = q[i]
    BY <1>4, <2>2, <2>6
  <2>9. \A j \in (n + 1)..k : t.closedWindowQ[Len(q) + j - n].seq = N + j - 1
    <3> SUFFICES ASSUME NEW j \in (n + 1)..k
                 PROVE  t.closedWindowQ[Len(q) + j - n].seq = N + j - 1
      OBVIOUS
    <3>1. j - n \in 1..(k - n) /\ n + (j - n) = j /\ j \in 1..k
      BY <2>1
    <3>2. held[j - n] = g[j]
      BY <2>2, <3>1
    <3>3. (q \o held)[Len(q) + j - n] = held[j - n]
      BY <1>4, <2>1, <2>2, <3>1
    <3> QED
      BY <1>1, <2>6, <3>1, <3>2, <3>3
  <2>10. \A i \in 1..n : sent[i].seq = N + i - 1
    BY <1>1, <2>1, <2>2
  <2>11. Written(t, s, k, sent)
    BY <2>1, <2>2, <2>4, <2>5, <2>6, <2>7, <2>8, <2>9, <2>10 DEF Written, Posted
  <2>12. Flags(t)
    BY <2>4, <2>5 DEF Flags, Posted
  <2>13. ASSUME q # <<>>, q[1].seq > s.sndRtWinEdge PROVE n = 0
    <3>1. CASE k = 0
      BY <2>1, <3>1
    <3>2. CASE k # 0
      <4>1. g # <<>> /\ g[1].seq = N
        BY <1>1, <1>4, <3>2
      <4>2. q[1].seq < N /\ q[1].seq \in Nat
        BY <1>4, <2>13, Fields
      <4> QED
        BY <1>4, <2>1, <2>13, <4>1, <4>2
    <3> QED
      BY <3>1, <3>2
  <2>14. ASSUME n < k PROVE N + n > s.sndRtWinEdge
    <3>1. g[n + 1].seq = N + n
      BY <1>1, <1>4, <2>1, <2>14
    <3> QED
      BY <2>1, <2>14, <3>1
  <2> QED
    BY <2>2, <2>11, <2>12, <2>13, <2>14 DEF num, g
<1> QED
  BY <1>5, <1>6

LEMMA WriteKeepsGood ==
    ASSUME NEW s, NEW done, NEW ordered, Good(s, done, ordered),
           NEW k \in Nat, s.nextSeqNumToSend + k <= MaxSeq + 1
    PROVE  Good(TrySendGenerated(Numbered(s, k), Generated(s, k)).st, done, ordered)
<1> DEFINE t == TrySendGenerated(Numbered(s, k), Generated(s, k)).st
<1>1. /\ s \in SndState /\ Flags(s) /\ Numbers(s, done)
      /\ \A e \in s.rxQ : e.turn < s.rxTurn
      /\ ordered => Order(s)
  BY DEF Good
<1>2. \A i \in 1..Len(s.closedWindowQ) : s.closedWindowQ[i].seq < s.nextSeqNumToSend
  <2>1. s.nextSeqNumToSend \in Nat
    BY <1>1, Fields
  <2>2. \A i \in 1..Len(s.closedWindowQ) : s.closedWindowQ[i].seq \in 1..(s.nextSeqNumToSend - 1)
    BY <1>1 DEF Numbers
  <2> QED
    BY <2>1, <2>2
<1>3. PICK sent : /\ Written(t, s, k, sent)
                  /\ Flags(t)
                  /\ s.closedWindowQ # <<>> /\ s.closedWindowQ[1].seq > s.sndRtWinEdge =>
                        Len(sent) = 0
                  /\ s.closedWindowQ = <<>> /\ Len(sent) < k =>
                        s.nextSeqNumToSend + Len(sent) > s.sndRtWinEdge
  BY <1>1, <1>2, Writes
<1> HIDE DEF t
<1>4. Numbers(t, done)
  BY <1>1, <1>3, WrittenNumbers
<1>5. \A e \in t.rxQ : e.turn < t.rxTurn
  BY <1>1, <1>3, WrittenTurns
<1>6. ordered => Order(t)
  <2> SUFFICES ASSUME ordered PROVE Order(t)
    OBVIOUS
  <2>1. s.closedWindowQ # <<>> => Len(sent) = 0
    BY <1>1, <1>3 DEF Order
  <2> QED
    BY <1>1, <1>3, <2>1, WrittenOrder
<1>7. t \in SndState
  BY <1>3 DEF Written
<1> QED
  BY <1>3, <1>4, <1>5, <1>6, <1>7 DEF Good, t

-----------------------------------------------------------------------------
(* Control PDUs and timers. *)

(* t is s but for its kept PDUs, its edges and what it last saw. *)
Alike(t, s) ==
    /\ t \in SndState
    /\ t.nextSeqNumToSend = s.nextSeqNumToSend
    /\ t.closedWindowQ = s.closedWindowQ
    /\ t.closedWindow <=> s.closedWindow
    /\ t.blockingPort <=> s.blockingPort
    /\ t.rxTurn = s.rxTurn

(* Numbers of PDUs that are no longer kept are done with. *)
LEMMA KeepingFewer ==
    ASSUME NEW s, NEW done, NEW ordered, Good(s, done, ordered),
           NEW t, Alike(t, s), t.rxQ \subseteq s.rxQ,
           NEW still, still => ordered /\ t.sndRtWinEdge = s.sndRtWinEdge
    PROVE  Good(t, done \union (Outstanding(s) \ Outstanding(t)), still)
<1> DEFINE all == done \union (Outstanding(s) \ Outstanding(t))
           N == s.nextSeqNumToSend
           q == s.closedWindowQ
<1>1. /\ s \in SndState /\ Numbers(s, done) /\ Flags(s)
      /\ \A e \in s.rxQ : e.turn < s.rxTurn
      /\ ordered => Order(s)
  BY DEF Good
<1>2. t.nextSeqNumToSend = N /\ t.closedWindowQ = q /\ t.rxTurn = s.rxTurn /\ t \in SndState
  BY DEF Alike
<1>3. Flags(t)
  BY <1>1 DEF Flags, Alike
<1>4. still => Order(t)
  BY <1>1, <1>2 DEF Order
<1>5. Numbers(t, all)
  <2>1. /\ \A i \in 1..Len(q) : q[i].seq \in 1..(N - 1)
        /\ \A i, j \in 1..Len(q) : i < j => q[i].seq < q[j].seq
        /\ \A e \in t.rxQ : e.pdu.seq \in 1..(N - 1)
        /\ \A e, f \in t.rxQ : e.pdu.seq = f.pdu.seq => e = f
    BY <1>1 DEF Numbers
  <2>2. all \subseteq 1..(N - 1)
    <3>1. done \subseteq 1..(N - 1) /\ \A e \in s.rxQ : e.pdu.seq \in 1..(N - 1)
      BY <1>1 DEF Numbers
    <3> HIDE DEF N
    <3> QED
      BY <3>1 DEF Outstanding
  <2>3. \A e \in t.rxQ : e.pdu.seq \notin all
    BY <1>1 DEF Numbers, Outstanding
  <2>4. \A i \in 1..Len(q) : /\ q[i].seq \notin all
                             /\ \A e \in t.rxQ : q[i].seq # e.pdu.seq
    BY <1>1 DEF Numbers, Outstanding
  <2>5. RxOn => \A m \in 1..(N - 1) : \/ \E i \in 1..Len(q) : m = q[i].seq
                                      \/ \E e \in t.rxQ : m = e.pdu.seq
                                      \/ m \in all
    BY <1>1 DEF Numbers, Outstanding
  <2> QED
    BY <1>2, <2>1, <2>2, <2>3, <2>4, <2>5 DEF Numbers
<1> QED
  BY <1>1, <1>2, <1>3, <1>4, <1>5 DEF Good

(* Nothing changes for the invariant when no PDU is kept more or less.     *)
LEMMA KeepingAll ==
    ASSUME NEW s, NEW done, NEW ordered, Good(s, done, ordered),
           NEW t, Alike(t, s), t.rxQ = s.rxQ, t.sndRtWinEdge = s.sndRtWinEdge
    PROVE  Good(t, done, ordered)
<1>1. Good(t, done \union (Outstanding(s) \ Outstanding(t)), ordered)
  BY KeepingFewer
<1>2. Outstanding(t) = Outstanding(s)
  BY DEF Outstanding
<1>3. done \union (Outstanding(s) \ Outstanding(t)) = done
  BY <1>2
<1> QED
  BY <1>1, <1>3

(* DTP::sendEmptyDTPDU. *)
LEMMA EmptyKeepsGood ==
    ASSUME NEW s, NEW done, NEW ordered, Good(s, done, ordered), s.nextSeqNumToSend <= MaxSeq
    PROVE  Good(SendEmptyDTPDU(s), done, ordered) /\ Outstanding(s) \subseteq Outstanding(SendEmptyDTPDU(s))
<1> DEFINE N == s.nextSeqNumToSend
           tx == <<EmptyPDU(s)>>
           num == Numbered(s, 1)
           kept == IF RxOn THEN PushBackToRxQ(num, tx) ELSE num
           t == SendEmptyDTPDU(s)
<1>1. /\ s \in SndState /\ Numbers(s, done) /\ Flags(s)
      /\ \A e \in s.rxQ : e.turn < s.rxTurn
      /\ ordered => Order(s)
  BY DEF Good
<1>2. N \in Nat /\ N >= 1 /\ MaxSeq \in Nat /\ s.rxTurn \in Nat /\ Len(s.closedWindowQ) \in Nat
  BY <1>1, Fields, QoSAssumption
<1>3. num \in SndState /\ num = [s EXCEPT !.nextSeqNumToSend = N + 1, !.setDRFFlag = FALSE]
  <2>1. N + 1 <= MaxSeq + 1 /\ 1 \in Nat
    BY <1>2
  <2> QED
    BY <1>1, <2>1, GeneratedPDUs
<1>4. tx \in Seq(DataPDU) /\ Len(tx) = 1 /\ tx[1] = EmptyPDU(s)
  <2>1. EmptyPDU(s) \in DataPDU
    BY <1>1, <1>2 DEF EmptyPDU, DataPDU, SeqNum, SndState
  <2> QED
    BY <2>1
<1>5. tx[1].seq = N /\ (tx[1].empty <=> TRUE)
  BY <1>4 DEF EmptyPDU
<1> HIDE DEF tx, num
<1>6. /\ kept \in SndState
      /\ kept = IF RxOn THEN [num EXCEPT !.rxQ = @ \union Batch(num.rxTurn, tx),
                                         !.rxTurn = @ + Len(tx)]
                ELSE num
  BY <1>3, <1>4, PushedBack
<1> HIDE DEF kept
<1>7. PICK l \in SeqNum : SendToRMT(kept, tx) = [kept EXCEPT !.lastSeqNumSent = l]
  BY <1>4, <1>6, SentToRMT
<1>8. t = [kept EXCEPT !.lastSeqNumSent = l]
  BY <1>7 DEF SendEmptyDTPDU, tx, num, kept
<1>9. /\ t \in SndState
      /\ t.nextSeqNumToSend = N + 1
      /\ t.closedWindowQ = s.closedWindowQ
      /\ (t.closedWindow <=> s.closedWindow) /\ (t.blockingPort <=> s.blockingPort)
      /\ t.sndRtWinEdge = s.sndRtWinEdge
      /\ t.rxQ = IF RxOn THEN s.rxQ \union Batch(s.rxTurn, tx) ELSE s.rxQ
      /\ t.rxTurn = IF RxOn THEN s.rxTurn + Len(tx) ELSE s.rxTurn
  <2>1. t \in SndState
    BY <1>6, <1>7, <1>8 DEF SndState
  <2>2. /\ t.nextSeqNumToSend = kept.nextSeqNumToSend /\ t.closedWindowQ = kept.closedWindowQ
        /\ (t.closedWindow <=> kept.closedWindow) /\ (t.blockingPort <=> kept.blockingPort)
        /\ t.sndRtWinEdge = kept.sndRtWinEdge /\ t.rxQ = kept.rxQ /\ t.rxTurn = kept.rxTurn
    BY <1>6, <1>8 DEF SndState
  <2>3. /\ kept.nextSeqNumToSend = num.nextSeqNumToSend /\ kept.closedWindowQ = num.closedWindowQ
        /\ (kept.closedWindow <=> num.closedWindow) /\ (kept.blockingPort <=> num.blockingPort)
        /\ kept.sndRtWinEdge = num.sndRtWinEdge
        /\ kept.rxQ = IF RxOn THEN num.rxQ \union Batch(num.rxTurn, tx) ELSE num.rxQ
        /\ kept.rxTurn = IF RxOn THEN num.rxTurn + Len(tx) ELSE num.rxTurn
    BY <1>3, <1>6 DEF SndState
  <2>4. /\ num.nextSeqNumToSend = N + 1 /\ num.closedWindowQ = s.closedWindowQ
        /\ (num.closedWindow <=> s.closedWindow) /\ (num.blockingPort <=> s.blockingPort)
        /\ num.sndRtWinEdge = s.sndRtWinEdge /\ num.rxQ = s.rxQ /\ num.rxTurn = s.rxTurn
    BY <1>1, <1>3 DEF SndState
  <2> QED
    BY <2>1, <2>2, <2>3, <2>4
<1> HIDE DEF t
<1>10. Written(t, s, 1, tx)
  BY <1>2, <1>4, <1>5, <1>9 DEF Written
<1>11. Numbers(t, done) /\ \A e \in t.rxQ : e.turn < t.rxTurn
  BY <1>1, <1>10, WrittenNumbers, WrittenTurns
<1>12. Flags(t)
  BY <1>1, <1>9 DEF Flags
<1>13. \A e \in t.rxQ : e \notin s.rxQ => e.pdu.empty
  <2> SUFFICES ASSUME NEW e \in t.rxQ, e \notin s.rxQ PROVE e.pdu.empty
    OBVIOUS
  <2>1. PICK i \in 1..Len(tx) : e.pdu = tx[i]
    BY <1>1, <1>10, WrittenEntries
  <2>2. i = 1
    BY <1>4, <2>1
  <2> QED
    BY <1>5, <2>1, <2>2
<1>14. ordered => Order(t)
  BY <1>1, <1>9, <1>13 DEF Order
<1>15. Outstanding(s) \subseteq Outstanding(t)
  BY <1>9 DEF Outstanding
<1> QED
  BY <1>9, <1>11, <1>12, <1>14, <1>15 DEF Good, t

(* DTP::commonRcvControl. *)
LEMMA NumberingKeepsGood ==
    ASSUME NEW s, NEW done, NEW ordered, Good(s, done, ordered),
           NEW m, m.seq \in Nat, LostControl(s, m) => s.nextSeqNumToSend <= MaxSeq
    PROVE  Good(Numbering(s, m), done, ordered) /\ Outstanding(s) \subseteq Outstanding(Numbering(s, m))
<1> DEFINE b == IF LostControl(s, m) THEN SendEmptyDTPDU(s) ELSE s
           t == Numbering(s, m)
<1>1. Good(b, done, ordered) /\ Outstanding(s) \subseteq Outstanding(b)
  BY EmptyKeepsGood
<1>2. t = [b EXCEPT !.lastControlSeqNumRcv = m.seq]
  BY DEF Numbering
<1> HIDE DEF b, t
<1>3. b \in SndState
  BY <1>1 DEF Good
<1>4. Alike(t, b) /\ t.rxQ = b.rxQ /\ t.sndRtWinEdge = b.sndRtWinEdge
  BY <1>2, <1>3 DEF Alike, SndState
<1>5. Good(t, done, ordered)
  BY <1>1, <1>4, KeepingAll
<1>6. Outstanding(t) = Outstanding(b)
  BY <1>4 DEF Outstanding
<1> QED
  BY <1>1, <1>5, <1>6 DEF t

(* UpdateSndLWE after AckPDU. *)
LEMMA Acknowledges ==
    ASSUME NEW s \in SndState, NEW a \in Int, NEW n \in 0..(Modulus - 1)
    PROVE  LET t == UpdateSndLWE(AckPDU(s, a), n)
           IN  Alike(t, s) /\ t.rxQ \subseteq s.rxQ /\ t.sndRtWinEdge = s.sndRtWinEdge
<1> DEFINE b == AckPDU(s, a)
<1>1. b = [s EXCEPT !.rxQ = s.rxQ \ AckedBy(s, a)]
  BY DEF AckPDU
<1>2. s.rxQ \ AckedBy(s, a) \in SUBSET RxEntry
  BY Fields
<1>3. b \in SndState
  BY <1>1, <1>2 DEF SndState
<1>4. PICK e \in 0..(Modulus - 1) : UpdateSndLWE(b, n) = [b EXCEPT !.senderLeftWinEdge = e]
  BY <1>3, UpdatedSndLWE
<1> HIDE DEF b
<1> DEFINE t == UpdateSndLWE(b, n)
<1>5. Alike(t, b) /\ t.rxQ = b.rxQ /\ t.sndRtWinEdge = b.sndRtWinEdge
  BY <1>3, <1>4 DEF Alike, SndState
<1> HIDE DEF t
<1>6. Alike(b, s) /\ b.rxQ \subseteq s.rxQ /\ b.sndRtWinEdge = s.sndRtWinEdge
  BY <1>1, <1>3 DEF Alike, SndState
<1>7. Alike(t, s) /\ t.rxQ \subseteq s.rxQ /\ t.sndRtWinEdge = s.sndRtWinEdge
  BY <1>5, <1>6 DEF Alike
<1> QED
  BY <1>7 DEF t, b

(* A window that opens lets out what it admits, and the port with it.      *)
LEMMA FlowControlKeepsGood ==
    ASSUME NEW s, NEW done, NEW ordered, Good(s, done, ordered), NEW edge \in Nat
    PROVE  /\ Good(FlowControlled(s, edge).st, done, ordered)
           /\ Outstanding(s) \subseteq Outstanding(FlowControlled(s, edge).st)
<1> DEFINE opened == [s EXCEPT !.sndRtWinEdge = edge]
           q == s.closedWindowQ
           n == OpenPrefix(q, edge)
           sent == SubSeq(q, 1, n)
           rest == SubSeq(q, n + 1, Len(q))
           r == Released(opened, n)
           t == FlowControlled(s, edge).st
<1>1. /\ s \in SndState /\ Numbers(s, done) /\ Flags(s)
      /\ \A e \in s.rxQ : e.turn < s.rxTurn
      /\ ordered => Order(s)
  BY DEF Good
<1>2. q \in Seq(DataPDU) /\ Len(q) \in Nat
  BY <1>1, Fields
<1>3. opened \in SndState /\ Alike(opened, s) /\ opened.rxQ = s.rxQ /\ opened.sndRtWinEdge = edge
  BY <1>1 DEF SndState, Alike
<1>4. CASE q = <<>>
  <2>1. t = opened
    BY <1>4 DEF FlowControlled, Outcome
  <2>2. Numbers(t, done) /\ Flags(t) /\ \A e \in t.rxQ : e.turn < t.rxTurn
    BY <1>1, <1>3, <2>1 DEF Numbers, Flags, Alike
  <2>3. ordered => Order(t)
    BY <1>1, <1>3, <1>4, <2>1 DEF Order, Alike
  <2> QED
    BY <1>3, <2>1, <2>2, <2>3 DEF Good, Outstanding
<1>5. CASE q # <<>>
  <2>1. n \in 0..Len(q) /\ (n < Len(q) => q[n + 1].seq > edge)
    BY <1>2, OpenPrefixStops
  <2> HIDE DEF n
  <2>2. /\ sent \in Seq(DataPDU) /\ Len(sent) = n
        /\ rest \in Seq(DataPDU) /\ Len(rest) = Len(q) - n
        /\ \A i \in 1..n : sent[i] = q[i]
        /\ \A i \in 1..(Len(q) - n) : rest[i] = q[i + n]
    BY <1>2, <2>1
  <2>3. t = Post(r, sent)
    BY <1>3, <1>5 DEF FlowControlled, Outcome, n, Alike
  <2> DEFINE closed == rest # <<>> \/ (n > 0 /\ MaxClosedWinQueLen = 0)
             full == s.blockingPort /\ Len(rest) >= MaxClosedWinQueLen
  <2>4. r = [opened EXCEPT !.closedWindowQ = rest, !.closedWindow = closed, !.blockingPort = full]
    BY <1>1 DEF Released, SndState
  <2> HIDE DEF sent, rest
  <2>5. (s.blockingPort \in BOOLEAN) /\ (closed \in BOOLEAN) /\ (full \in BOOLEAN)
    BY <1>1 DEF SndState
  <2> HIDE DEF closed, full, r, opened
  <2>6. r \in SndState
    BY <1>3, <2>2, <2>4, <2>5 DEF SndState
  <2>7. /\ r.closedWindowQ = rest /\ (r.closedWindow <=> closed) /\ (r.blockingPort <=> full)
        /\ r.nextSeqNumToSend = opened.nextSeqNumToSend /\ r.sndRtWinEdge = opened.sndRtWinEdge
        /\ r.rxQ = opened.rxQ /\ r.rxTurn = opened.rxTurn
    BY <1>3, <2>4 DEF SndState
  <2>8. Flags(r)
    <3>1. WindowFcOn
      BY <1>1, <1>5 DEF Flags
    <3>2. ASSUME MaxClosedWinQueLen > 0
          PROVE  (full <=> Len(rest) >= MaxClosedWinQueLen) /\ (closed <=> rest # <<>>)
      <4>1. s.blockingPort <=> Len(q) >= MaxClosedWinQueLen
        BY <1>1, <3>2 DEF Flags
      <4>2. MaxClosedWinQueLen \in Nat
        BY SenderAssumption
      <4> QED
        BY <1>2, <2>1, <2>2, <3>2, <4>1, <4>2 DEF full, closed
    <3> QED
      BY <2>7, <3>1, <3>2 DEF Flags
  <2>9. Posted(t, r, sent)
    BY <2>2, <2>3, <2>6, PostPosts
  <2>10. /\ t \in SndState /\ t.nextSeqNumToSend = s.nextSeqNumToSend
         /\ t.closedWindowQ = rest /\ t.sndRtWinEdge = edge
         /\ t.rxQ = IF RxOn THEN s.rxQ \union Batch(s.rxTurn, sent) ELSE s.rxQ
         /\ t.rxTurn = IF RxOn THEN s.rxTurn + Len(sent) ELSE s.rxTurn
    BY <1>3, <2>7, <2>9 DEF Posted, Alike
  <2> HIDE DEF t
  <2>11. Freed(t, s, sent)
    BY <2>1, <2>2, <2>10 DEF Freed
  <2>12. Flags(t)
    BY <2>8, <2>9 DEF Flags, Posted
  <2>13. Numbers(t, done) /\ \A e \in t.rxQ : e.turn < t.rxTurn
    BY <1>1, <2>11, FreedNumbers, FreedTurns
  <2>14. t.closedWindowQ # <<>> => t.closedWindowQ[1].seq > t.sndRtWinEdge
    <3> SUFFICES ASSUME rest # <<>> PROVE rest[1].seq > edge
      BY <2>10
    <3>1. Len(rest) # 0 /\ n \in Nat
      <4>1. \A l \in Seq(DataPDU) : Len(l) = 0 => l = <<>>
        OBVIOUS
      <4> QED
        BY <1>2, <2>1, <2>2, <4>1
    <3> HIDE DEF q
    <3>2. n < Len(q) /\ 1 \in 1..(Len(q) - n) /\ 1 + n = n + 1
      BY <1>2, <2>1, <2>2, <3>1
    <3>3. rest[1] = q[n + 1]
      BY <2>2, <3>2
    <3> QED
      BY <2>1, <3>2, <3>3
  <2>15. ordered => Order(t)
    BY <1>1, <2>11, <2>14, FreedOrder
  <2>16. Outstanding(s) \subseteq Outstanding(t)
    BY <2>10 DEF Outstanding
  <2> QED
    BY <2>10, <2>12, <2>13, <2>15, <2>16 DEF Good, t
<1> QED
  BY <1>4, <1>5

(* RcvrControlAckPolicyBase: the window moves without the queue.           *)
LEMMA ControlAckKeepsGood ==
    ASSUME NEW s, NEW done, NEW ordered, Good(s, done, ordered),
           NEW m, m.lwe \in 0..(Modulus - 1), m.rwe \in Nat
    PROVE  Good(RcvrControlAck(s, m), done \union (Outstanding(s) \ Outstanding(RcvrControlAck(s, m))),
                FALSE)
<1> DEFINE heard == IF m.lwe > s.senderLeftWinEdge
                      THEN UpdateSndLWE(AckPDU(s, m.lwe - 1), m.lwe) ELSE s
           tx == <<RepeatedEmptyPDU(s)>>
           opened == [heard EXCEPT !.sndRtWinEdge = m.rwe]
           t == RcvrControlAck(s, m)
<1>1. s \in SndState
  BY DEF Good
<1>2. s.nextSeqNumToSend \in 1..(MaxSeq + 1) /\ MaxSeq \in Nat /\ Modulus \in Nat
  BY <1>1, QoSAssumption DEF SndState
<1>3. Alike(heard, s) /\ heard.rxQ \subseteq s.rxQ
  <2>1. CASE m.lwe > s.senderLeftWinEdge
    <3>1. m.lwe - 1 \in Int
      BY <1>2
    <3> QED
      BY <1>1, <2>1, <3>1, Acknowledges
  <2>2. CASE ~(m.lwe > s.senderLeftWinEdge)
    BY <1>1, <2>2 DEF Alike
  <2> QED
    BY <2>1, <2>2
<1>4. tx \in Seq(DataPDU)
  <2>1. RepeatedEmptyPDU(s) \in DataPDU
    BY <1>2 DEF RepeatedEmptyPDU, DataPDU, SeqNum
  <2> QED
    BY <2>1
<1>5. t = SendToRMT(opened, tx)
  BY DEF RcvrControlAck
<1> HIDE DEF heard, tx
<1>6. heard \in SndState
  BY <1>3 DEF Alike
<1>7. opened \in SndState /\ Alike(opened, heard) /\ opened.rxQ = heard.rxQ
  BY <1>6 DEF Alike, SndState
<1> HIDE DEF opened
<1>8. PICK l \in SeqNum : SendToRMT(opened, tx) = [opened EXCEPT !.lastSeqNumSent = l]
  BY <1>4, <1>7, SentToRMT
<1>9. Alike(t, opened) /\ t.rxQ = opened.rxQ
  BY <1>5, <1>7, <1>8 DEF Alike, SndState
<1> HIDE DEF t
<1>10. Alike(t, s) /\ t.rxQ \subseteq s.rxQ
  BY <1>3, <1>7, <1>9 DEF Alike
<1>11. Good(t, done \union (Outstanding(s) \ Outstanding(t)), FALSE)
  BY <1>10, KeepingFewer
<1> QED
  BY <1>11 DEF t

(* What a peer may say. *)
Says(m) ==
    /\ m.seq \in Nat
    /\ m.ack \in 0..(Modulus - 1)
    /\ m.lwe \in 0..(Modulus - 1)
    /\ m.rwe \in Nat

(* Any control PDU: the numbers that leave the kept PDUs are those         *)
(* acknowledged.                                                           *)
LEMMA ControlKeepsGood ==
    ASSUME NEW s, NEW done, NEW ordered, Good(s, done, ordered),
           NEW m, Says(m), LostControl(s, m) => s.nextSeqNumToSend <= MaxSeq,
           NEW still, still => ordered /\ (m.kind = "ctrlAck" => DuplicateControl(s, m))
    PROVE  LET t == HandleControl(s, m).st
           IN  Good(t, done \union (Outstanding(Numbering(s, m)) \ Outstanding(t)), still)
<1> DEFINE s1 == Numbering(s, m)
           s2 == IF Carries(m.kind).ack THEN SenderAck(s1, m.ack) ELSE s1
           fc == FlowControlled(s2, m.rwe).st
           t == HandleControl(s, m).st
<1>1. Good(s1, done, ordered) /\ Outstanding(s) \subseteq Outstanding(s1)
  BY NumberingKeepsGood DEF Says
<1>2. CASE DuplicateControl(s, m)
  <2>1. t = s
    BY <1>2 DEF HandleControl, Outcome
  <2>2. ~LostControl(s, m)
    <3>1. m.seq \in Nat /\ s.lastControlSeqNumRcv \in Nat
      BY DEF Says, Good, SndState
    <3> QED
      BY <1>2, <3>1 DEF DuplicateControl, LostControl
  <2>3. Outstanding(s1) = Outstanding(s)
    BY <2>2 DEF Numbering, Outstanding, Good, SndState
  <2>4. Good(s, done, still)
    BY DEF Good
  <2>5. done \union (Outstanding(s1) \ Outstanding(t)) = done
    BY <2>1, <2>3
  <2> QED
    BY <2>1, <2>4, <2>5
<1>3. CASE ~DuplicateControl(s, m) /\ m.kind = "ctrlAck"
  <2>1. t = RcvrControlAck(s1, m) /\ ~still
    BY <1>3 DEF HandleControl, Outcome
  <2>2. Good(t, done \union (Outstanding(s1) \ Outstanding(t)), FALSE)
    BY <1>1, <2>1, ControlAckKeepsGood DEF Says
  <2> QED
    BY <2>1, <2>2 DEF Good
<1>4. CASE ~DuplicateControl(s, m) /\ m.kind # "ctrlAck"
  <2> DEFINE more == done \union (Outstanding(s1) \ Outstanding(s2))
  <2>1. Good(s2, more, ordered) /\ Outstanding(s2) \subseteq Outstanding(s1)
    <3>1. CASE Carries(m.kind).ack
      <4>1. s2 = UpdateSndLWE(AckPDU(s1, m.ack), UInt(m.ack + 1))
        BY <3>1 DEF SenderAck
      <4>2. m.ack \in Int /\ UInt(m.ack + 1) \in 0..(Modulus - 1)
        <5>1. m.ack \in Int /\ m.ack + 1 \in Int
          BY QoSAssumption DEF Says
        <5> QED
          BY <5>1, Wrapped
      <4>3. s1 \in SndState
        BY <1>1 DEF Good
      <4> HIDE DEF s1, s2
      <4>4. Alike(s2, s1) /\ s2.rxQ \subseteq s1.rxQ /\ s2.sndRtWinEdge = s1.sndRtWinEdge
        BY <4>1, <4>2, <4>3, Acknowledges
      <4>5. Good(s2, more, ordered)
        BY <1>1, <4>4, KeepingFewer
      <4>6. Outstanding(s2) \subseteq Outstanding(s1)
        BY <4>4 DEF Outstanding
      <4> QED
        BY <4>5, <4>6
    <3>2. CASE ~Carries(m.kind).ack
      <4>1. s2 = s1
        BY <3>2
      <4> HIDE DEF s1, s2
      <4>2. more = done
        BY <4>1
      <4> QED
        BY <1>1, <4>1, <4>2
    <3> QED
      BY <3>1, <3>2
  <2>2. Good(s2, more, still)
    BY <2>1 DEF Good
  <2>3. CASE Carries(m.kind).fc
    <3>1. t = fc
      BY <1>4, <2>3 DEF HandleControl, Outcome, FlowControlled
    <3>2. Good(fc, more, still) /\ Outstanding(s2) \subseteq Outstanding(fc)
      <4> HIDE DEF s2, more
      <4> QED
        BY <2>2, FlowControlKeepsGood DEF Says
    <3> HIDE DEF fc, s1, s2, t
    <3>3. \A x \in more : x \notin Outstanding(fc)
      <4> HIDE DEF more
      <4>1. Numbers(fc, more)
        BY <3>2 DEF Good
      <4> QED
        BY <4>1 DEF Numbers, Outstanding
    <3>4. done \union (Outstanding(s1) \ Outstanding(fc)) = more
      BY <3>2, <3>3
    <3> QED
      BY <3>1, <3>2, <3>4 DEF s1, t
  <2>4. CASE ~Carries(m.kind).fc
    <3>1. t = s2
      BY <1>4, <2>4 DEF HandleControl, Outcome
    <3> QED
      BY <2>2, <3>1
  <2> QED
    BY <2>3, <2>4
<1> QED
  BY <1>2, <1>3, <1>4

(* DTCP::handleDTCPRxExpiryTimer: the entry goes, or is counted once more. *)
LEMMA TimerKeepsGood ==
    ASSUME NEW s, NEW done, NEW ordered, Good(s, done, ordered), NEW e \in s.rxQ
    PROVE  LET t == RxTimerExpiry(s, e).st
           IN  Good(t, done \union (Outstanding(s) \ Outstanding(t)), ordered)
<1> DEFINE t == RxTimerExpiry(s, e).st
<1>1. /\ s \in SndState /\ Numbers(s, done) /\ Flags(s)
      /\ \A f \in s.rxQ : f.turn < s.rxTurn
      /\ ordered => Order(s)
  BY DEF Good
<1>2. e \in RxEntry /\ s.rxQ \in SUBSET RxEntry
  BY <1>1 DEF SndState
<1>3. CASE e.expiryCount = DataReXmitMax + 1
  <2>1. t = [s EXCEPT !.rxQ = s.rxQ \ {e}]
    BY <1>3 DEF RxTimerExpiry, Outcome
  <2>2. Alike(t, s) /\ t.rxQ \subseteq s.rxQ /\ t.sndRtWinEdge = s.sndRtWinEdge
    BY <1>1, <1>2, <2>1 DEF Alike, SndState
  <2> QED
    BY <2>2, KeepingFewer
<1>4. CASE e.expiryCount # DataReXmitMax + 1
  <2> DEFINE counted == [e EXCEPT !.expiryCount = @ + 1]
             b == [s EXCEPT !.rxQ = (@ \ {e}) \union {counted}]
             tx == <<e.pdu>>
  <2>1. /\ counted \in RxEntry /\ counted.pdu = e.pdu /\ counted.turn = e.turn
    BY <1>2 DEF RxEntry
  <2>2. tx \in Seq(DataPDU)
    <3>1. e.pdu \in DataPDU
      BY <1>2 DEF RxEntry
    <3> QED
      BY <3>1
  <2>3. t = SendToRMT(b, tx)
    BY <1>4 DEF RxTimerExpiry, Outcome
  <2> HIDE DEF counted, tx
  <2>4. b \in SndState /\ Alike(b, s) /\ b.rxQ = (s.rxQ \ {e}) \union {counted}
        /\ b.sndRtWinEdge = s.sndRtWinEdge
    BY <1>1, <1>2, <2>1 DEF Alike, SndState
  <2> HIDE DEF b
  <2>5. PICK l \in SeqNum : SendToRMT(b, tx) = [b EXCEPT !.lastSeqNumSent = l]
    BY <2>2, <2>4, SentToRMT
  <2>6. Alike(t, b) /\ t.rxQ = b.rxQ /\ t.sndRtWinEdge = b.sndRtWinEdge
    BY <2>3, <2>4, <2>5 DEF Alike, SndState
  <2> HIDE DEF t
  <2>7. Alike(t, s) /\ t.rxQ = (s.rxQ \ {e}) \union {counted} /\ t.sndRtWinEdge = s.sndRtWinEdge
    BY <2>4, <2>6 DEF Alike
  <2>8. \A f \in t.rxQ : \E g \in s.rxQ : f.pdu = g.pdu /\ f.turn = g.turn /\ (f # g => f = counted)
                                          /\ (f = counted => g = e)
    <3> SUFFICES ASSUME NEW f \in t.rxQ
                 PROVE  \E g \in s.rxQ : f.pdu = g.pdu /\ f.turn = g.turn /\ (f # g => f = counted)
                                          /\ (f = counted => g = e)
      OBVIOUS
    <3>1. CASE f = counted
      BY <2>1, <3>1
    <3>2. CASE f # counted
      BY <2>7, <3>2
    <3> QED
      BY <3>1, <3>2
  <2>9. \A g \in s.rxQ : \E f \in t.rxQ : f.pdu = g.pdu
    BY <2>1, <2>7
  <2>10. Numbers(t, done)
    <3>1. /\ t.nextSeqNumToSend = s.nextSeqNumToSend /\ t.closedWindowQ = s.closedWindowQ
      BY <2>7 DEF Alike
    <3>2. ASSUME NEW f \in t.rxQ, NEW g \in t.rxQ, f.pdu.seq = g.pdu.seq PROVE f = g
      <4>1. PICK x \in s.rxQ : f.pdu = x.pdu /\ (f # x => f = counted) /\ (f = counted => x = e)
        BY <2>8
      <4>2. PICK y \in s.rxQ : g.pdu = y.pdu /\ (g # y => g = counted) /\ (g = counted => y = e)
        BY <2>8
      <4>3. x = y
        BY <1>1, <3>2, <4>1, <4>2 DEF Numbers
      <4>4. e \in t.rxQ => e = counted
        BY <2>7
      <4> QED
        BY <4>1, <4>2, <4>3, <4>4
    <3>3. \A f \in t.rxQ : f.pdu.seq \in 1..(s.nextSeqNumToSend - 1) /\ f.pdu.seq \notin done
      BY <1>1, <2>8 DEF Numbers
    <3>4. \A i \in 1..Len(s.closedWindowQ) : \A f \in t.rxQ : s.closedWindowQ[i].seq # f.pdu.seq
      BY <1>1, <2>8 DEF Numbers
    <3>5. \A m : (\E g \in s.rxQ : m = g.pdu.seq) => (\E f \in t.rxQ : m = f.pdu.seq)
      BY <2>9
    <3>6. ASSUME RxOn, NEW m \in 1..(s.nextSeqNumToSend - 1)
          PROVE  \/ \E i \in 1..Len(s.closedWindowQ) : m = s.closedWindowQ[i].seq
                 \/ \E f \in t.rxQ : m = f.pdu.seq
                 \/ m \in done
      <4>1. \/ \E i \in 1..Len(s.closedWindowQ) : m = s.closedWindowQ[i].seq
            \/ \E g \in s.rxQ : m = g.pdu.seq
            \/ m \in done
        BY <1>1, <3>6 DEF Numbers
      <4> QED
        BY <3>5, <4>1
    <3>7. /\ \A i \in 1..Len(s.closedWindowQ) :
                s.closedWindowQ[i].seq \in 1..(s.nextSeqNumToSend - 1)
          /\ \A i, j \in 1..Len(s.closedWindowQ) :
                i < j => s.closedWindowQ[i].seq < s.closedWindowQ[j].seq
          /\ done \subseteq 1..(s.nextSeqNumToSend - 1)
          /\ \A i \in 1..Len(s.closedWindowQ) : s.closedWindowQ[i].seq \notin done
      BY <1>1 DEF Numbers
    <3>8. \A f, g \in t.rxQ : f.pdu.seq = g.pdu.seq => f = g
      BY <3>2
    <3>9. /\ \A i \in 1..Len(t.closedWindowQ) :
                t.closedWindowQ[i].seq \in 1..(t.nextSeqNumToSend - 1)
          /\ \A i, j \in 1..Len(t.closedWindowQ) :
                i < j => t.closedWindowQ[i].seq < t.closedWindowQ[j].seq
          /\ done \subseteq 1..(t.nextSeqNumToSend - 1)
      BY <3>1, <3>7
    <3>10. /\ \A f \in t.rxQ : f.pdu.seq \in 1..(t.nextSeqNumToSend - 1)
           /\ \A f \in t.rxQ : f.pdu.seq \notin done
      BY <3>1, <3>3
    <3>11. \A i \in 1..Len(t.closedWindowQ) :
              /\ t.closedWindowQ[i].seq \notin done
              /\ \A f \in t.rxQ : t.closedWindowQ[i].seq # f.pdu.seq
      BY <3>1, <3>4, <3>7
    <3>12. RxOn => \A m \in 1..(t.nextSeqNumToSend - 1) :
                      \/ \E i \in 1..Len(t.closedWindowQ) : m = t.closedWindowQ[i].seq
                      \/ \E f \in t.rxQ : m = f.pdu.seq
                      \/ m \in done
      BY <3>1, <3>6
    <3> QED
      BY ONLY <3>8, <3>9, <3>10, <3>11, <3>12 DEF Numbers
  <2>11. Flags(t) /\ \A f \in t.rxQ : f.turn < t.rxTurn
    BY <1>1, <2>7, <2>8 DEF Flags, Alike
  <2>12. ordered => Order(t)
    BY <1>1, <2>7, <2>8 DEF Order, Alike
  <2>13. done \union (Outstanding(s) \ Outstanding(t)) = done
    <3>1. Outstanding(s) \subseteq Outstanding(t)
      BY <2>9 DEF Outstanding
    <3> QED
      BY <3>1
  <2>14. Good(t, done, ordered)
    BY <2>7, <2>10, <2>11, <2>12 DEF Good, Alike
  <2> QED
    BY <2>13, <2>14 DEF t
<1> QED
  BY <1>3, <1>4

-----------------------------------------------------------------------------
LEMMA InvInit ==
    ASSUME Init
    PROVE  IInv
<1>1. /\ MaxSeq \in Nat /\ Modulus \in Nat /\ Modulus > 0
      /\ SndCredit \in Nat /\ MaxClosedWinQueLen \in Nat
  BY QoSAssumption, SenderAssumption
<1>2. InitSnd \in SndState
  BY <1>1 DEF InitSnd, SndState, SeqNum
<1>3. Numbers(InitSnd, {})
  BY DEF InitSnd, Numbers
<1>4. Flags(InitSnd)
  BY <1>1 DEF InitSnd, Flags
<1>5. Order(InitSnd) /\ InitSnd.rxQ = {}
  BY DEF InitSnd, Order
<1>6. snd = InitSnd /\ acked = {} /\ abandoned = {} /\ acked \union abandoned = {}
      /\ (controlAcked <=> FALSE)
  BY DEF Init
<1>7. TypeOK
  BY <1>2, <1>6 DEF Init, TypeOK
<1>8. Good(InitSnd, {}, ~controlAcked)
  BY <1>2, <1>3, <1>4, <1>5 DEF Good
<1> QED
  BY <1>6, <1>7, <1>8 DEF IInv

LEMMA InvNext ==
    ASSUME IInv, [Next]_vars
    PROVE  IInv'
<1> DEFINE done == acked \union abandoned
<1>1. TypeOK /\ Good(snd, done, ~controlAcked)
  BY DEF IInv
<1>2. ASSUME NEW x, NEW a, NEW b, Good(x, a, b) PROVE x \in SndState /\ a \subseteq SeqNum
  <2>1. x \in SndState /\ a \subseteq 1..(x.nextSeqNumToSend - 1)
    BY <1>2 DEF Good, Numbers
  <2>2. x.nextSeqNumToSend \in Nat /\ x.nextSeqNumToSend <= MaxSeq + 1 /\ MaxSeq \in Nat
    BY <2>1, Fields, QoSAssumption
  <2> QED
    BY <2>1, <2>2 DEF SeqNum
<1>3. ASSUME NEW k \in 1..MaxFragments, WriteSDU(k)
      PROVE  IInv'
  <2>1. /\ snd' = TrySendGenerated(Numbered(snd, k), Generated(snd, k)).st
        /\ snd.nextSeqNumToSend + k <= MaxSeq + 1
        /\ UNCHANGED <<acked, abandoned, controlAcked>>
    BY <1>3 DEF WriteSDU
  <2>2. k \in Nat
    BY SenderAssumption
  <2>3. Good(snd', done, ~controlAcked)
    BY <1>1, <2>1, <2>2, WriteKeepsGood
  <2>4. TypeOK'
    BY <1>1, <1>2, <2>1, <2>3 DEF TypeOK
  <2> QED
    BY <2>1, <2>3, <2>4 DEF IInv
<1>4. ASSUME NEW n \in 1..MaxCtrl, NEW kind \in PeerKinds,
             NEW ack \in PeerAcks, NEW rwe \in PeerRWEs, NEW lwe \in PeerLWEs,
             ReceiveControl([seq |-> n, kind |-> kind, ack |-> ack, rwe |-> rwe, lwe |-> lwe])
      PROVE  IInv'
  <2> DEFINE m == [seq |-> n, kind |-> kind, ack |-> ack, rwe |-> rwe, lwe |-> lwe]
             gone == Outstanding(Numbering(snd, m)) \ Outstanding(snd')
  <2>1. Says(m)
    <3>1. n \in Nat /\ ack \in 0..(Modulus - 1) /\ lwe \in 0..(Modulus - 1) /\ rwe \in Nat
      BY SenderAssumption, QoSAssumption
    <3> QED
      BY <3>1 DEF Says
  <2> HIDE DEF m
  <2>2. /\ LostControl(snd, m) => snd.nextSeqNumToSend <= MaxSeq
        /\ snd' = HandleControl(snd, m).st
        /\ acked' = acked \union gone
        /\ controlAcked' = (controlAcked \/ (m.kind = "ctrlAck" /\ ~DuplicateControl(snd, m)))
        /\ abandoned' = abandoned
    BY <1>4 DEF ReceiveControl, m
  <2>3. ~controlAcked' => ~controlAcked /\ (m.kind = "ctrlAck" => DuplicateControl(snd, m))
    BY <2>2
  <2>4. Good(snd', done \union gone, ~controlAcked')
    BY <1>1, <2>1, <2>2, <2>3, ControlKeepsGood
  <2>5. done \union gone = acked' \union abandoned'
    BY <2>2
  <2>6. snd' \in SndState /\ acked' \union abandoned' \subseteq SeqNum
    BY <1>2, <2>4, <2>5
  <2>7. controlAcked' \in BOOLEAN
    BY <1>1, <2>2 DEF TypeOK
  <2>8. TypeOK'
    BY <2>6, <2>7 DEF TypeOK
  <2> QED
    BY <2>4, <2>5, <2>8 DEF IInv
<1>5. ASSUME NEW e \in snd.rxQ, RxTimerExpires(e)
      PROVE  IInv'
  <2> DEFINE gone == Outstanding(snd) \ Outstanding(snd')
  <2>1. /\ snd' = RxTimerExpiry(snd, e).st
        /\ abandoned' = abandoned \union gone
        /\ UNCHANGED <<acked, controlAcked>>
    BY <1>5 DEF RxTimerExpires
  <2>2. Good(snd', done \union gone, ~controlAcked)
    BY <1>1, <2>1, TimerKeepsGood
  <2>3. done \union gone = acked' \union abandoned'
    BY <2>1
  <2>4. snd' \in SndState /\ acked' \union abandoned' \subseteq SeqNum
    BY <1>2, <2>2, <2>3
  <2>5. TypeOK'
    BY <1>1, <2>1, <2>4 DEF TypeOK
  <2> QED
    BY <2>1, <2>2, <2>3, <2>5 DEF IInv
<1>6. CASE UNCHANGED vars
  BY <1>1, <1>6 DEF IInv, TypeOK, vars
<1> QED
  BY <1>3, <1>4, <1>5, <1>6 DEF Next

(* The inductive invariant holds in every state the sender reaches. *)
THEOREM Invariance == Spec => []IInv
<1>1. Init => IInv
  BY InvInit
<1>2. IInv /\ [Next]_vars => IInv'
  BY InvNext
<1> QED
  BY <1>1, <1>2, PTL DEF Spec

(* A writer is stopped exactly while the queue is full, for every length   *)
(* of the queue (notifyStopSending, notifyStartSending).                   *)
THEOREM PortIsBlockedAtFullQueue == Spec => []PortBlockedIffQueueFull
<1>1. IInv => PortBlockedIffQueueFull
  BY DEF IInv, Good, Flags, PortBlockedIffQueueFull
<1> QED
  BY <1>1, Invariance, PTL

(* What the window admits does not wait, until a ControlAck moves the edge *)
(* alone (DTP::trySendGenPDUs, RcvrControlAckPolicyBase).                  *)
THEOREM NothingAdmittedWaits == Spec => []NothingSendableHeld
<1>1. IInv => NothingSendableHeld
  <2> SUFFICES ASSUME IInv, ~controlAcked, snd.closedWindowQ # <<>>
               PROVE  Head(snd.closedWindowQ).seq > snd.sndRtWinEdge
    BY DEF NothingSendableHeld
  <2>1. snd \in SndState /\ Order(snd)
    BY DEF IInv, Good
  <2>2. snd.closedWindowQ \in Seq(DataPDU)
    BY <2>1, Fields
  <2>3. Head(snd.closedWindowQ) = snd.closedWindowQ[1]
    BY <2>2
  <2> QED
    BY <2>1, <2>3 DEF Order
<1> QED
  BY <1>1, Invariance, PTL

(* Every number the sender gave out is in its books once, in every state   *)
(* and for any number of PDUs, acknowledgements and expiries.              *)
THEOREM QueuesAlwaysAgree == Spec => []QueuesAgree
<1>1. IInv => QueuesAgree
  <2> SUFFICES ASSUME IInv PROVE QueuesAgree
    OBVIOUS
  <2> DEFINE done == acked \union abandoned
  <2>1. TypeOK /\ Numbers(snd, done) /\ Flags(snd) /\ (~controlAcked => Order(snd))
    BY DEF IInv, Good
  <2>2. ClosedWindowIffHeld
    BY <2>1 DEF Flags, ClosedWindowIffHeld
  <2>3. NumbersAccountedFor
    <3> SUFFICES ASSUME RxOn
                 PROVE  1..(snd.nextSeqNumToSend - 1)
                          = Held(snd) \union Outstanding(snd) \union acked \union abandoned
      BY DEF NumbersAccountedFor
    <3> DEFINE N == snd.nextSeqNumToSend
    <3>1. /\ Held(snd) \subseteq 1..(N - 1) /\ Outstanding(snd) \subseteq 1..(N - 1)
          /\ done \subseteq 1..(N - 1)
      BY <2>1 DEF Numbers, Held, Outstanding
    <3>2. \A m \in 1..(N - 1) : m \in Held(snd) \/ m \in Outstanding(snd) \/ m \in done
      BY <2>1 DEF Numbers, Held, Outstanding
    <3> HIDE DEF N
    <3> QED
      BY <3>1, <3>2 DEF N
  <2>4. OnePlaceOnly
    <3>1. Held(snd) \intersect (Outstanding(snd) \union done) = {}
      BY <2>1 DEF Numbers, Held, Outstanding
    <3>2. Outstanding(snd) \intersect done = {}
      BY <2>1 DEF Numbers, Outstanding
    <3>3. \A e, f \in snd.rxQ : e.pdu.seq = f.pdu.seq => e = f
      BY <2>1 DEF Numbers
    <3> QED
      BY <3>1, <3>2, <3>3 DEF OnePlaceOnly
  <2>5. HeldInOrder
    BY <2>1 DEF Numbers, HeldInOrder
  <2>6. FirstSentInOrder
    BY <2>1 DEF Order, FirstSentInOrder
  <2> QED
    BY <2>1, <2>2, <2>3, <2>4, <2>5, <2>6 DEF QueuesAgree
<1> QED
  BY <1>1, Invariance, PTL
=============================================================================
