------------------------ MODULE EFCPConnection_proofs -------------------------
(***************************************************************************)
(* Theorems about EFCPConnection. The first two parts are about any path:  *)
(* PDUs may be lost, overtaken and repeated as often as the bounds on      *)
(* faults, which are any numbers, allow.                                   *)
(*                                                                         *)
(* The first part shows that the two ends agree on the credit: lemmas on   *)
(* the sender's operators (what it numbers and sends is within what its    *)
(* peer granted), on the receiver's (its credit only grows, and its        *)
(* answers say what it is), the invariant Agreed about both ends and what  *)
(* is under way, and a lemma for each action. The second shows that each   *)
(* end's receiver takes the steps of DTPReceiver only, as long as nothing  *)
(* reaches a bound of the model, so that a theorem of DTPReceiver_proofs   *)
(* holds at both ends. The third is about a path that loses nothing, where *)
(* each direction is determined by four numbers: what was written, sent,   *)
(* received and acknowledged. The fourth is about a connection that does   *)
(* not retransmit, on any path: no number of user data is in two places.   *)
(***************************************************************************)
EXTENDS EFCPConnection, TLAPS, WellFoundedInduction, FiniteSetTheorems

(* A non-empty set of naturals has a least element, and Min finds it. *)
LEMMA MinOfNats ==
    ASSUME NEW T \in SUBSET Nat, T # {}
    PROVE  Min(T) \in T /\ \A x \in T : Min(T) <= x
<1>1. IsWellFoundedOn(OpToRel(<, Nat), Nat)
  BY NatLessThanWellFounded
<1>2. PICK x \in T : \A y \in T : ~(<<y, x>> \in OpToRel(<, Nat))
  BY <1>1, WFMin
<1>3. \A y \in T : x <= y
  <2> SUFFICES ASSUME NEW y \in T, y < x PROVE FALSE
    OBVIOUS
  <2>1. <<y, x>> \in OpToRel(<, Nat)
    BY DEF OpToRel
  <2> QED
    BY <2>1, <1>2
<1> QED
  BY <1>2, <1>3 DEF Min

LEMMA TwoPeers ==
    ASSUME NEW p \in Peers
    PROVE  /\ Peer(p) \in Peers /\ Peer(p) # p /\ Peer(Peer(p)) = p
           /\ \A q \in Peers : q = p \/ q = Peer(p)
BY ConnectionAssumption DEF Peers, Peer

-----------------------------------------------------------------------------
(* Sequences of anything: what is on the path has no type of its own, only *)
(* the fields its receiver reads.                                          *)

IsSequence(s) == \E X : s \in Seq(X)

Elems(s) == {s[i] : i \in 1..Len(s)}

LEMMA WiderSequence ==
    ASSUME NEW X, NEW Y, NEW s \in Seq(X), X \subseteq Y
    PROVE  s \in Seq(Y)
OBVIOUS

LEMMA SequenceJoin ==
    ASSUME NEW s, NEW t, IsSequence(s), IsSequence(t)
    PROVE  /\ IsSequence(s \o t)
           /\ Elems(s \o t) = Elems(s) \union Elems(t)
<1>1. PICK X : s \in Seq(X)
  BY DEF IsSequence
<1>2. PICK Y : t \in Seq(Y)
  BY DEF IsSequence
<1>3. s \in Seq(X \union Y) /\ t \in Seq(X \union Y)
  BY <1>1, <1>2, WiderSequence
<1>4. s \o t \in Seq(X \union Y)
  BY <1>3
<1>5. /\ Len(s) \in Nat /\ Len(t) \in Nat
      /\ Len(s \o t) = Len(s) + Len(t)
      /\ \A i \in 1..(Len(s) + Len(t)) :
            (s \o t)[i] = IF i <= Len(s) THEN s[i] ELSE t[i - Len(s)]
  BY <1>3
<1>6. Elems(s) \union Elems(t) \subseteq Elems(s \o t)
  <2>1. ASSUME NEW i \in 1..Len(s) PROVE s[i] \in Elems(s \o t)
    BY <1>5 DEF Elems
  <2>2. ASSUME NEW i \in 1..Len(t) PROVE t[i] \in Elems(s \o t)
    <3>1. /\ i + Len(s) \in 1..(Len(s) + Len(t))
          /\ ~(i + Len(s) <= Len(s)) /\ (i + Len(s)) - Len(s) = i
      BY <1>5
    <3>2. (s \o t)[i + Len(s)] = t[i]
      BY <1>5, <3>1
    <3> QED
      BY <1>5, <3>1, <3>2 DEF Elems
  <2> QED
    BY <2>1, <2>2 DEF Elems
<1>7. Elems(s \o t) \subseteq Elems(s) \union Elems(t)
  BY <1>5 DEF Elems
<1> QED
  BY <1>4, <1>6, <1>7 DEF IsSequence

LEMMA SequenceTail ==
    ASSUME NEW s, IsSequence(s), s # <<>>
    PROVE  /\ IsSequence(Tail(s)) /\ Elems(Tail(s)) \subseteq Elems(s)
           /\ Head(s) \in Elems(s)
<1>1. PICK X : s \in Seq(X)
  BY DEF IsSequence
<1>2. /\ Tail(s) \in Seq(X) /\ Len(s) \in Nat /\ Len(s) > 0
      /\ Len(Tail(s)) = Len(s) - 1
      /\ \A i \in 1..(Len(s) - 1) : Tail(s)[i] = s[i + 1]
      /\ Head(s) = s[1]
  BY <1>1
<1> QED
  BY <1>2 DEF IsSequence, Elems

LEMMA SequencePart ==
    ASSUME NEW s, IsSequence(s), NEW m \in Nat, NEW n \in Nat,
           m >= 1, n <= Len(s)
    PROVE  IsSequence(SubSeq(s, m, n)) /\ Elems(SubSeq(s, m, n)) \subseteq Elems(s)
<1>1. PICK X : s \in Seq(X)
  BY DEF IsSequence
<1>2. Len(s) \in Nat /\ \A i \in 1..Len(s) : s[i] \in X
  BY <1>1
<1>3. SubSeq(s, m, n) \in Seq(X)
  BY <1>1, <1>2
<1>4. \A i \in 1..Len(SubSeq(s, m, n)) : SubSeq(s, m, n)[i] = s[i + m - 1] /\ i + m - 1 \in 1..Len(s)
  BY <1>1, <1>2
<1> QED
  BY <1>3, <1>4 DEF IsSequence, Elems

LEMMA SequenceWithout ==
    ASSUME NEW s, IsSequence(s), NEW i \in 1..Len(s)
    PROVE  IsSequence(RemoveAt(s, i)) /\ Elems(RemoveAt(s, i)) \subseteq Elems(s)
<1>1. Len(s) \in Nat
  BY DEF IsSequence
<1>2. /\ IsSequence(SubSeq(s, 1, i - 1)) /\ Elems(SubSeq(s, 1, i - 1)) \subseteq Elems(s)
      /\ IsSequence(SubSeq(s, i + 1, Len(s))) /\ Elems(SubSeq(s, i + 1, Len(s))) \subseteq Elems(s)
  BY <1>1, SequencePart
<1> QED
  BY <1>2, SequenceJoin DEF RemoveAt

LEMMA FunctionIsSequence ==
    ASSUME NEW X, NEW k \in Nat, NEW f \in [1..k -> X]
    PROVE  f \in Seq(X)
<1>1. f = [i \in 1..k |-> f[i]] /\ \A i \in 1..k : f[i] \in X
  OBVIOUS
<1> QED
  BY <1>1

LEMMA EmptySequence == IsSequence(<<>>) /\ Elems(<<>>) = {}
<1>1. <<>> \in Seq({}) /\ Len(<<>>) = 0
  OBVIOUS
<1> QED
  BY <1>1 DEF IsSequence, Elems

-----------------------------------------------------------------------------
(* What an end keeps about the PDUs it numbers, whatever the bounds are.   *)

SndFields == {"nextSeqNumToSend", "setDRFFlag", "lastSeqNumSent", "closedWindowQ",
              "closedWindow", "blockingPort", "sndRtWinEdge", "senderLeftWinEdge",
              "rxQ", "rxTurn", "lastControlSeqNumRcv"}

(* The data PDUs that bear a number below n, the flag only on the first. *)
PDUs(n) ==
    {d \in [seq : Nat, drf : BOOLEAN, empty : BOOLEAN] :
        d.seq < n /\ (d.drf => d.seq = 1)}

CreditsFit == SndCredit <= RcvCredit

(* A receiver that granted everything up to g granted d. *)
Granted(d, g) == WindowFcOn /\ CreditsFit => d.empty \/ d.seq <= g

Kept(e, n, g) ==
    /\ DOMAIN e = {"pdu", "expiryCount", "turn"}
    /\ e.pdu \in PDUs(n)
    /\ Granted(e.pdu, g)

(* A sender whose peer granted everything up to g. *)
Sound(s, g) ==
    /\ DOMAIN s = SndFields
    /\ s.nextSeqNumToSend \in Nat \ {0}
    /\ s.setDRFFlag \in BOOLEAN
    /\ s.setDRFFlag => s.nextSeqNumToSend = 1
    /\ s.closedWindowQ \in Seq(PDUs(s.nextSeqNumToSend))
    /\ \A e \in s.rxQ : Kept(e, s.nextSeqNumToSend, g)
    /\ s.sndRtWinEdge \in Nat
    /\ CreditsFit => s.sndRtWinEdge <= g
    /\ s.lastControlSeqNumRcv \in Nat

(* PDUs it sends. *)
Sent(tx, n, g) == tx \in Seq(PDUs(n)) /\ \A i \in 1..Len(tx) : Granted(tx[i], g)

(* What a step that numbers nothing and moves no edge leaves alone. *)
SameBooks(s, t) ==
    /\ t.nextSeqNumToSend = s.nextSeqNumToSend
    /\ t.sndRtWinEdge = s.sndRtWinEdge
    /\ t.lastControlSeqNumRcv = s.lastControlSeqNumRcv

LEMMA NumbersGrow ==
    ASSUME NEW m \in Nat, NEW n \in Nat, m <= n
    PROVE  PDUs(m) \subseteq PDUs(n)
BY DEF PDUs

LEMMA GrantsGrow ==
    ASSUME NEW g \in Nat, NEW h \in Nat, g <= h, NEW n, NEW d \in PDUs(n), Granted(d, g)
    PROVE  Granted(d, h)
BY DEF Granted, PDUs

LEMMA SoundGrows ==
    ASSUME NEW g \in Nat, NEW h \in Nat, g <= h, NEW s, Sound(s, g)
    PROVE  Sound(s, h)
BY GrantsGrow DEF Sound, Kept

LEMMA FirstLeftEdge ==
    ASSUME NEW p, NEW s, NEW g, Sound(s, g), NEW n
    PROVE  Sound(S(p)!UpdateSndLWE(s, n), g) /\ SameBooks(s, S(p)!UpdateSndLWE(s, n))
BY DEF S!UpdateSndLWE, Sound, SameBooks, SndFields

LEMMA SentLast ==
    ASSUME NEW p, NEW s, NEW g, Sound(s, g), NEW tx
    PROVE  Sound(S(p)!SendToRMT(s, tx), g) /\ SameBooks(s, S(p)!SendToRMT(s, tx))
BY DEF S!SendToRMT, Sound, SameBooks, SndFields

LEMMA SentKept ==
    ASSUME NEW p, NEW s, NEW g, Sound(s, g), NEW tx, Sent(tx, s.nextSeqNumToSend, g)
    PROVE  Sound(S(p)!PushBackToRxQ(s, tx), g) /\ SameBooks(s, S(p)!PushBackToRxQ(s, tx))
<1> DEFINE n == s.nextSeqNumToSend
           new == {[pdu |-> tx[i], expiryCount |-> 0, turn |-> s.rxTurn + i - 1] : i \in 1..Len(tx)}
           t == S(p)!PushBackToRxQ(s, tx)
<1>1. t = [s EXCEPT !.rxQ = s.rxQ \union new, !.rxTurn = s.rxTurn + Len(tx)]
  BY DEF S!PushBackToRxQ
<1>2. \A e \in new : Kept(e, n, g)
  BY DEF Kept, Sent
<1> HIDE DEF new
<1> QED
  BY <1>1, <1>2 DEF Sound, SameBooks, SndFields

LEMMA PostedSound ==
    ASSUME NEW p, NEW s, NEW g, Sound(s, g), NEW tx, Sent(tx, s.nextSeqNumToSend, g)
    PROVE  Sound(S(p)!Post(s, tx), g) /\ SameBooks(s, S(p)!Post(s, tx))
<1> DEFINE k == IF RxOn THEN S(p)!PushBackToRxQ(s, tx) ELSE s
           t == S(p)!SendToRMT(k, tx)
           u == S(p)!UpdateSndLWE(t, t.lastSeqNumSent)
<1>1. Sound(k, g) /\ SameBooks(s, k)
  BY SentKept DEF SameBooks
<1> HIDE DEF k
<1>2. Sound(t, g) /\ SameBooks(k, t)
  BY <1>1, SentLast
<1> HIDE DEF t
<1>3. Sound(u, g) /\ SameBooks(t, u)
  BY <1>2, FirstLeftEdge
<1>4. Sound(S(p)!SendToRMT(s, tx), g) /\ SameBooks(s, S(p)!SendToRMT(s, tx))
  BY SentLast
<1>5. S(p)!Post(s, tx) = IF ~S(p)!DtcpPresent THEN S(p)!SendToRMT(s, tx) ELSE u
  BY DEF S!Post, k, t
<1> QED
  BY <1>1, <1>2, <1>3, <1>4, <1>5 DEF SameBooks

(* What the window lets out of a queue is inside it. *)
LEMMA OpenIsInside ==
    ASSUME NEW p, NEW n \in Nat, NEW q \in Seq(PDUs(n)), NEW edge \in Nat
    PROVE  /\ S(p)!OpenPrefix(q, edge) \in 0..Len(q)
           /\ \A i \in 1..S(p)!OpenPrefix(q, edge) : q[i].seq <= edge
<1> DEFINE T == {j \in 0..Len(q) : j < Len(q) => q[j + 1].seq > edge}
           k == S(p)!OpenPrefix(q, edge)
<1>1. Len(q) \in T /\ T \in SUBSET Nat
  OBVIOUS
<1>2. k = Min(T)
  BY DEF S!OpenPrefix, S!Min, Min
<1>3. k \in T /\ \A x \in T : k <= x
  <2> HIDE DEF T, k
  <2> QED
    BY <1>1, <1>2, MinOfNats
<1>4. ASSUME NEW i \in 1..k PROVE q[i].seq <= edge
  <2>1. i - 1 \in 0..Len(q) /\ i - 1 < Len(q) /\ (i - 1) + 1 = i /\ i \in 1..Len(q) /\ i - 1 < k
    BY <1>3
  <2>2. i - 1 \notin T
    BY <1>1, <1>3, <2>1
  <2>3. q[i].seq \in Nat
    BY <2>1 DEF PDUs
  <2> QED
    BY <2>1, <2>2, <2>3
<1> QED
  BY <1>3, <1>4

LEMMA OpenIsSent ==
    ASSUME NEW p, NEW n \in Nat, NEW g \in Nat, NEW q \in Seq(PDUs(n)), NEW edge \in Nat,
           CreditsFit => edge <= g
    PROVE  LET k == S(p)!OpenPrefix(q, edge)
           IN  /\ Sent(SubSeq(q, 1, k), n, g)
               /\ SubSeq(q, k + 1, Len(q)) \in Seq(PDUs(n))
<1> DEFINE k == S(p)!OpenPrefix(q, edge)
<1>1. k \in 0..Len(q) /\ \A i \in 1..k : q[i].seq <= edge
  BY OpenIsInside
<1> HIDE DEF k
<1>2. SubSeq(q, k + 1, Len(q)) \in Seq(PDUs(n)) /\ SubSeq(q, 1, k) \in Seq(PDUs(n))
  BY <1>1
<1>3. Len(SubSeq(q, 1, k)) = k /\ \A i \in 1..k : SubSeq(q, 1, k)[i] = q[i] /\ q[i] \in PDUs(n)
  BY <1>1
<1>4. \A i \in 1..k : Granted(q[i], g)
  BY <1>1, <1>3 DEF Granted, PDUs
<1> QED
  BY <1>2, <1>3, <1>4 DEF Sent, k

LEMMA NumberedSound ==
    ASSUME NEW p, NEW g, NEW s, Sound(s, g)
    PROVE  LET t == S(p)!Numbered(s, 1)
           IN  /\ Sound(t, g)
               /\ t.nextSeqNumToSend = s.nextSeqNumToSend + 1
               /\ t.sndRtWinEdge = s.sndRtWinEdge
               /\ t.lastControlSeqNumRcv = s.lastControlSeqNumRcv
               /\ t.rxQ = s.rxQ
<1> DEFINE n == s.nextSeqNumToSend
           t == S(p)!Numbered(s, 1)
<1>1. t = [s EXCEPT !.nextSeqNumToSend = n + 1, !.setDRFFlag = FALSE]
  BY DEF S!Numbered
<1>2. /\ DOMAIN t = SndFields /\ t.nextSeqNumToSend = n + 1 /\ t.setDRFFlag = FALSE
      /\ t.closedWindowQ = s.closedWindowQ /\ t.rxQ = s.rxQ
      /\ t.sndRtWinEdge = s.sndRtWinEdge /\ t.lastControlSeqNumRcv = s.lastControlSeqNumRcv
  BY <1>1 DEF Sound, SndFields
<1>3. n \in Nat /\ n + 1 \in Nat \ {0} /\ PDUs(n) \subseteq PDUs(n + 1)
  BY NumbersGrow DEF Sound
<1>4. s.closedWindowQ \in Seq(PDUs(n + 1))
  BY <1>3, WiderSequence DEF Sound
<1>5. \A e \in s.rxQ : Kept(e, n + 1, g)
  BY <1>3 DEF Sound, Kept
<1> HIDE DEF t, n
<1> QED
  BY <1>2, <1>3, <1>4, <1>5 DEF Sound, t, n

LEMMA GeneratedSound ==
    ASSUME NEW p, NEW g, NEW s, Sound(s, g)
    PROVE  /\ S(p)!Generated(s, 1) \in Seq(PDUs(s.nextSeqNumToSend + 1))
           /\ <<S(p)!EmptyPDU(s)>> \in Seq(PDUs(s.nextSeqNumToSend + 1))
           /\ S(p)!EmptyPDU(s).empty
           /\ <<S(p)!RepeatedEmptyPDU(s)>> \in Seq(PDUs(s.nextSeqNumToSend))
           /\ S(p)!RepeatedEmptyPDU(s).empty
<1> DEFINE n == s.nextSeqNumToSend
<1>1. n \in Nat \ {0} /\ s.setDRFFlag \in BOOLEAN /\ (s.setDRFFlag => n = 1)
  BY DEF Sound
<1>2. S(p)!Generated(s, 1) = [i \in 1..1 |-> [seq |-> n + i - 1, drf |-> s.setDRFFlag /\ i = 1,
                                              empty |-> FALSE]]
  BY DEF S!Generated
<1>3. \A i \in 1..1 : [seq |-> n + i - 1, drf |-> s.setDRFFlag /\ i = 1, empty |-> FALSE]
                         \in PDUs(n + 1)
  BY <1>1 DEF PDUs
<1>4. [seq |-> n, drf |-> s.setDRFFlag, empty |-> TRUE] \in PDUs(n + 1)
  BY <1>1 DEF PDUs
<1>5. [seq |-> n - 1, drf |-> FALSE, empty |-> TRUE] \in PDUs(n)
  BY <1>1 DEF PDUs
<1>6. S(p)!Generated(s, 1) \in Seq(PDUs(n + 1))
  <2> DEFINE f(i) == [seq |-> n + i - 1, drf |-> s.setDRFFlag /\ i = 1, empty |-> FALSE]
  <2>1. \A i \in 1..1 : f(i) \in PDUs(n + 1)
    BY <1>3
  <2>2. S(p)!Generated(s, 1) = [i \in 1..1 |-> f(i)]
    BY <1>2
  <2> HIDE DEF f
  <2>3. [i \in 1..1 |-> f(i)] \in [1..1 -> PDUs(n + 1)]
    BY <2>1
  <2> QED
    BY <2>2, <2>3, FunctionIsSequence
<1> QED
  BY <1>4, <1>5, <1>6 DEF S!EmptyPDU, S!RepeatedEmptyPDU

LEMMA EmptyIsGranted ==
    ASSUME NEW d, d.empty, NEW n, NEW g, <<d>> \in Seq(PDUs(n))
    PROVE  Sent(<<d>>, n, g)
<1>1. Len(<<d>>) = 1 /\ \A i \in 1..1 : <<d>>[i] = d
  OBVIOUS
<1> QED
  BY <1>1 DEF Sent, Granted

(* DTP::trySendGenPDUs on what the user wrote. *)
LEMMA WriteSends ==
    ASSUME NEW p, NEW g \in Nat, NEW s, Sound(s, g)
    PROVE  LET o == S(p)!TrySendGenerated(S(p)!Numbered(s, 1), S(p)!Generated(s, 1))
           IN  /\ Sound(o.st, g)
               /\ o.st.nextSeqNumToSend = s.nextSeqNumToSend + 1
               /\ o.st.sndRtWinEdge = s.sndRtWinEdge
               /\ o.st.lastControlSeqNumRcv = s.lastControlSeqNumRcv
               /\ Sent(o.tx, s.nextSeqNumToSend + 1, g)
<1> DEFINE n == s.nextSeqNumToSend + 1
           t == S(p)!Numbered(s, 1)
           q == S(p)!Generated(s, 1)
           edge == t.sndRtWinEdge
           k == S(p)!OpenPrefix(q, edge)
           sent == SubSeq(q, 1, k)
           held == SubSeq(q, k + 1, Len(q))
           h == S(p)!Hold(t, k, held)
           o == S(p)!TrySendGenerated(t, q)
<1>1. /\ Sound(t, g) /\ t.nextSeqNumToSend = n /\ edge = s.sndRtWinEdge
      /\ t.lastControlSeqNumRcv = s.lastControlSeqNumRcv
  BY NumberedSound
<1>2. q \in Seq(PDUs(n)) /\ n \in Nat
  <2>1. q \in Seq(PDUs(n))
    BY GeneratedSound
  <2>2. n \in Nat
    BY DEF Sound
  <2> QED
    BY <2>1, <2>2
<1>3. edge \in Nat /\ (CreditsFit => edge <= g)
  BY <1>1 DEF Sound
<1> HIDE DEF t, q
<1>4. Sent(sent, n, g) /\ held \in Seq(PDUs(n))
  BY <1>2, <1>3, OpenIsSent
<1>5. CASE ~WindowFcOn
  <2>1. Sent(q, n, g)
    BY <1>2, <1>5 DEF Sent, Granted
  <2>2. o.st = S(p)!Post(t, q) /\ o.tx = q
    BY <1>5 DEF S!TrySendGenerated, S!Outcome
  <2>3. Sound(S(p)!Post(t, q), g) /\ SameBooks(t, S(p)!Post(t, q))
    BY <1>1, <2>1, PostedSound
  <2> QED
    BY <1>1, <2>1, <2>2, <2>3 DEF SameBooks, t, q
<1>6. CASE WindowFcOn
  <2>1. o.st = S(p)!Post(h, sent) /\ o.tx = sent
    BY <1>6 DEF S!TrySendGenerated, S!Outcome
  <2>2. Sound(h, g) /\ SameBooks(t, h)
    <3>1. t.closedWindowQ \o held \in Seq(PDUs(n))
      BY <1>1, <1>4 DEF Sound
    <3> HIDE DEF held, k
    <3> QED
      BY <1>1, <3>1 DEF S!Hold, Sound, SameBooks, SndFields
  <2> HIDE DEF h, sent
  <2>3. Sound(S(p)!Post(h, sent), g) /\ SameBooks(h, S(p)!Post(h, sent))
    BY <1>1, <1>4, <2>2, PostedSound DEF SameBooks
  <2> QED
    BY <1>1, <1>4, <2>1, <2>2, <2>3 DEF SameBooks, t, q
<1> QED
  BY <1>5, <1>6

(* The window opens to edge, and what it lets out of the closed window     *)
(* queue is sent.                                                          *)
LEMMA FlowControlSends ==
    ASSUME NEW p, NEW g \in Nat, NEW s, Sound(s, g),
           NEW edge \in Nat, CreditsFit => edge <= g
    PROVE  LET o == S(p)!FlowControlled(s, edge)
           IN  /\ Sound(o.st, g)
               /\ o.st.nextSeqNumToSend = s.nextSeqNumToSend
               /\ o.st.sndRtWinEdge = edge
               /\ o.st.lastControlSeqNumRcv = s.lastControlSeqNumRcv
               /\ Sent(o.tx, s.nextSeqNumToSend, g)
<1> DEFINE n == s.nextSeqNumToSend
           q == s.closedWindowQ
           opened == [s EXCEPT !.sndRtWinEdge = edge]
           k == S(p)!OpenPrefix(q, edge)
           sent == SubSeq(q, 1, k)
           rest == SubSeq(q, k + 1, Len(q))
           r == S(p)!Released(opened, k)
           o == S(p)!FlowControlled(s, edge)
<1>1. n \in Nat /\ q \in Seq(PDUs(n))
  BY DEF Sound
<1>2. Sent(sent, n, g) /\ rest \in Seq(PDUs(n))
  BY <1>1, OpenIsSent
<1>3. /\ Sound(opened, g) /\ opened.nextSeqNumToSend = n /\ opened.sndRtWinEdge = edge
      /\ opened.lastControlSeqNumRcv = s.lastControlSeqNumRcv
      /\ opened.closedWindowQ = q
  BY DEF Sound, SndFields
<1> HIDE DEF opened
<1>4. CASE q = <<>>
  <2>1. o.st = opened /\ o.tx = <<>>
    BY <1>4 DEF S!FlowControlled, S!Outcome, opened
  <2>2. Sent(<<>>, n, g)
    BY DEF Sent
  <2> QED
    BY <1>3, <2>1, <2>2
<1>5. CASE q # <<>>
  <2>1. o.st = S(p)!Post(r, sent) /\ o.tx = sent
    BY <1>5 DEF S!FlowControlled, S!Outcome, opened
  <2>2. Sound(r, g) /\ SameBooks(opened, r)
    <3>1. r = [opened EXCEPT !.closedWindowQ = rest,
                             !.closedWindow = rest # <<>> \/ (k > 0 /\ MaxClosedWinQueLen = 0),
                             !.blockingPort = @ /\ Len(rest) >= MaxClosedWinQueLen]
      BY <1>3 DEF S!Released
    <3> HIDE DEF rest, k, r
    <3> QED
      BY <1>2, <1>3, <3>1 DEF Sound, SameBooks, SndFields
  <2> HIDE DEF r, sent
  <2>3. r.nextSeqNumToSend = n
    BY <1>3, <2>2 DEF SameBooks
  <2>4. Sent(sent, r.nextSeqNumToSend, g)
    BY <1>2, <2>3
  <2>5. Sound(S(p)!Post(r, sent), g) /\ SameBooks(r, S(p)!Post(r, sent))
    BY <2>2, <2>4, PostedSound
  <2> QED
    BY <1>2, <1>3, <2>1, <2>2, <2>5 DEF SameBooks
<1> QED
  BY <1>4, <1>5

(* An ack takes entries out of the retransmission queue. *)
LEMMA AckedSound ==
    ASSUME NEW p, NEW g, NEW s, Sound(s, g), NEW a, NEW n
    PROVE  LET t == S(p)!UpdateSndLWE(S(p)!AckPDU(s, a), n)
           IN  Sound(t, g) /\ SameBooks(s, t)
<1> DEFINE b == S(p)!AckPDU(s, a)
<1>1. Sound(b, g) /\ SameBooks(s, b)
  <2>1. b = [s EXCEPT !.rxQ = s.rxQ \ S(p)!AckedBy(s, a)]
    BY DEF S!AckPDU
  <2> QED
    BY <2>1 DEF Sound, SameBooks, SndFields
<1> HIDE DEF b
<1> QED
  BY <1>1, FirstLeftEdge DEF SameBooks, b

(* DTP::sendEmptyDTPDU. *)
LEMMA EmptySends ==
    ASSUME NEW p, NEW g \in Nat, NEW s, Sound(s, g)
    PROVE  LET t == S(p)!SendEmptyDTPDU(s)
           IN  /\ Sound(t, g)
               /\ t.nextSeqNumToSend = s.nextSeqNumToSend + 1
               /\ t.sndRtWinEdge = s.sndRtWinEdge
               /\ t.lastControlSeqNumRcv = s.lastControlSeqNumRcv
               /\ Sent(<<S(p)!EmptyPDU(s)>>, s.nextSeqNumToSend + 1, g)
<1> DEFINE tx == <<S(p)!EmptyPDU(s)>>
           num == S(p)!Numbered(s, 1)
           k == IF RxOn THEN S(p)!PushBackToRxQ(num, tx) ELSE num
           t == S(p)!SendToRMT(k, tx)
<1>1. Sent(tx, s.nextSeqNumToSend + 1, g)
  BY GeneratedSound, EmptyIsGranted
<1> HIDE DEF tx
<1>2. /\ Sound(num, g) /\ num.nextSeqNumToSend = s.nextSeqNumToSend + 1
      /\ num.sndRtWinEdge = s.sndRtWinEdge
      /\ num.lastControlSeqNumRcv = s.lastControlSeqNumRcv
  BY NumberedSound
<1> HIDE DEF num
<1>3. Sound(k, g) /\ SameBooks(num, k)
  BY <1>1, <1>2, SentKept DEF SameBooks
<1> HIDE DEF k
<1>4. Sound(t, g) /\ SameBooks(k, t)
  BY <1>3, SentLast
<1>5. S(p)!SendEmptyDTPDU(s) = t
  BY DEF S!SendEmptyDTPDU, t, k, num, tx
<1> HIDE DEF t
<1> QED
  BY <1>1, <1>2, <1>3, <1>4, <1>5 DEF SameBooks, tx

(* What handlers read of a control PDU. *)
Says(m) == m.seq \in Nat /\ m.rwe \in Nat /\ m.kind \in ControlKinds

GrantsCredit(m) == m.kind # "ackOnly"

(* The number of a control PDU is noted, and a gap before it answered. *)
LEMMA NumberingSends ==
    ASSUME NEW p, NEW g \in Nat, NEW s, Sound(s, g), NEW m, m.seq \in Nat
    PROVE  LET t    == S(p)!Numbering(s, m)
               lead == IF S(p)!LostControl(s, m) THEN <<S(p)!EmptyPDU(s)>> ELSE <<>>
           IN  /\ Sound(t, g)
               /\ t.nextSeqNumToSend >= s.nextSeqNumToSend
               /\ t.sndRtWinEdge = s.sndRtWinEdge
               /\ t.lastControlSeqNumRcv = m.seq
               /\ Sent(lead, t.nextSeqNumToSend, g)
<1> DEFINE b == IF S(p)!LostControl(s, m) THEN S(p)!SendEmptyDTPDU(s) ELSE s
           t == S(p)!Numbering(s, m)
           lead == IF S(p)!LostControl(s, m) THEN <<S(p)!EmptyPDU(s)>> ELSE <<>>
<1>1. s.nextSeqNumToSend \in Nat
  BY DEF Sound
<1>2. Sent(<<>>, s.nextSeqNumToSend, g)
  BY DEF Sent
<1>3. /\ Sound(b, g) /\ b.sndRtWinEdge = s.sndRtWinEdge
      /\ b.nextSeqNumToSend >= s.nextSeqNumToSend
      /\ Sent(lead, b.nextSeqNumToSend, g)
  <2>1. CASE S(p)!LostControl(s, m)
    <3> DEFINE c == S(p)!SendEmptyDTPDU(s)
    <3>1. /\ Sound(c, g) /\ c.nextSeqNumToSend = s.nextSeqNumToSend + 1
          /\ c.sndRtWinEdge = s.sndRtWinEdge
          /\ Sent(<<S(p)!EmptyPDU(s)>>, s.nextSeqNumToSend + 1, g)
      BY EmptySends
    <3>2. b = c /\ lead = <<S(p)!EmptyPDU(s)>>
      BY <2>1
    <3> HIDE DEF c, b, lead
    <3>3. Sent(lead, b.nextSeqNumToSend, g)
      BY <3>1, <3>2
    <3> QED
      BY <1>1, <3>1, <3>2, <3>3
  <2>2. CASE ~S(p)!LostControl(s, m)
    BY <1>1, <1>2, <2>2
  <2> QED
    BY <2>1, <2>2
<1>4. t = [b EXCEPT !.lastControlSeqNumRcv = m.seq]
  BY DEF S!Numbering
<1> HIDE DEF b, lead, t
<1>5. /\ Sound(t, g) /\ t.nextSeqNumToSend = b.nextSeqNumToSend
      /\ t.sndRtWinEdge = b.sndRtWinEdge /\ t.lastControlSeqNumRcv = m.seq
  BY <1>3, <1>4 DEF Sound, SndFields
<1> QED
  BY <1>3, <1>5 DEF t, lead

(* RcvrControlAckPolicyBase takes the right edge over. *)
LEMMA ControlAckSends ==
    ASSUME NEW p, NEW g \in Nat, NEW s, Sound(s, g), NEW m, Says(m), CreditsFit => m.rwe <= g
    PROVE  LET t == S(p)!RcvrControlAck(s, m)
           IN  /\ Sound(t, g)
               /\ t.nextSeqNumToSend = s.nextSeqNumToSend
               /\ t.sndRtWinEdge = m.rwe
               /\ t.lastControlSeqNumRcv = s.lastControlSeqNumRcv
<1> DEFINE heard == IF m.lwe > s.senderLeftWinEdge
                      THEN S(p)!UpdateSndLWE(S(p)!AckPDU(s, m.lwe - 1), m.lwe) ELSE s
           tx == <<S(p)!RepeatedEmptyPDU(s)>>
           e == [heard EXCEPT !.sndRtWinEdge = m.rwe]
<1>1. Sound(heard, g) /\ SameBooks(s, heard)
  BY AckedSound DEF SameBooks
<1> HIDE DEF heard
<1>2. /\ Sound(e, g) /\ e.sndRtWinEdge = m.rwe
      /\ e.nextSeqNumToSend = s.nextSeqNumToSend
      /\ e.lastControlSeqNumRcv = s.lastControlSeqNumRcv
  BY <1>1 DEF Sound, SameBooks, SndFields, Says
<1> HIDE DEF e
<1>3. Sound(S(p)!SendToRMT(e, tx), g) /\ SameBooks(e, S(p)!SendToRMT(e, tx))
  BY <1>2, SentLast
<1>4. S(p)!RcvrControlAck(s, m) = S(p)!SendToRMT(e, tx)
  BY DEF S!RcvrControlAck, e, heard, tx
<1> QED
  BY <1>2, <1>3, <1>4 DEF SameBooks

(* The control part of DTP::handleMsgFromRMT. A control PDU that is no     *)
(* duplicate moves the right edge to the credit it grants, if it does.     *)
LEMMA ControlSends ==
    ASSUME NEW p, NEW g \in Nat, NEW s, Sound(s, g), NEW m, Says(m), CreditsFit => m.rwe <= g
    PROVE  LET o   == S(p)!HandleControl(s, m)
               dup == S(p)!DuplicateControl(s, m)
           IN  /\ Sound(o.st, g)
               /\ o.st.nextSeqNumToSend >= s.nextSeqNumToSend
               /\ o.st.lastControlSeqNumRcv = IF dup THEN s.lastControlSeqNumRcv ELSE m.seq
               /\ o.st.sndRtWinEdge = IF ~dup /\ GrantsCredit(m) THEN m.rwe ELSE s.sndRtWinEdge
               /\ Sent(o.lead, o.st.nextSeqNumToSend, g)
               /\ Sent(o.tx, o.st.nextSeqNumToSend, g)
<1> DEFINE dup  == S(p)!DuplicateControl(s, m)
           lead == IF S(p)!LostControl(s, m) THEN <<S(p)!EmptyPDU(s)>> ELSE <<>>
           s1   == S(p)!Numbering(s, m)
           s2   == IF Carries(m.kind).ack THEN S(p)!SenderAck(s1, m.ack) ELSE s1
           fc   == S(p)!FlowControlled(s2, m.rwe)
           o    == S(p)!HandleControl(s, m)
<1>1. m.seq \in Nat /\ m.rwe \in Nat /\ s.nextSeqNumToSend \in Nat
  BY DEF Says, Sound
<1>2. /\ Sound(s1, g) /\ s1.nextSeqNumToSend >= s.nextSeqNumToSend
      /\ s1.sndRtWinEdge = s.sndRtWinEdge /\ s1.lastControlSeqNumRcv = m.seq
      /\ Sent(lead, s1.nextSeqNumToSend, g)
  BY <1>1, NumberingSends
<1>3. o = IF dup THEN S(p)!Outcome(s, <<>>, <<>>)
          ELSE IF m.kind = "ctrlAck"
                 THEN S(p)!Outcome(S(p)!RcvrControlAck(s1, m), lead, <<S(p)!RepeatedEmptyPDU(s1)>>)
          ELSE IF Carries(m.kind).fc THEN [fc EXCEPT !.lead = lead]
                 ELSE S(p)!Outcome(s2, lead, <<>>)
  BY DEF S!HandleControl, S!Carries, Carries
<1>4. \A n : Sent(<<>>, n, g)
  BY DEF Sent
<1> HIDE DEF lead, s1
<1>5. Sound(s2, g) /\ SameBooks(s1, s2)
  BY <1>2, AckedSound DEF S!SenderAck, SameBooks
<1> HIDE DEF s2
<1>6. CASE dup
  <2>1. o.st = s /\ o.lead = <<>> /\ o.tx = <<>>
    BY <1>3, <1>6 DEF S!Outcome
  <2> HIDE DEF o, dup
  <2> QED
    BY <1>1, <1>4, <1>6, <2>1 DEF o, dup
<1>7. CASE ~dup /\ m.kind = "ctrlAck"
  <2> DEFINE t == S(p)!RcvrControlAck(s1, m)
             tx == <<S(p)!RepeatedEmptyPDU(s1)>>
  <2>1. o.st = t /\ o.lead = lead /\ o.tx = tx
    BY <1>3, <1>7 DEF S!Outcome
  <2>2. /\ Sound(t, g) /\ t.nextSeqNumToSend = s1.nextSeqNumToSend
        /\ t.sndRtWinEdge = m.rwe /\ t.lastControlSeqNumRcv = m.seq
    BY <1>2, ControlAckSends
  <2>3. Sent(tx, s1.nextSeqNumToSend, g)
    BY <1>2, GeneratedSound, EmptyIsGranted
  <2> HIDE DEF o, t, tx, dup
  <2> QED
    BY <1>2, <1>7, <2>1, <2>2, <2>3 DEF GrantsCredit, o, dup
<1>8. CASE ~dup /\ m.kind # "ctrlAck" /\ Carries(m.kind).fc
  <2>1. /\ Sound(fc.st, g) /\ fc.st.nextSeqNumToSend = s2.nextSeqNumToSend
        /\ fc.st.sndRtWinEdge = m.rwe /\ fc.st.lastControlSeqNumRcv = s2.lastControlSeqNumRcv
        /\ Sent(fc.tx, s2.nextSeqNumToSend, g)
    BY <1>1, <1>5, FlowControlSends
  <2>2. o = [fc EXCEPT !.lead = lead]
    BY <1>3, <1>8
  <2>3. \E x, tx : fc = [st |-> x, lead |-> <<>>, tx |-> tx]
    BY DEF S!FlowControlled, S!Outcome
  <2>4. o.st = fc.st /\ o.lead = lead /\ o.tx = fc.tx
    <3> HIDE DEF fc, o
    <3> QED
      BY <2>2, <2>3
  <2>5. GrantsCredit(m)
    BY <1>8 DEF GrantsCredit, Carries
  <2> HIDE DEF fc, o, dup
  <2> QED
    BY <1>2, <1>5, <1>8, <2>1, <2>4, <2>5 DEF SameBooks, o, dup
<1>9. CASE ~dup /\ m.kind # "ctrlAck" /\ ~Carries(m.kind).fc
  <2>1. o.st = s2 /\ o.lead = lead /\ o.tx = <<>>
    BY <1>3, <1>9 DEF S!Outcome
  <2>2. ~GrantsCredit(m)
    BY <1>9 DEF GrantsCredit, Carries, Says, ControlKinds
  <2> HIDE DEF o, dup
  <2> QED
    BY <1>2, <1>4, <1>5, <1>9, <2>1, <2>2 DEF SameBooks, o, dup
<1> QED
  BY <1>6, <1>7, <1>8, <1>9

(* A retransmission timer sends again what was sent before. *)
LEMMA TimerSends ==
    ASSUME NEW p, NEW g \in Nat, NEW s, Sound(s, g), NEW e \in s.rxQ
    PROVE  LET o == S(p)!RxTimerExpiry(s, e)
           IN  Sound(o.st, g) /\ SameBooks(s, o.st) /\ Sent(o.tx, s.nextSeqNumToSend, g)
<1> DEFINE n == s.nextSeqNumToSend
           f == [e EXCEPT !.expiryCount = @ + 1]
           fewer == [s EXCEPT !.rxQ = @ \ {e}]
           again == [s EXCEPT !.rxQ = (@ \ {e}) \union {f}]
           tx == <<e.pdu>>
           o == S(p)!RxTimerExpiry(s, e)
<1>1. Kept(e, n, g)
  BY DEF Sound
<1>2. Kept(f, n, g)
  BY <1>1 DEF Kept
<1>3. Sent(tx, n, g) /\ Sent(<<>>, n, g)
  BY <1>1 DEF Sent, Kept
<1> HIDE DEF f
<1>4. Sound(fewer, g) /\ SameBooks(s, fewer)
  BY DEF Sound, SameBooks, SndFields
<1>5. Sound(again, g) /\ SameBooks(s, again)
  BY <1>2 DEF Sound, SameBooks, SndFields
<1>6. o = IF e.expiryCount = DataReXmitMax + 1
            THEN S(p)!Outcome(fewer, <<>>, <<>>)
            ELSE S(p)!Outcome(S(p)!SendToRMT(again, tx), <<>>, tx)
  BY DEF S!RxTimerExpiry, f
<1> HIDE DEF fewer, again
<1>7. Sound(S(p)!SendToRMT(again, tx), g) /\ SameBooks(again, S(p)!SendToRMT(again, tx))
  BY <1>5, SentLast
<1>8. \/ o.st = fewer /\ o.tx = <<>>
      \/ o.st = S(p)!SendToRMT(again, tx) /\ o.tx = tx
  BY <1>6 DEF S!Outcome
<1> HIDE DEF o
<1> QED
  BY <1>3, <1>4, <1>5, <1>7, <1>8 DEF SameBooks, o

-----------------------------------------------------------------------------
(* What an end grants.                                                     *)

RcvFields == {"rcvLeftWinEdge", "maxSeqNumRcvd", "reassemblyPDUQ", "lastSDUDelivered",
              "rcvRtWinEdge", "aTimers", "thrown"}

Grants(r) == DOMAIN r = RcvFields /\ r.rcvRtWinEdge \in Nat

SameCredit(r, s) == Grants(s) /\ s.rcvRtWinEdge = r.rcvRtWinEdge

CreditGrows(r, s) == Grants(s) /\ s.rcvRtWinEdge >= r.rcvRtWinEdge

(* Control PDUs of a receiver that granted everything up to g. *)
Body(b, g) ==
    /\ b.kind \in ControlKinds
    /\ b.rwe \in Nat /\ b.rwe <= g
    /\ GrantsCredit(b) => b.rwe = g

Bodies(out, g) == IsSequence(out) /\ \A i \in 1..Len(out) : Body(out[i], g)

Answers(r, o) == CreditGrows(r, o.st) /\ Bodies(o.out, o.st.rcvRtWinEdge)

LEMMA CreditSame ==
    ASSUME NEW p, NEW r, Grants(r)
    PROVE  SameCredit(r, R(p)!UpdateRcvLWE(r)) /\ SameCredit(r, R(p)!Delimit(r))
BY DEF R!UpdateRcvLWE, R!Delimit, SameCredit, Grants, RcvFields

LEMMA CreditSameAt ==
    ASSUME NEW p, NEW r, Grants(r), NEW n
    PROVE  SameCredit(r, R(p)!StartATimer(r, n)) /\ SameCredit(r, R(p)!SetMaxSeqNumRcvd(r, n))
BY DEF R!StartATimer, R!SetMaxSeqNumRcvd, SameCredit, Grants, RcvFields

LEMMA CreditSameAdding ==
    ASSUME NEW p, NEW r, Grants(r), NEW d
    PROVE  SameCredit(r, R(p)!AddToReassemblyQ(r, d))
BY DEF R!AddToReassemblyQ, SameCredit, Grants, RcvFields

LEMMA CreditSameFields ==
    ASSUME NEW r, Grants(r), NEW n
    PROVE  /\ SameCredit(r, [r EXCEPT !.rcvLeftWinEdge = n])
           /\ SameCredit(r, [r EXCEPT !.reassemblyPDUQ = n])
           /\ SameCredit(r, [r EXCEPT !.maxSeqNumRcvd = @ + 1])
           /\ SameCredit(r, [r EXCEPT !.aTimers[n] = @ - 1])
BY DEF SameCredit, Grants, RcvFields

LEMMA CreditTransitive ==
    ASSUME NEW r, Grants(r), NEW s, CreditGrows(r, s), NEW t, CreditGrows(s, t)
    PROVE  CreditGrows(r, t)
BY DEF CreditGrows, Grants

LEMMA SameCreditGrows ==
    ASSUME NEW r, Grants(r), NEW s, SameCredit(r, s)
    PROVE  CreditGrows(r, s)
BY DEF CreditGrows, SameCredit, Grants

LEMMA NoBodies == \A g : Bodies(<<>>, g)
BY EmptySequence DEF Bodies

LEMMA AckFlowGrants ==
    ASSUME NEW p, NEW r, Grants(r), NEW n
    PROVE  Bodies(R(p)!AckFlow(r, n), r.rcvRtWinEdge)
<1> DEFINE b == [kind |-> IF ~RxOn THEN "fcOnly"
                          ELSE IF WindowFcOn THEN "ackFlow" ELSE "ackOnly",
                 ack |-> IF RxOn THEN n ELSE 0,
                 rwe |-> IF WindowFcOn THEN r.rcvRtWinEdge ELSE 0,
                 lwe |-> 0]
<1>1. R(p)!AckFlow(r, n) = IF ~(RxOn \/ WindowFcOn) THEN <<>> ELSE <<b>>
  BY DEF R!AckFlow, R!DtcpPresent
<1>2. RxOn \/ WindowFcOn => Body(b, r.rcvRtWinEdge)
  BY DEF Body, GrantsCredit, ControlKinds, Grants
<1> HIDE DEF b
<1>3. IsSequence(<<b>>)
  <2>1. <<b>> \in Seq({b})
    OBVIOUS
  <2> QED
    BY <2>1 DEF IsSequence
<1>4. \A i \in 1..Len(<<b>>) : <<b>>[i] = b
  OBVIOUS
<1>5. CASE RxOn \/ WindowFcOn
  <2>1. Bodies(<<b>>, r.rcvRtWinEdge)
    BY <1>2, <1>3, <1>4, <1>5 DEF Bodies
  <2> QED
    BY <1>1, <1>5, <2>1
<1>6. CASE ~(RxOn \/ WindowFcOn)
  BY <1>1, <1>6, NoBodies
<1> QED
  BY <1>5, <1>6

LEMMA SvUpdateGrants ==
    ASSUME NEW p, NEW r, Grants(r)
    PROVE  /\ CreditGrows(r, R(p)!SvUpdate(r))
           /\ Bodies(R(p)!SvUpdateOut(r), R(p)!SvUpdate(r).rcvRtWinEdge)
<1> DEFINE u == R(p)!UpdateRcvLWE(r)
           c == R(p)!Credited(r)
<1>1. SameCredit(r, u)
  BY CreditSame
<1>2. c = IF WindowFcOn THEN [u EXCEPT !.rcvRtWinEdge = @ + 1] ELSE u
  BY DEF R!Credited
<1> HIDE DEF u, c
<1>3. CreditGrows(r, c)
  BY <1>1, <1>2 DEF SameCredit, CreditGrows, Grants, RcvFields
<1>4. Grants(c)
  BY <1>3 DEF CreditGrows
<1>5. SameCredit(c, R(p)!UpdateRcvLWE(c)) /\ SameCredit(c, R(p)!StartATimer(c, R(p)!RcvrAckNum(c)))
  BY <1>4, CreditSame, CreditSameAt
<1>6. \/ R(p)!SvUpdate(r) = c
      \/ R(p)!SvUpdate(r) = R(p)!UpdateRcvLWE(c)
      \/ R(p)!SvUpdate(r) = R(p)!StartATimer(c, R(p)!RcvrAckNum(c))
  BY DEF R!SvUpdate, c
<1>7. CreditGrows(r, R(p)!SvUpdate(r))
  BY <1>3, <1>4, <1>5, <1>6 DEF SameCredit, CreditGrows
<1>8. Bodies(R(p)!AckFlow(R(p)!SvUpdate(r), R(p)!RcvrAckNum(c)), R(p)!SvUpdate(r).rcvRtWinEdge)
  BY <1>7, AckFlowGrants DEF CreditGrows
<1> QED
  BY <1>7, <1>8, NoBodies DEF R!SvUpdateOut, c

(* The end of a handler. *)
LEMMA HandedGrants ==
    ASSUME NEW p, NEW r, Grants(r), NEW s, CreditGrows(r, s), NEW out, Bodies(out, s.rcvRtWinEdge)
    PROVE  Answers(r, R(p)!Handed(s, out))
<1>1. SameCredit(s, R(p)!Delimit(s))
  BY CreditSame DEF CreditGrows
<1>2. R(p)!Handed(s, out).st = R(p)!Delimit(s) /\ R(p)!Handed(s, out).out = out
  BY DEF R!Handed, R!Outcome
<1> QED
  BY <1>1, <1>2 DEF Answers, SameCredit, CreditGrows

LEMMA UpdatedGrants ==
    ASSUME NEW p, NEW r, Grants(r), NEW a, SameCredit(r, a)
    PROVE  Answers(r, R(p)!Handed(R(p)!SvUpdate(a), R(p)!SvUpdateOut(a)))
<1>1. CreditGrows(a, R(p)!SvUpdate(a)) /\ Bodies(R(p)!SvUpdateOut(a), R(p)!SvUpdate(a).rcvRtWinEdge)
  BY SvUpdateGrants DEF SameCredit
<1>2. CreditGrows(r, R(p)!SvUpdate(a))
  BY <1>1 DEF SameCredit, CreditGrows
<1> QED
  BY <1>1, <1>2, HandedGrants

(* Whatever a data PDU makes a receiver do, the credit it grants does not  *)
(* shrink, and its answer says what it is.                                 *)
LEMMA ReceiveGrants ==
    ASSUME NEW p, NEW r, Grants(r), NEW d
    PROVE  Answers(r, R(p)!Receive(r, d))
<1>1. Answers(r, R(p)!Outcome(r, {}, <<>>)) /\ Answers(r, R(p)!DropDuplicate(r))
  <2>1. CreditGrows(r, r)
    BY DEF CreditGrows, Grants
  <2> QED
    BY <2>1, NoBodies, AckFlowGrants DEF Answers, R!Outcome, R!DropDuplicate
<1>2. Answers(r, R(p)!IntoGap(r, d))
  <2> DEFINE a == R(p)!AddToReassemblyQ(r, d)
             e == [a EXCEPT !.rcvLeftWinEdge = r.maxSeqNumRcvd]
  <2>1. SameCredit(r, a)
    BY CreditSameAdding
  <2> HIDE DEF a
  <2>2. SameCredit(a, e)
    BY <2>1, CreditSameFields DEF SameCredit
  <2>3. CreditGrows(r, e)
    BY <2>1, <2>2 DEF SameCredit, CreditGrows, Grants
  <2> HIDE DEF e
  <2>4. Answers(r, R(p)!Handed(e, <<>>)) /\ Answers(r, R(p)!Handed(R(p)!SvUpdate(a), R(p)!SvUpdateOut(a)))
    BY <2>1, <2>3, NoBodies, HandedGrants, UpdatedGrants
  <2> QED
    BY <2>4 DEF R!IntoGap, a, e
<1>3. Answers(r, R(p)!NextInOrder(r, d))
  <2> DEFINE m == [r EXCEPT !.maxSeqNumRcvd = @ + 1]
             a == R(p)!AddToReassemblyQ(m, d)
             e == [a EXCEPT !.rcvLeftWinEdge = d.seq + 1]
             t == R(p)!StartATimer(e, d.seq)
  <2>1. SameCredit(r, m)
    BY CreditSameFields
  <2> HIDE DEF m
  <2>2. SameCredit(m, a)
    BY <2>1, CreditSameAdding DEF SameCredit
  <2>3. SameCredit(r, a)
    BY <2>1, <2>2 DEF SameCredit
  <2> HIDE DEF a
  <2>4. SameCredit(a, e)
    BY <2>3, CreditSameFields DEF SameCredit
  <2> HIDE DEF e
  <2>5. SameCredit(e, t)
    BY <2>4, CreditSameAt DEF SameCredit
  <2>6. CreditGrows(r, t)
    BY <2>3, <2>4, <2>5 DEF SameCredit, CreditGrows, Grants
  <2> HIDE DEF t
  <2>7. Answers(r, R(p)!Handed(t, <<>>)) /\ Answers(r, R(p)!Handed(R(p)!SvUpdate(a), R(p)!SvUpdateOut(a)))
    BY <2>3, <2>6, NoBodies, HandedGrants, UpdatedGrants
  <2> QED
    BY <2>7 DEF R!NextInOrder, m, a, e, t
<1>4. Answers(r, R(p)!BeyondGap(r, d))
  <2> DEFINE q == R(p)!AddToReassemblyQ(r, d)
             a == R(p)!SetMaxSeqNumRcvd(q, d.seq)
             t == R(p)!StartATimer(a, d.seq)
  <2>1. SameCredit(r, q)
    BY CreditSameAdding
  <2> HIDE DEF q
  <2>2. SameCredit(q, a)
    BY <2>1, CreditSameAt DEF SameCredit
  <2>3. SameCredit(r, a)
    BY <2>1, <2>2 DEF SameCredit
  <2> HIDE DEF a
  <2>4. SameCredit(a, t)
    BY <2>3, CreditSameAt DEF SameCredit
  <2>5. CreditGrows(r, t)
    BY <2>3, <2>4 DEF SameCredit, CreditGrows, Grants
  <2> HIDE DEF t
  <2>6. Answers(r, R(p)!Handed(t, <<>>)) /\ Answers(r, R(p)!Handed(R(p)!SvUpdate(a), R(p)!SvUpdateOut(a)))
    BY <2>3, <2>5, NoBodies, HandedGrants, UpdatedGrants
  <2> QED
    BY <2>6 DEF R!BeyondGap, q, a, t
<1>5. Answers(r, R(p)!StartOfRun(r, d))
  <2> DEFINE b == R(p)!Delimit(r)
             e == [b EXCEPT !.reassemblyPDUQ = {}]
             f == R(p)!SetMaxSeqNumRcvd(e, d.seq)
             g == [f EXCEPT !.rcvLeftWinEdge = d.seq + 1]
             a == R(p)!AddToReassemblyQ(g, d)
             u == IF R(p)!DtcpPresent THEN R(p)!SvUpdate(a) ELSE a
             out == IF R(p)!DtcpPresent THEN R(p)!SvUpdateOut(a) ELSE <<>>
  <2>1. SameCredit(r, b)
    BY CreditSame
  <2> HIDE DEF b
  <2>2. SameCredit(b, e)
    BY <2>1, CreditSameFields DEF SameCredit
  <2> HIDE DEF e
  <2>3. SameCredit(e, f)
    BY <2>2, CreditSameAt DEF SameCredit
  <2> HIDE DEF f
  <2>4. SameCredit(f, g)
    BY <2>3, CreditSameFields DEF SameCredit
  <2> HIDE DEF g
  <2>5. SameCredit(g, a)
    BY <2>4, CreditSameAdding DEF SameCredit
  <2> HIDE DEF a
  <2>6. Grants(a) /\ a.rcvRtWinEdge = r.rcvRtWinEdge
    BY <2>1, <2>2, <2>3, <2>4, <2>5 DEF SameCredit
  <2>7. CreditGrows(a, u) /\ Bodies(out, u.rcvRtWinEdge)
    BY <2>6, SvUpdateGrants, NoBodies DEF CreditGrows, Grants
  <2>8. R(p)!StartOfRun(r, d) = R(p)!Outcome(R(p)!Delimit(u),
             R(p)!Deliverable(r) \union R(p)!Deliverable(u), out)
    BY DEF R!StartOfRun, u, out, a, g, f, e, b
  <2> HIDE DEF u, out
  <2>9. SameCredit(u, R(p)!Delimit(u))
    BY <2>7, CreditSame DEF CreditGrows
  <2>10. R(p)!StartOfRun(r, d).st = R(p)!Delimit(u) /\ R(p)!StartOfRun(r, d).out = out
    BY <2>8 DEF R!Outcome
  <2> QED
    BY <2>6, <2>7, <2>9, <2>10 DEF Answers, SameCredit, CreditGrows
<1>6. \/ R(p)!Receive(r, d) = R(p)!StartOfRun(r, d)
      \/ R(p)!Receive(r, d) = R(p)!DropDuplicate(r)
      \/ R(p)!Receive(r, d) = R(p)!IntoGap(r, d)
      \/ R(p)!Receive(r, d) = R(p)!NextInOrder(r, d)
      \/ R(p)!Receive(r, d) = R(p)!BeyondGap(r, d)
      \/ R(p)!Receive(r, d) = R(p)!Outcome(r, {}, <<>>)
  BY DEF R!Receive
<1> QED
  BY <1>1, <1>2, <1>3, <1>4, <1>5, <1>6

LEMMA ATimerGrants ==
    ASSUME NEW p, NEW r, Grants(r), NEW n
    PROVE  CreditGrows(r, R(p)!ATimerFired(r, n).st)
<1> DEFINE f == [r EXCEPT !.aTimers[n] = @ - 1]
           u == R(p)!UpdateRcvLWE(f)
           e == [f EXCEPT !.rcvLeftWinEdge = IF @ > n THEN @ ELSE n]
<1>1. SameCredit(r, f)
  BY CreditSameFields
<1> HIDE DEF f
<1>2. SameCredit(f, u) /\ SameCredit(f, e)
  BY <1>1, CreditSame, CreditSameFields DEF SameCredit, Grants, RcvFields
<1>3. CreditGrows(r, u) /\ CreditGrows(r, e)
  BY <1>1, <1>2 DEF SameCredit, CreditGrows, Grants
<1> HIDE DEF u, e
<1>4. Answers(r, R(p)!Handed(u, <<>>)) /\ Answers(r, R(p)!Handed(e, <<>>))
  BY <1>3, NoBodies, HandedGrants
<1>5. R(p)!ATimerFired(r, n) = IF R(p)!DtcpPresent THEN R(p)!Handed(u, <<>>) ELSE R(p)!Handed(e, <<>>)
  BY DEF R!ATimerFired, u, e, f
<1> QED
  BY <1>4, <1>5 DEF Answers

-----------------------------------------------------------------------------
(* What the two ends and the path between them agree on.                   *)

DataFits(m, n, g) == m.type = "data" => m.pdu \in PDUs(n) /\ Granted(m.pdu, g)

CtrlFits(m, n, g) ==
    m.type = "ctrl" => Says(m.pdu) /\ m.pdu.seq < n /\ m.pdu.rwe <= g

Granting(m) == CreditsFit /\ m.type = "ctrl" /\ GrantsCredit(m.pdu)

(* A grant the sender s will still listen to. *)
Pending(m, s) == Granting(m) /\ m.pdu.seq > s.lastControlSeqNumRcv

InStep(m, l) ==
    Granting(m) /\ Granting(l) /\ m.pdu.seq <= l.pdu.seq => m.pdu.rwe <= l.pdu.rwe

(* The inductive invariant. A sender has at most the credit its peer has   *)
(* granted, and sent its PDUs within it; so is every control PDU under     *)
(* way, and their grants grow with their numbers, so that one the sender   *)
(* still listens to is never below the credit it has.                      *)
Agreed ==
    /\ DOMAIN snd = Peers /\ DOMAIN rcv = Peers /\ DOMAIN nextCtrl = Peers
    /\ DOMAIN net = Peers
    /\ \A p \in Peers :
        /\ Sound(snd[p], rcv[Peer(p)].rcvRtWinEdge)
        /\ Grants(rcv[p])
        /\ nextCtrl[p] \in Nat \ {0}
        /\ IsSequence(net[p])
        /\ \A m \in Elems(net[p]) :
              /\ DataFits(m, snd[Peer(p)].nextSeqNumToSend, rcv[p].rcvRtWinEdge)
              /\ CtrlFits(m, nextCtrl[Peer(p)], rcv[Peer(p)].rcvRtWinEdge)
              /\ Pending(m, snd[p]) => snd[p].sndRtWinEdge <= m.pdu.rwe
        /\ \A m, l \in Elems(net[p]) : InStep(m, l)

(* What an end may send: numbers data below n and control from c to d - 1, *)
(* with a peer that granted g and credit h to grant.                       *)
Sendable(m, n, g, c, d, h) ==
    /\ DataFits(m, n, g)
    /\ m.type = "ctrl" =>
          /\ Says(m.pdu)
          /\ c <= m.pdu.seq /\ m.pdu.seq < d
          /\ m.pdu.rwe <= h
          /\ GrantsCredit(m.pdu) => m.pdu.rwe = h

(* A step of p that adds nothing but msgs, of which k are control PDUs, to *)
(* what is under way.                                                      *)
Acts(p, s, r, msgs, k) ==
    /\ DOMAIN snd' = Peers /\ DOMAIN rcv' = Peers /\ DOMAIN nextCtrl' = Peers
    /\ DOMAIN net' = Peers
    /\ snd'[p] = s /\ snd'[Peer(p)] = snd[Peer(p)]
    /\ rcv'[p] = r /\ rcv'[Peer(p)] = rcv[Peer(p)]
    /\ nextCtrl'[p] = nextCtrl[p] + k /\ nextCtrl'[Peer(p)] = nextCtrl[Peer(p)]
    /\ IsSequence(net'[p]) /\ Elems(net'[p]) \subseteq Elems(net[p])
    /\ IsSequence(net'[Peer(p)])
    /\ Elems(net'[Peer(p)]) \subseteq Elems(net[Peer(p)]) \union msgs

LEMMA ActingAgreed ==
    ASSUME Agreed, NEW p \in Peers,
           NEW s, NEW r, NEW msgs, NEW k \in Nat, Acts(p, s, r, msgs, k),
           Sound(s, rcv[Peer(p)].rcvRtWinEdge),
           s.nextSeqNumToSend >= snd[p].nextSeqNumToSend,
           CreditGrows(rcv[p], r),
           \A m \in msgs : Sendable(m, s.nextSeqNumToSend, rcv[Peer(p)].rcvRtWinEdge,
                                    nextCtrl[p], nextCtrl[p] + k, r.rcvRtWinEdge),
           \A m \in Elems(net'[p]) : Pending(m, s) => s.sndRtWinEdge <= m.pdu.rwe
    PROVE  Agreed'
<1> DEFINE q == Peer(p)
           n == snd[p].nextSeqNumToSend
           g == rcv[p].rcvRtWinEdge
           h == rcv[q].rcvRtWinEdge
<1>1. q \in Peers /\ q # p /\ Peer(q) = p /\ \A x \in Peers : x = p \/ x = q
  BY TwoPeers
<1> HIDE DEF q
<1>2. /\ snd'[p] = s /\ snd'[q] = snd[q]
      /\ rcv'[p] = r /\ rcv'[q] = rcv[q]
      /\ nextCtrl'[p] = nextCtrl[p] + k /\ nextCtrl'[q] = nextCtrl[q]
      /\ IsSequence(net'[p]) /\ Elems(net'[p]) \subseteq Elems(net[p])
      /\ IsSequence(net'[q]) /\ Elems(net'[q]) \subseteq Elems(net[q]) \union msgs
      /\ DOMAIN snd' = Peers /\ DOMAIN rcv' = Peers /\ DOMAIN nextCtrl' = Peers
      /\ DOMAIN net' = Peers
  BY DEF Acts, q
<1>3. /\ Sound(snd[p], h) /\ Sound(snd[q], g) /\ Grants(rcv[p]) /\ Grants(rcv[q])
      /\ nextCtrl[p] \in Nat \ {0} /\ nextCtrl[q] \in Nat \ {0}
      /\ \A m \in Elems(net[p]) :
            /\ DataFits(m, snd[q].nextSeqNumToSend, g)
            /\ CtrlFits(m, nextCtrl[q], h)
      /\ \A m, l \in Elems(net[p]) : InStep(m, l)
      /\ \A m \in Elems(net[q]) :
            /\ DataFits(m, n, h)
            /\ CtrlFits(m, nextCtrl[p], g)
            /\ Pending(m, snd[q]) => snd[q].sndRtWinEdge <= m.pdu.rwe
      /\ \A m, l \in Elems(net[q]) : InStep(m, l)
  <2>1. q = Peer(p)
    BY DEF q
  <2> QED
    BY <1>1, <2>1 DEF Agreed
<1>4. /\ g \in Nat /\ h \in Nat /\ r.rcvRtWinEdge \in Nat /\ g <= r.rcvRtWinEdge
      /\ n \in Nat /\ s.nextSeqNumToSend \in Nat /\ n <= s.nextSeqNumToSend
      /\ Grants(r)
  BY <1>3 DEF Grants, CreditGrows, Sound
<1>5. \A m \in msgs : Sendable(m, s.nextSeqNumToSend, h,
                                      nextCtrl[p], nextCtrl[p] + k, r.rcvRtWinEdge)
  BY DEF q
<1>6. Sound(s, h)
  BY DEF q
<1> HIDE DEF n, g, h
<1>7. /\ Sound(snd'[p], rcv'[q].rcvRtWinEdge) /\ Grants(rcv'[p]) /\ nextCtrl'[p] \in Nat \ {0}
      /\ IsSequence(net'[p])
      /\ Sound(snd'[q], rcv'[p].rcvRtWinEdge) /\ Grants(rcv'[q]) /\ nextCtrl'[q] \in Nat \ {0}
      /\ IsSequence(net'[q])
  <2>1. Sound(snd[q], r.rcvRtWinEdge)
    BY <1>3, <1>4, SoundGrows
  <2> QED
    BY <1>2, <1>3, <1>4, <1>6, <2>1 DEF h
<1>8. ASSUME NEW m \in Elems(net'[p])
       PROVE  /\ DataFits(m, snd'[q].nextSeqNumToSend, rcv'[p].rcvRtWinEdge)
              /\ CtrlFits(m, nextCtrl'[q], rcv'[q].rcvRtWinEdge)
              /\ Pending(m, snd'[p]) => snd'[p].sndRtWinEdge <= m.pdu.rwe
  <2>1. m \in Elems(net[p])
    BY <1>2
  <2>2. DataFits(m, snd[q].nextSeqNumToSend, g) /\ CtrlFits(m, nextCtrl[q], h)
    BY <1>3, <2>1
  <2>3. DataFits(m, snd[q].nextSeqNumToSend, r.rcvRtWinEdge)
    BY <1>4, <2>2, GrantsGrow DEF DataFits
  <2> QED
    BY <1>2, <2>1, <2>2, <2>3 DEF h
<1>9. \A m, l \in Elems(net'[p]) : InStep(m, l)
  BY <1>2, <1>3
<1>10. ASSUME NEW m \in Elems(net[q])
       PROVE  /\ DataFits(m, s.nextSeqNumToSend, h)
              /\ CtrlFits(m, nextCtrl[p] + k, r.rcvRtWinEdge)
              /\ Pending(m, snd[q]) => snd[q].sndRtWinEdge <= m.pdu.rwe
  <2>1. /\ DataFits(m, n, h) /\ CtrlFits(m, nextCtrl[p], g)
        /\ Pending(m, snd[q]) => snd[q].sndRtWinEdge <= m.pdu.rwe
    BY <1>3
  <2>2. PDUs(n) \subseteq PDUs(s.nextSeqNumToSend)
    BY <1>4, NumbersGrow
  <2> QED
    BY <1>3, <1>4, <2>1, <2>2 DEF DataFits, CtrlFits, Says
<1>11. ASSUME NEW m \in msgs
       PROVE  /\ DataFits(m, s.nextSeqNumToSend, h)
              /\ CtrlFits(m, nextCtrl[p] + k, r.rcvRtWinEdge)
              /\ Pending(m, snd[q]) => snd[q].sndRtWinEdge <= m.pdu.rwe
  <2>1. Sendable(m, s.nextSeqNumToSend, h, nextCtrl[p], nextCtrl[p] + k, r.rcvRtWinEdge)
    BY <1>5
  <2>2. CreditsFit => snd[q].sndRtWinEdge <= g /\ snd[q].sndRtWinEdge \in Nat
    BY <1>3 DEF Sound
  <2> QED
    BY <1>4, <2>1, <2>2 DEF Sendable, CtrlFits, Pending, Granting
<1>12. ASSUME NEW m \in Elems(net'[q])
       PROVE  /\ DataFits(m, snd'[p].nextSeqNumToSend, rcv'[q].rcvRtWinEdge)
              /\ CtrlFits(m, nextCtrl'[p], rcv'[p].rcvRtWinEdge)
              /\ Pending(m, snd'[q]) => snd'[q].sndRtWinEdge <= m.pdu.rwe
  BY <1>2, <1>10, <1>11 DEF h
<1>13. ASSUME NEW m \in Elems(net'[q]), NEW l \in Elems(net'[q])
       PROVE  InStep(m, l)
  <2>1. CASE m \in Elems(net[q]) /\ l \in Elems(net[q])
    BY <1>3, <2>1
  <2>2. CASE m \in Elems(net[q]) /\ l \in msgs
    <3>1. CtrlFits(m, nextCtrl[p], g)
      BY <1>3, <2>2
    <3>2. Sendable(l, s.nextSeqNumToSend, h, nextCtrl[p], nextCtrl[p] + k, r.rcvRtWinEdge)
      BY <1>5, <2>2
    <3> QED
      BY <1>4, <3>1, <3>2 DEF Sendable, CtrlFits, InStep, Granting, Says
  <2>3. CASE m \in msgs /\ l \in Elems(net[q])
    <3>1. CtrlFits(l, nextCtrl[p], g)
      BY <1>3, <2>3
    <3>2. Sendable(m, s.nextSeqNumToSend, h, nextCtrl[p], nextCtrl[p] + k, r.rcvRtWinEdge)
      BY <1>5, <2>3
    <3> QED
      BY <1>3, <1>4, <3>1, <3>2 DEF Sendable, CtrlFits, InStep, Granting, Says
  <2>4. CASE m \in msgs /\ l \in msgs
    <3>1. /\ Sendable(m, s.nextSeqNumToSend, h, nextCtrl[p], nextCtrl[p] + k, r.rcvRtWinEdge)
          /\ Sendable(l, s.nextSeqNumToSend, h, nextCtrl[p], nextCtrl[p] + k, r.rcvRtWinEdge)
      BY <1>5, <2>4
    <3> QED
      BY <1>4, <3>1 DEF Sendable, InStep, Granting
  <2> QED
    BY <1>2, <2>1, <2>2, <2>3, <2>4
<1>14. ASSUME NEW x \in Peers
       PROVE  /\ Sound(snd'[x], rcv'[Peer(x)].rcvRtWinEdge)
              /\ Grants(rcv'[x])
              /\ nextCtrl'[x] \in Nat \ {0}
              /\ IsSequence(net'[x])
              /\ \A m \in Elems(net'[x]) :
                    /\ DataFits(m, snd'[Peer(x)].nextSeqNumToSend, rcv'[x].rcvRtWinEdge)
                    /\ CtrlFits(m, nextCtrl'[Peer(x)], rcv'[Peer(x)].rcvRtWinEdge)
                    /\ Pending(m, snd'[x]) => snd'[x].sndRtWinEdge <= m.pdu.rwe
              /\ \A m, l \in Elems(net'[x]) : InStep(m, l)
  <2>1. CASE x = p
    <3>1. Peer(x) = q
      BY <2>1 DEF q
    <3> QED
      BY <1>7, <1>8, <1>9, <2>1, <3>1
  <2>2. CASE x = q
    <3>1. Peer(x) = p
      BY <1>1, <2>2
    <3> QED
      BY <1>7, <1>12, <1>13, <2>2, <3>1
  <2> QED
    BY <1>1, <2>1, <2>2
<1> QED
  BY <1>2, <1>14 DEF Agreed

-----------------------------------------------------------------------------
(* What goes on the path.                                                  *)

LEMMA DataIsSendable ==
    ASSUME NEW n, NEW g, NEW pdus, Sent(pdus, n, g)
    PROVE  /\ IsSequence(Data(pdus))
           /\ \A m \in Elems(Data(pdus)) : \A c, d, h : Sendable(m, n, g, c, d, h)
<1> DEFINE X == {[type |-> "data", pdu |-> x] : x \in PDUs(n)}
           k == Len(pdus)
<1>1. pdus \in Seq(PDUs(n)) /\ k \in Nat /\ DOMAIN pdus = 1..k
      /\ \A i \in 1..k : pdus[i] \in PDUs(n) /\ Granted(pdus[i], g)
  BY DEF Sent
<1> HIDE DEF k
<1>2. /\ Data(pdus) \in [1..k -> X]
      /\ \A i \in 1..k : Data(pdus)[i] = [type |-> "data", pdu |-> pdus[i]]
  BY <1>1 DEF Data
<1>3. Data(pdus) \in Seq(X) /\ Len(Data(pdus)) = k
  <2>1. Data(pdus) \in Seq(X)
    BY <1>1, <1>2, FunctionIsSequence
  <2> QED
    BY <1>1, <1>2, <2>1
<1>4. ASSUME NEW m \in Elems(Data(pdus)), NEW c, NEW d, NEW h
      PROVE  Sendable(m, n, g, c, d, h)
  <2>1. PICK i \in 1..k : m = Data(pdus)[i]
    BY <1>3 DEF Elems
  <2>2. m = [type |-> "data", pdu |-> pdus[i]] /\ pdus[i] \in PDUs(n) /\ Granted(pdus[i], g)
    BY <1>1, <1>2, <2>1
  <2>3. m.type = "data" /\ m.pdu = pdus[i]
    BY <2>2
  <2> QED
    BY <2>2, <2>3 DEF Sendable, DataFits
<1> QED
  BY <1>3, <1>4 DEF IsSequence

LEMMA CtrlIsSendable ==
    ASSUME NEW c \in Nat, NEW h, NEW bodies, Bodies(bodies, h)
    PROVE  /\ IsSequence(Ctrl(c, bodies)) /\ Len(bodies) \in Nat
           /\ \A m \in Elems(Ctrl(c, bodies)) :
                 \A n, g : Sendable(m, n, g, c, c + Len(bodies), h)
<1> DEFINE k == Len(bodies)
           C == Ctrl(c, bodies)
<1>1. k \in Nat /\ DOMAIN bodies = 1..k /\ \A i \in 1..k : Body(bodies[i], h)
  BY DEF Bodies, IsSequence
<1> HIDE DEF k
<1>2. /\ DOMAIN C = 1..k /\ C = [i \in 1..k |-> C[i]]
      /\ \A i \in 1..k :
            C[i] = [type |-> "ctrl",
                    pdu |-> [seq |-> c + i - 1, kind |-> bodies[i].kind,
                             ack |-> bodies[i].ack, rwe |-> bodies[i].rwe,
                             lwe |-> bodies[i].lwe]]
  BY <1>1 DEF Ctrl
<1> HIDE DEF C
<1>3. IsSequence(C) /\ Len(C) = k
  <2> DEFINE X == {C[i] : i \in 1..k}
  <2>1. C \in [1..k -> X]
    BY <1>2
  <2>2. C \in Seq(X)
    BY <1>1, <2>1, FunctionIsSequence
  <2> HIDE DEF X
  <2>3. Len(C) = k
    BY <1>1, <2>1, <2>2
  <2> QED
    BY <2>2, <2>3 DEF IsSequence
<1>4. ASSUME NEW m \in Elems(C), NEW n, NEW g
      PROVE  Sendable(m, n, g, c, c + k, h)
  <2>1. PICK i \in 1..k : m = C[i]
    BY <1>3 DEF Elems
  <2>2. /\ m.type = "ctrl" /\ m.pdu.seq = c + i - 1
        /\ m.pdu.kind = bodies[i].kind /\ m.pdu.rwe = bodies[i].rwe
    BY <1>2, <2>1
  <2>3. Body(bodies[i], h)
    BY <1>1
  <2> QED
    BY <1>1, <2>2, <2>3 DEF Sendable, DataFits, Body, Says, GrantsCredit
<1> QED
  BY <1>3, <1>4 DEF C, k

LEMMA SendableMore ==
    ASSUME NEW n, NEW g, NEW h, NEW b \in Nat, NEW c \in Nat, NEW d \in Nat, NEW e \in Nat,
           b <= c, d <= e, NEW m, Sendable(m, n, g, c, d, h)
    PROVE  Sendable(m, n, g, b, e, h)
BY DEF Sendable, Says

(* What is under way but for what p consumed. *)
Remains(channel) ==
    /\ DOMAIN channel = Peers
    /\ \A q \in Peers : IsSequence(channel[q]) /\ Elems(channel[q]) \subseteq Elems(net[q])

(* The end p, and no other, has x in g instead of what it has in f. *)
SetAt(p, x, f, g) == \/ g = [f EXCEPT ![p] = x]
                     \/ g = f /\ x = f[p]

LEMMA SendingActs ==
    ASSUME Agreed, NEW p \in Peers, NEW channel, Remains(channel),
           NEW s, NEW r, NEW msgs, IsSequence(msgs), NEW k,
           SetAt(p, s, snd, snd'), SetAt(p, r, rcv, rcv'),
           Sends(p, channel, msgs, k)
    PROVE  Acts(p, s, r, Elems(msgs), k) /\ Elems(net'[p]) \subseteq Elems(net[p])
<1>1. Peer(p) \in Peers /\ Peer(p) # p
  BY TwoPeers
<1>2. DOMAIN snd = Peers /\ DOMAIN rcv = Peers /\ DOMAIN nextCtrl = Peers
  BY DEF Agreed
<1>3. /\ net'[p] = channel[p] /\ net'[Peer(p)] = channel[Peer(p)] \o msgs
      /\ DOMAIN net' = Peers
      /\ nextCtrl'[p] = nextCtrl[p] + k /\ nextCtrl'[Peer(p)] = nextCtrl[Peer(p)]
      /\ DOMAIN nextCtrl' = Peers
  BY <1>1, <1>2 DEF Sends, Remains
<1>4. /\ IsSequence(net'[Peer(p)])
      /\ Elems(net'[Peer(p)]) = Elems(channel[Peer(p)]) \union Elems(msgs)
  BY <1>1, <1>3, SequenceJoin DEF Remains
<1> QED
  BY <1>1, <1>2, <1>3, <1>4 DEF Acts, Remains, SetAt

LEMMA NetRemains ==
    ASSUME Agreed
    PROVE  Remains(net)
BY DEF Agreed, Remains

LEMMA ArrivalRemains ==
    ASSUME Agreed, NEW p \in Peers, net[p] # <<>>
    PROVE  Remains([net EXCEPT ![p] = Tail(@)]) /\ Head(net[p]) \in Elems(net[p])
<1>1. IsSequence(net[p])
  BY DEF Agreed
<1> QED
  BY <1>1, SequenceTail DEF Agreed, Remains

LEMMA OvertakingRemains ==
    ASSUME Agreed, NEW p \in Peers, NEW i \in 1..Len(net[p])
    PROVE  Remains([net EXCEPT ![p] = RemoveAt(@, i)]) /\ net[p][i] \in Elems(net[p])
<1>1. IsSequence(net[p])
  BY DEF Agreed
<1>2. IsSequence(RemoveAt(net[p], i)) /\ Elems(RemoveAt(net[p], i)) \subseteq Elems(net[p])
  BY <1>1, SequenceWithout
<1> QED
  BY <1>2 DEF Agreed, Remains, Elems

-----------------------------------------------------------------------------
(* The actions.                                                            *)

(* The credit p's sender has does not shrink. *)
EdgeKept(p) == CreditsFit => snd'[p].sndRtWinEdge >= snd[p].sndRtWinEdge

EdgesKept == \A p \in Peers : EdgeKept(p)

LEMMA ActingKeepsEdges ==
    ASSUME Agreed, NEW p \in Peers, NEW s, NEW r, NEW msgs, NEW k, Acts(p, s, r, msgs, k),
           CreditsFit => s.sndRtWinEdge >= snd[p].sndRtWinEdge
    PROVE  EdgesKept
<1>1. \A q \in Peers : q = p \/ q = Peer(p)
  BY TwoPeers
<1>2. Peer(p) \in Peers
  BY TwoPeers
<1>3. snd[Peer(p)].sndRtWinEdge \in Nat
  BY <1>2 DEF Agreed, Sound
<1> QED
  BY <1>1, <1>3 DEF EdgesKept, EdgeKept, Acts

LEMMA NothingActs ==
    ASSUME Agreed, NEW p \in Peers, Remains(net'), UNCHANGED <<snd, rcv, nextCtrl>>
    PROVE  Acts(p, snd[p], rcv[p], {}, 0)
<1>1. Peer(p) \in Peers
  BY TwoPeers
<1>2. nextCtrl[p] \in Nat
  BY DEF Agreed
<1> QED
  BY <1>1, <1>2 DEF Acts, Agreed, Remains

(* A step in which the sender of p stays as it is. *)
LEMMA ReceiverActing ==
    ASSUME Agreed, NEW p \in Peers, NEW r, CreditGrows(rcv[p], r),
           NEW msgs, NEW k \in Nat, Acts(p, snd[p], r, msgs, k),
           \A m \in msgs : \A n, g : Sendable(m, n, g, nextCtrl[p], nextCtrl[p] + k,
                                              r.rcvRtWinEdge)
    PROVE  Agreed' /\ EdgesKept
<1>1. Sound(snd[p], rcv[Peer(p)].rcvRtWinEdge)
  BY DEF Agreed
<1>2. snd[p].nextSeqNumToSend \in Nat /\ snd[p].sndRtWinEdge \in Nat
  BY <1>1 DEF Sound
<1>3. \A m \in Elems(net'[p]) : Pending(m, snd[p]) => snd[p].sndRtWinEdge <= m.pdu.rwe
  BY DEF Agreed, Acts
<1>4. EdgesKept
  BY <1>2, ActingKeepsEdges
<1>5. snd[p].nextSeqNumToSend >= snd[p].nextSeqNumToSend
  BY <1>2
<1>6. \A m \in msgs : Sendable(m, snd[p].nextSeqNumToSend, rcv[Peer(p)].rcvRtWinEdge,
                               nextCtrl[p], nextCtrl[p] + k, r.rcvRtWinEdge)
  OBVIOUS
<1>7. Agreed'
  BY <1>1, <1>3, <1>5, <1>6, ActingAgreed
<1> QED
  BY <1>4, <1>7

LEMMA DataHandled ==
    ASSUME Agreed, NEW p \in Peers, NEW d, NEW channel, Remains(channel),
           HandleData(p, d, channel)
    PROVE  Agreed' /\ EdgesKept
<1> DEFINE o == R(p)!Receive(rcv[p], d)
           msgs == Ctrl(nextCtrl[p], o.out)
<1>1. Grants(rcv[p]) /\ nextCtrl[p] \in Nat /\ DOMAIN snd = Peers
  BY DEF Agreed
<1>2. CreditGrows(rcv[p], o.st) /\ Bodies(o.out, o.st.rcvRtWinEdge)
  BY <1>1, ReceiveGrants DEF Answers
<1>3. /\ rcv' = [rcv EXCEPT ![p] = o.st] /\ snd' = snd
      /\ Sends(p, channel, msgs, Len(o.out))
  BY DEF HandleData
<1> HIDE DEF o
<1>4. /\ IsSequence(msgs) /\ Len(o.out) \in Nat
      /\ \A m \in Elems(msgs) : \A n, g :
            Sendable(m, n, g, nextCtrl[p], nextCtrl[p] + Len(o.out), o.st.rcvRtWinEdge)
  BY <1>1, <1>2, CtrlIsSendable
<1> HIDE DEF msgs
<1>5. Acts(p, snd[p], o.st, Elems(msgs), Len(o.out))
  <2>1. SetAt(p, snd[p], snd, snd') /\ SetAt(p, o.st, rcv, rcv')
    BY <1>3 DEF SetAt
  <2> QED
    BY <1>3, <1>4, <2>1, SendingActs
<1> QED
  BY <1>2, <1>4, <1>5, ReceiverActing

LEMMA ATimerHandled ==
    ASSUME Agreed, NEW p \in Peers, NEW n, ATimerExpires(p, n)
    PROVE  Agreed' /\ EdgesKept
<1> DEFINE o == R(p)!ATimerFired(rcv[p], n)
<1>1. Grants(rcv[p]) /\ nextCtrl[p] \in Nat /\ DOMAIN rcv = Peers
  BY DEF Agreed
<1>2. CreditGrows(rcv[p], o.st)
  BY <1>1, ATimerGrants
<1>3. rcv' = [rcv EXCEPT ![p] = o.st] /\ UNCHANGED <<snd, nextCtrl, net>>
  BY DEF ATimerExpires
<1> HIDE DEF o
<1>4. Peer(p) \in Peers /\ Peer(p) # p
  BY TwoPeers
<1>5. Acts(p, snd[p], o.st, {}, 0)
  BY <1>1, <1>3, <1>4 DEF Acts, Agreed
<1> QED
  BY <1>2, <1>5, ReceiverActing

LEMMA LossAgreed ==
    ASSUME Agreed, NEW p \in Peers, NEW i \in 1..Len(net[p]), Lose(p, i)
    PROVE  Agreed' /\ EdgesKept
<1>1. Remains(net')
  <2>1. Remains([net EXCEPT ![p] = RemoveAt(@, i)])
    BY OvertakingRemains
  <2> QED
    BY <2>1 DEF Lose
<1>2. UNCHANGED <<snd, rcv, nextCtrl>>
  BY DEF Lose
<1>3. Acts(p, snd[p], rcv[p], {}, 0)
  BY <1>1, <1>2, NothingActs
<1>4. CreditGrows(rcv[p], rcv[p])
  BY DEF Agreed, CreditGrows, Grants
<1> DEFINE M == {}
<1>5. /\ Acts(p, snd[p], rcv[p], M, 0)
      /\ \A m \in M : \A n, g : Sendable(m, n, g, nextCtrl[p], nextCtrl[p] + 0,
                                         rcv[p].rcvRtWinEdge)
  BY <1>3
<1> HIDE DEF M
<1> QED
  BY <1>4, <1>5, ReceiverActing

(* A step of p that sends data and leaves its receiver and its credit as   *)
(* they are.                                                               *)
LEMMA SenderActing ==
    ASSUME Agreed, NEW p \in Peers, NEW s, NEW tx,
           Sound(s, rcv[Peer(p)].rcvRtWinEdge),
           s.nextSeqNumToSend >= snd[p].nextSeqNumToSend,
           s.sndRtWinEdge = snd[p].sndRtWinEdge,
           s.lastControlSeqNumRcv = snd[p].lastControlSeqNumRcv,
           Sent(tx, s.nextSeqNumToSend, rcv[Peer(p)].rcvRtWinEdge),
           snd' = [snd EXCEPT ![p] = s], rcv' = rcv, Sends(p, net, Data(tx), 0)
    PROVE  Agreed' /\ EdgesKept
<1> DEFINE h == rcv[Peer(p)].rcvRtWinEdge
           msgs == Data(tx)
<1>1. DOMAIN rcv = Peers /\ nextCtrl[p] \in Nat /\ CreditGrows(rcv[p], rcv[p])
      /\ snd[p].sndRtWinEdge \in Nat
  BY DEF Agreed, CreditGrows, Grants, Sound
<1>2. /\ IsSequence(msgs)
      /\ \A m \in Elems(msgs) : Sendable(m, s.nextSeqNumToSend, h, nextCtrl[p],
                                         nextCtrl[p] + 0, rcv[p].rcvRtWinEdge)
  BY DataIsSendable
<1> HIDE DEF msgs
<1>3. Acts(p, s, rcv[p], Elems(msgs), 0) /\ Elems(net'[p]) \subseteq Elems(net[p])
  <2>1. SetAt(p, s, snd, snd') /\ SetAt(p, rcv[p], rcv, rcv')
    BY DEF SetAt
  <2>2. Sends(p, net, msgs, 0)
    BY DEF msgs
  <2> QED
    BY <1>2, <2>1, <2>2, NetRemains, SendingActs
<1>4. \A m \in Elems(net'[p]) : Pending(m, s) => s.sndRtWinEdge <= m.pdu.rwe
  BY <1>3 DEF Agreed, Pending
<1>5. EdgesKept
  BY <1>1, <1>3, ActingKeepsEdges
<1>6. Agreed'
  BY <1>1, <1>2, <1>3, <1>4, ActingAgreed
<1> QED
  BY <1>5, <1>6

LEMMA WriteHandled ==
    ASSUME Agreed, NEW p \in Peers, WriteSDU(p)
    PROVE  Agreed' /\ EdgesKept
<1> DEFINE s == snd[p]
           h == rcv[Peer(p)].rcvRtWinEdge
           o == S(p)!TrySendGenerated(S(p)!Numbered(s, 1), S(p)!Generated(s, 1))
<1>1. Sound(s, h) /\ h \in Nat /\ s.nextSeqNumToSend \in Nat
  BY TwoPeers DEF Agreed, Sound, Grants
<1>2. /\ Sound(o.st, h)
      /\ o.st.nextSeqNumToSend = s.nextSeqNumToSend + 1
      /\ o.st.sndRtWinEdge = s.sndRtWinEdge
      /\ o.st.lastControlSeqNumRcv = s.lastControlSeqNumRcv
      /\ Sent(o.tx, o.st.nextSeqNumToSend, h)
  <2> HIDE DEF h, s
  <2> QED
    BY <1>1, WriteSends
<1>3. snd' = [snd EXCEPT ![p] = o.st] /\ Sends(p, net, Data(o.tx), 0) /\ rcv' = rcv
  BY DEF WriteSDU
<1> HIDE DEF o
<1>4. o.st.nextSeqNumToSend >= s.nextSeqNumToSend
  BY <1>1, <1>2
<1> QED
  BY <1>2, <1>3, <1>4, SenderActing

LEMMA RxTimerHandled ==
    ASSUME Agreed, NEW p \in Peers, NEW e \in snd[p].rxQ, RxTimerExpires(p, e)
    PROVE  Agreed' /\ EdgesKept
<1> DEFINE s == snd[p]
           h == rcv[Peer(p)].rcvRtWinEdge
           o == S(p)!RxTimerExpiry(s, e)
<1>1. Sound(s, h) /\ h \in Nat /\ s.nextSeqNumToSend \in Nat
  BY TwoPeers DEF Agreed, Sound, Grants
<1>2. Sound(o.st, h) /\ SameBooks(s, o.st) /\ Sent(o.tx, s.nextSeqNumToSend, h)
  BY <1>1, TimerSends
<1>3. snd' = [snd EXCEPT ![p] = o.st] /\ Sends(p, net, Data(o.tx), 0) /\ rcv' = rcv
  BY DEF RxTimerExpires
<1> HIDE DEF o
<1>4. /\ o.st.nextSeqNumToSend >= s.nextSeqNumToSend
      /\ o.st.sndRtWinEdge = s.sndRtWinEdge
      /\ o.st.lastControlSeqNumRcv = s.lastControlSeqNumRcv
      /\ Sent(o.tx, o.st.nextSeqNumToSend, h)
  BY <1>1, <1>2 DEF SameBooks
<1> QED
  BY <1>2, <1>3, <1>4, SenderActing

(* A control PDU the sender listens to grants at least what it has; those  *)
(* it will still listen to then grant at least as much.                    *)
LEMMA ControlHandled ==
    ASSUME Agreed, NEW p \in Peers, NEW msg \in Elems(net[p]), msg.type = "ctrl",
           NEW channel, Remains(channel), HandleControl(p, msg.pdu, channel)
    PROVE  Agreed' /\ EdgesKept
<1> DEFINE s == snd[p]
           r == rcv[p]
           h == rcv[Peer(p)].rcvRtWinEdge
           m == msg.pdu
           o == S(p)!HandleControl(s, m)
           heard == ~S(p)!DuplicateControl(s, m)
           first == IF S(p)!LostControl(s, m) THEN <<ControlAck(r)>> ELSE <<>>
           second == IF heard /\ m.kind = "ctrlAck"
                       THEN R(p)!AckFlow(r, R(p)!BelowLeftEdge(r)) ELSE <<>>
           c == nextCtrl[p]
           k == Len(first) + Len(second)
           msgs == Ctrl(c, first) \o Data(o.lead) \o Ctrl(c + Len(first), second) \o Data(o.tx)
<1>1. /\ Sound(s, h) /\ h \in Nat /\ s.nextSeqNumToSend \in Nat /\ s.sndRtWinEdge \in Nat
      /\ s.lastControlSeqNumRcv \in Nat
      /\ Grants(r) /\ c \in Nat
      /\ Says(m) /\ m.rwe <= h
      /\ Pending(msg, s) => s.sndRtWinEdge <= m.rwe
      /\ \A l \in Elems(net[p]) : Pending(l, s) => s.sndRtWinEdge <= l.pdu.rwe
      /\ \A l \in Elems(net[p]) : InStep(msg, l) /\ CtrlFits(l, nextCtrl[Peer(p)], h)
  BY TwoPeers DEF Agreed, Sound, Grants, CtrlFits
<1>2. /\ Sound(o.st, h)
      /\ o.st.nextSeqNumToSend >= s.nextSeqNumToSend
      /\ o.st.lastControlSeqNumRcv = IF ~heard THEN s.lastControlSeqNumRcv ELSE m.seq
      /\ o.st.sndRtWinEdge = IF heard /\ GrantsCredit(m) THEN m.rwe ELSE s.sndRtWinEdge
      /\ Sent(o.lead, o.st.nextSeqNumToSend, h)
      /\ Sent(o.tx, o.st.nextSeqNumToSend, h)
  <2> HIDE DEF s, h, m
  <2> QED
    BY <1>1, ControlSends
<1>3. heard <=> m.seq > s.lastControlSeqNumRcv
  BY <1>1 DEF S!DuplicateControl, Says
<1>4. /\ snd' = [snd EXCEPT ![p] = o.st] /\ rcv' = rcv
      /\ Sends(p, channel, msgs, k)
  BY DEF HandleControl
<1>5. Bodies(first, r.rcvRtWinEdge)
  <2>1. Body(ControlAck(r), r.rcvRtWinEdge)
    BY <1>1 DEF ControlAck, Body, Grants, ControlKinds
  <2>2. CASE S(p)!LostControl(s, m)
    <3>1. first = <<ControlAck(r)>> /\ first \in Seq({ControlAck(r)})
          /\ \A i \in 1..Len(first) : first[i] = ControlAck(r)
      BY <2>2
    <3> QED
      BY <2>1, <3>1 DEF Bodies, IsSequence
  <2>3. CASE ~S(p)!LostControl(s, m)
    BY <2>3, NoBodies
  <2> QED
    BY <2>2, <2>3
<1>6. Bodies(second, r.rcvRtWinEdge)
  <2>1. Bodies(R(p)!AckFlow(r, R(p)!BelowLeftEdge(r)), r.rcvRtWinEdge)
    BY <1>1, AckFlowGrants
  <2> QED
    BY <2>1, NoBodies
<1> HIDE DEF o, heard, first, second
<1>7. /\ IsSequence(msgs) /\ k \in Nat
      /\ \A l \in Elems(msgs) : Sendable(l, o.st.nextSeqNumToSend, h, c, c + k,
                                         r.rcvRtWinEdge)
  <2> DEFINE N == o.st.nextSeqNumToSend
             g == r.rcvRtWinEdge
             m1 == Ctrl(c, first)
             m2 == Data(o.lead)
             m3 == Ctrl(c + Len(first), second)
             m4 == Data(o.tx)
  <2>1. /\ IsSequence(m1) /\ Len(first) \in Nat
        /\ \A l \in Elems(m1) : Sendable(l, N, h, c, c + Len(first), g)
    BY <1>1, <1>5, CtrlIsSendable
  <2>2. /\ IsSequence(m3) /\ Len(second) \in Nat
        /\ \A l \in Elems(m3) : Sendable(l, N, h, c + Len(first),
                                         c + Len(first) + Len(second), g)
    <3>1. c + Len(first) \in Nat
      BY <1>1, <2>1
    <3> QED
      BY <1>6, <3>1, CtrlIsSendable
  <2>3. /\ IsSequence(m2) /\ \A l \in Elems(m2) : Sendable(l, N, h, c, c + k, g)
        /\ IsSequence(m4) /\ \A l \in Elems(m4) : Sendable(l, N, h, c, c + k, g)
    BY <1>2, DataIsSendable
  <2>4. ASSUME NEW l \in Elems(m1) \union Elems(m3)
        PROVE  Sendable(l, N, h, c, c + k, g)
    <3> DEFINE x == Len(first)
               y == Len(second)
    <3>1. /\ c \in Nat /\ x \in Nat /\ y \in Nat
          /\ \A a \in Elems(m1) : Sendable(a, N, h, c, c + x, g)
          /\ \A a \in Elems(m3) : Sendable(a, N, h, c + x, c + x + y, g)
      BY <1>1, <2>1, <2>2
    <3> HIDE DEF x, y, m1, m3, c, N, h, g
    <3>2. CASE l \in Elems(m1)
      <4>1. Sendable(l, N, h, c, c + x, g)
        BY <3>1, <3>2
      <4>2. c <= c /\ c + x <= c + (x + y) /\ c + x \in Nat /\ c + (x + y) \in Nat
        BY <3>1
      <4> QED
        BY <3>1, <4>1, <4>2, SendableMore DEF k, x, y
    <3>3. CASE l \in Elems(m3)
      <4>1. Sendable(l, N, h, c + x, c + x + y, g)
        BY <3>1, <3>3
      <4>2. c <= c + x /\ c + x + y <= c + (x + y) /\ c + x \in Nat /\ c + (x + y) \in Nat
            /\ c + x + y \in Nat
        BY <3>1
      <4> QED
        BY <3>1, <4>1, <4>2, SendableMore DEF k, x, y
    <3> QED
      BY <3>2, <3>3
  <2> HIDE DEF m1, m2, m3, m4
  <2>5. /\ IsSequence(m1 \o m2) /\ Elems(m1 \o m2) = Elems(m1) \union Elems(m2)
    BY <2>1, <2>3, SequenceJoin
  <2>6. /\ IsSequence(m1 \o m2 \o m3)
        /\ Elems(m1 \o m2 \o m3) = Elems(m1 \o m2) \union Elems(m3)
    BY <2>2, <2>5, SequenceJoin
  <2>7. /\ IsSequence(m1 \o m2 \o m3 \o m4)
        /\ Elems(m1 \o m2 \o m3 \o m4) = Elems(m1 \o m2 \o m3) \union Elems(m4)
    BY <2>3, <2>6, SequenceJoin
  <2>8. msgs = m1 \o m2 \o m3 \o m4
    BY DEF m1, m2, m3, m4
  <2>9. k \in Nat
    BY <2>1, <2>2
  <2>10. ASSUME NEW l \in Elems(msgs)
         PROVE  Sendable(l, N, h, c, c + k, g)
    <3>1. l \in Elems(m1) \union Elems(m3) \/ l \in Elems(m2) \/ l \in Elems(m4)
      BY <2>5, <2>6, <2>7, <2>8
    <3> HIDE DEF msgs, k, c, N, h, g
    <3> QED
      BY <2>3, <2>4, <3>1
  <2> QED
    BY <2>7, <2>8, <2>9, <2>10
<1> HIDE DEF msgs, k
<1>8. Acts(p, o.st, r, Elems(msgs), k) /\ Elems(net'[p]) \subseteq Elems(net[p])
  <2>1. SetAt(p, o.st, snd, snd') /\ SetAt(p, r, rcv, rcv')
    BY <1>4 DEF SetAt
  <2> QED
    BY <1>4, <1>7, <2>1, SendingActs
<1>9. CreditsFit => o.st.sndRtWinEdge >= s.sndRtWinEdge
  <2>1. CASE heard /\ GrantsCredit(m)
    BY <1>1, <1>2, <1>3, <2>1 DEF Pending, Granting
  <2>2. CASE ~(heard /\ GrantsCredit(m))
    BY <1>1, <1>2, <2>2
  <2> QED
    BY <2>1, <2>2
<1>10. ASSUME NEW l \in Elems(net'[p]), Pending(l, o.st)
       PROVE  o.st.sndRtWinEdge <= l.pdu.rwe
  <2>1. l \in Elems(net[p]) /\ Granting(l) /\ l.pdu.seq > o.st.lastControlSeqNumRcv
    BY <1>8, <1>10 DEF Pending
  <2>2. l.pdu.seq \in Nat
    BY <1>1, <2>1 DEF CtrlFits, Granting, Says
  <2>3. CASE heard /\ GrantsCredit(m)
    <3>1. Granting(msg) /\ l.pdu.seq > m.seq
      BY <1>2, <2>1, <2>3 DEF Granting
    <3>2. InStep(msg, l)
      BY <1>1, <2>1
    <3>3. m.seq \in Nat
      BY <1>1 DEF Says
    <3> QED
      BY <1>2, <2>1, <2>2, <2>3, <3>1, <3>2, <3>3 DEF InStep
  <2>4. CASE ~(heard /\ GrantsCredit(m))
    <3>1. o.st.sndRtWinEdge = s.sndRtWinEdge
      BY <1>2, <2>4
    <3>2. m.seq \in Nat
      BY <1>1 DEF Says
    <3>3. l.pdu.seq > s.lastControlSeqNumRcv
      BY <1>1, <1>2, <1>3, <2>1, <2>2, <3>2
    <3> QED
      BY <1>1, <2>1, <3>1, <3>3 DEF Pending
  <2> QED
    BY <2>3, <2>4
<1>11. CreditGrows(r, r)
  BY <1>1 DEF CreditGrows, Grants
<1>12. EdgesKept
  BY <1>8, <1>9, ActingKeepsEdges
<1>13. Agreed'
  BY <1>2, <1>7, <1>8, <1>10, <1>11, ActingAgreed
<1> QED
  BY <1>12, <1>13

LEMMA ArrivalHandled ==
    ASSUME Agreed, NEW p \in Peers, NEW msg \in Elems(net[p]),
           NEW channel, Remains(channel), Handle(p, msg, channel)
    PROVE  Agreed' /\ EdgesKept
<1>1. CASE msg.type = "data" /\ HandleData(p, msg.pdu, channel)
  BY <1>1, DataHandled
<1>2. CASE msg.type = "ctrl" /\ HandleControl(p, msg.pdu, channel)
  BY <1>2, ControlHandled
<1> QED
  BY <1>1, <1>2 DEF Handle

LEMMA AgreedInitially ==
    ASSUME Init
    PROVE  Agreed
<1>1. ASSUME NEW p \in Peers
      PROVE  /\ Sound(snd[p], rcv[Peer(p)].rcvRtWinEdge)
             /\ Grants(rcv[p])
             /\ nextCtrl[p] \in Nat \ {0}
             /\ net[p] = <<>>
  <2>1. Peer(p) \in Peers
    BY TwoPeers
  <2>2. /\ snd[p] = S(p)!InitSnd /\ rcv[p] = R(p)!InitRcv
        /\ rcv[Peer(p)] = R(Peer(p))!InitRcv
        /\ nextCtrl[p] = 1 /\ net[p] = <<>>
    BY <2>1 DEF Init
  <2>3. Grants(R(p)!InitRcv) /\ R(Peer(p))!InitRcv.rcvRtWinEdge = RcvCredit
    BY ConnectionAssumption DEF R!InitRcv, Grants, RcvFields
  <2>4. Sound(S(p)!InitSnd, RcvCredit)
    BY ConnectionAssumption DEF S!InitSnd, Sound, SndFields, CreditsFit
  <2> QED
    BY <2>2, <2>3, <2>4
<1>2. \A p \in Peers : IsSequence(net[p]) /\ Elems(net[p]) = {}
  BY <1>1, EmptySequence
<1>3. DOMAIN snd = Peers /\ DOMAIN rcv = Peers /\ DOMAIN nextCtrl = Peers
      /\ DOMAIN net = Peers
  BY DEF Init
<1> QED
  BY <1>1, <1>2, <1>3 DEF Agreed

LEMMA StepAgreed ==
    ASSUME Agreed, [Next]_vars
    PROVE  Agreed' /\ EdgesKept
<1>1. ASSUME NEW p \in Writers, WriteSDU(p)
      PROVE  Agreed' /\ EdgesKept
  BY <1>1, WriteHandled, ConnectionAssumption DEF Peers
<1>2. ASSUME NEW p \in Peers, Arrive(p)
      PROVE  Agreed' /\ EdgesKept
  <2>1. net[p] # <<>> /\ Handle(p, Head(net[p]), [net EXCEPT ![p] = Tail(@)])
    BY <1>2 DEF Arrive
  <2>2. Remains([net EXCEPT ![p] = Tail(@)]) /\ Head(net[p]) \in Elems(net[p])
    BY <2>1, ArrivalRemains
  <2> QED
    BY <2>1, <2>2, ArrivalHandled
<1>3. ASSUME NEW p \in Peers, NEW i \in 2..Len(net[p]), ArriveOvertaking(p, i)
      PROVE  Agreed' /\ EdgesKept
  <2>1. Handle(p, net[p][i], [net EXCEPT ![p] = RemoveAt(@, i)])
    BY <1>3 DEF ArriveOvertaking
  <2>2. i \in 1..Len(net[p])
    BY DEF Agreed, IsSequence
  <2>3. Remains([net EXCEPT ![p] = RemoveAt(@, i)]) /\ net[p][i] \in Elems(net[p])
    BY <2>2, OvertakingRemains
  <2> QED
    BY <2>1, <2>3, ArrivalHandled
<1>4. ASSUME NEW p \in Peers, NEW i \in 1..Len(net[p]), Lose(p, i)
      PROVE  Agreed' /\ EdgesKept
  BY <1>4, LossAgreed
<1>5. ASSUME NEW p \in Peers, NEW e \in snd[p].rxQ, RxTimerExpires(p, e)
      PROVE  Agreed' /\ EdgesKept
  BY <1>5, RxTimerHandled
<1>6. ASSUME NEW p \in Peers, NEW n \in SeqNum, ATimerExpires(p, n)
      PROVE  Agreed' /\ EdgesKept
  BY <1>6, ATimerHandled
<1>7. ASSUME UNCHANGED vars
      PROVE  Agreed' /\ EdgesKept
  <2>1. UNCHANGED <<snd, rcv, nextCtrl, net>>
    BY <1>7 DEF vars
  <2>2. A \in Peers
    BY DEF Peers
  <2>3. Remains(net')
    BY <2>1, NetRemains DEF Remains
  <2>4. \A p \in Peers : snd[p].sndRtWinEdge \in Nat
    BY DEF Agreed, Sound
  <2> QED
    BY <2>1, <2>4 DEF Agreed, EdgesKept, EdgeKept
<1> QED
  BY <1>1, <1>2, <1>3, <1>4, <1>5, <1>6, <1>7 DEF Next

(* What both ends and the path between them agree on, in every state.      *)
THEOREM EndsKeepAgreeing == Spec => []Agreed
<1>1. Init => Agreed
  BY AgreedInitially
<1>2. Agreed /\ [Next]_vars => Agreed'
  BY StepAgreed
<1> QED
  BY <1>1, <1>2, PTL DEF Spec

LEMMA AgreedGrants ==
    ASSUME Agreed
    PROVE  GrantsRespected
<1>1. CreditWasGranted
  BY DEF Agreed, Sound, CreditsFit, CreditWasGranted
<1>2. ASSUME WindowFcOn, CreditsFit, NEW p \in Peers, NEW d \in DataPDUs(p), ~d.empty
      PROVE  d.seq <= rcv[p].rcvRtWinEdge
  <2>1. PICK m \in Elems(net[p]) : m.type = "data" /\ d = m.pdu
    BY <1>2 DEF DataPDUs, Messages, Elems
  <2>2. DataFits(m, snd[Peer(p)].nextSeqNumToSend, rcv[p].rcvRtWinEdge)
    BY <2>1 DEF Agreed
  <2> QED
    BY <1>2, <2>1, <2>2 DEF DataFits, Granted
<1> QED
  BY <1>1, <1>2 DEF GrantsRespected, SentWithinGrant, CreditsFit

(* Whatever is lost, overtaken, repeated or answered late, a sender never  *)
(* believes in more credit than its peer has granted, and no data PDU with *)
(* user data is under way outside the window of its receiver: the edges    *)
(* that sendAckFlowPDU and sendControlAckPDU put into control PDUs are the *)
(* ones of DTCPState, and only those PDUs move the sender's edge.          *)
THEOREM CreditAlwaysGranted == Spec => []GrantsRespected
<1>1. Agreed => GrantsRespected
  BY AgreedGrants
<1> QED
  BY <1>1, EndsKeepAgreeing, PTL

(* A control PDU that arrives late takes no credit back: commonRcvControl  *)
(* drops it by its number, and grants grow with their numbers.             *)
THEOREM CreditIsNeverTakenBack == Spec => WindowNeverShrinks
<1>1. Agreed /\ [Next]_vars =>
          [SndCredit <= RcvCredit =>
             \A p \in Peers : snd'[p].sndRtWinEdge >= snd[p].sndRtWinEdge]_vars
  <2>1. ASSUME Agreed, [Next]_vars
        PROVE  EdgesKept
    BY <2>1, StepAgreed
  <2> QED
    BY <2>1 DEF EdgesKept, EdgeKept, CreditsFit
<1> QED
  BY <1>1, EndsKeepAgreeing, PTL DEF Spec, WindowNeverShrinks

-----------------------------------------------------------------------------
(* Each end's receiver is the one of DTPReceiver.                          *)

RA == INSTANCE DTPReceiver_proofs WITH
    rcv <- rcv[A], delivered <- run[A].delivered,
    newRun <- run[A].newRun, repeated <- run[A].repeated
RB == INSTANCE DTPReceiver_proofs WITH
    rcv <- rcv[B], delivered <- run[B].delivered,
    newRun <- run[B].newRun, repeated <- run[B].repeated

(* An operator of DTPReceiver has three names here: as a part of the       *)
(* handlers (R), of the abstract specification (ReceiverA, ReceiverB), and *)
(* of its theorems (RA, RB). All three compute the same.                   *)
LEMMA OneReceiverA ==
    /\ \A r, d : R(A)!Receive(r, d) = ReceiverA!Receive(r, d)
    /\ \A r, n : R(A)!ATimerFired(r, n) = ReceiverA!ATimerFired(r, n)
    /\ R(A)!InitRcv = ReceiverA!InitRcv
    /\ ReceiverA!Spec <=> RA!Spec
    /\ ReceiverA!HeadNotStranded <=> RA!HeadNotStranded
<1>1. /\ R(A)!DtcpPresent <=> ReceiverA!DtcpPresent
      /\ RA!DtcpPresent <=> ReceiverA!DtcpPresent
      /\ \A n : /\ R(A)!UInt(n) = ReceiverA!UInt(n)
                /\ RA!UInt(n) = ReceiverA!UInt(n)
      /\ \A Q : /\ R(A)!SeqNums(Q) = ReceiverA!SeqNums(Q)
                /\ RA!SeqNums(Q) = ReceiverA!SeqNums(Q)
      /\ \A d : /\ R(A)!SDUSeqNumOf(d) = ReceiverA!SDUSeqNumOf(d)
                /\ RA!SDUSeqNumOf(d) = ReceiverA!SDUSeqNumOf(d)
      /\ \A T : /\ R(A)!Min(T) = ReceiverA!Min(T)
                /\ RA!Min(T) = ReceiverA!Min(T)
  BY DEF R!DtcpPresent, ReceiverA!DtcpPresent, RA!DtcpPresent, R!UInt,
     ReceiverA!UInt, RA!UInt, R!SeqNums, ReceiverA!SeqNums, RA!SeqNums,
     R!SDUSeqNumOf, ReceiverA!SDUSeqNumOf, RA!SDUSeqNumOf, R!SduSeqNum,
     ReceiverA!SduSeqNum, RA!SduSeqNum, R!Min, ReceiverA!Min, RA!Min
<1>2. \A Q, n : /\ R(A)!NextMissing(Q, n) = ReceiverA!NextMissing(Q, n)
                /\ RA!NextMissing(Q, n) = ReceiverA!NextMissing(Q, n)
  BY <1>1 DEF R!NextMissing, ReceiverA!NextMissing, RA!NextMissing
<1>3. \A r : /\ R(A)!LeftEdgeAfter(r) = ReceiverA!LeftEdgeAfter(r)
             /\ RA!LeftEdgeAfter(r) = ReceiverA!LeftEdgeAfter(r)
  BY <1>1, <1>2 DEF R!LeftEdgeAfter, ReceiverA!LeftEdgeAfter, RA!LeftEdgeAfter
<1>4. \A r : /\ R(A)!UpdateRcvLWE(r) = ReceiverA!UpdateRcvLWE(r)
             /\ RA!UpdateRcvLWE(r) = ReceiverA!UpdateRcvLWE(r)
  BY <1>3 DEF R!UpdateRcvLWE, ReceiverA!UpdateRcvLWE, RA!UpdateRcvLWE
<1>5. /\ \A r, n : /\ R(A)!StartATimer(r, n) = ReceiverA!StartATimer(r, n)
                   /\ RA!StartATimer(r, n) = ReceiverA!StartATimer(r, n)
                   /\ R(A)!SetMaxSeqNumRcvd(r, n) = ReceiverA!SetMaxSeqNumRcvd(r, n)
                   /\ RA!SetMaxSeqNumRcvd(r, n) = ReceiverA!SetMaxSeqNumRcvd(r, n)
      /\ \A r, d : /\ R(A)!AddToReassemblyQ(r, d) = ReceiverA!AddToReassemblyQ(r, d)
                   /\ RA!AddToReassemblyQ(r, d) = ReceiverA!AddToReassemblyQ(r, d)
      /\ \A r : /\ R(A)!Deliverable(r) = ReceiverA!Deliverable(r)
                /\ RA!Deliverable(r) = ReceiverA!Deliverable(r)
      /\ \A r, up, out : /\ R(A)!Outcome(r, up, out) = ReceiverA!Outcome(r, up, out)
                         /\ RA!Outcome(r, up, out) = ReceiverA!Outcome(r, up, out)
  BY <1>1 DEF R!StartATimer, ReceiverA!StartATimer, RA!StartATimer,
     R!SetMaxSeqNumRcvd, ReceiverA!SetMaxSeqNumRcvd, RA!SetMaxSeqNumRcvd,
     R!AddToReassemblyQ, ReceiverA!AddToReassemblyQ, RA!AddToReassemblyQ,
     R!Deliverable, ReceiverA!Deliverable, RA!Deliverable, R!Outcome,
     ReceiverA!Outcome, RA!Outcome
<1>6. ASSUME NEW r
      PROVE  /\ R(A)!Delimit(r) = ReceiverA!Delimit(r)
             /\ RA!Delimit(r) = ReceiverA!Delimit(r)
  <2> DEFINE D == ReceiverA!Deliverable(r)
  <2>1. R(A)!Deliverable(r) = D /\ RA!Deliverable(r) = D
    BY <1>5
  <2> HIDE DEF D
  <2> QED
    BY <2>1 DEF R!Delimit, ReceiverA!Delimit, RA!Delimit, R!SduSeqNum,
       ReceiverA!SduSeqNum, RA!SduSeqNum, D
<1>7. /\ \A r : /\ R(A)!Credited(r) = ReceiverA!Credited(r)
                /\ RA!Credited(r) = ReceiverA!Credited(r)
                /\ R(A)!RcvrAckNum(r) = ReceiverA!RcvrAckNum(r)
                /\ RA!RcvrAckNum(r) = ReceiverA!RcvrAckNum(r)
                /\ R(A)!BelowLeftEdge(r) = ReceiverA!BelowLeftEdge(r)
                /\ RA!BelowLeftEdge(r) = ReceiverA!BelowLeftEdge(r)
      /\ \A r, n : /\ R(A)!AckFlow(r, n) = ReceiverA!AckFlow(r, n)
                   /\ RA!AckFlow(r, n) = ReceiverA!AckFlow(r, n)
  BY <1>1, <1>4 DEF R!Credited, ReceiverA!Credited, RA!Credited, R!RcvrAckNum,
     ReceiverA!RcvrAckNum, RA!RcvrAckNum, R!BelowLeftEdge,
     ReceiverA!BelowLeftEdge, RA!BelowLeftEdge, R!AckFlow, ReceiverA!AckFlow,
     RA!AckFlow
<1>8. \A r : /\ R(A)!SvUpdate(r) = ReceiverA!SvUpdate(r)
             /\ RA!SvUpdate(r) = ReceiverA!SvUpdate(r)
  BY <1>4, <1>5, <1>7 DEF R!SvUpdate, ReceiverA!SvUpdate, RA!SvUpdate
<1>9. \A r : /\ R(A)!SvUpdateOut(r) = ReceiverA!SvUpdateOut(r)
             /\ RA!SvUpdateOut(r) = ReceiverA!SvUpdateOut(r)
  BY <1>7, <1>8 DEF R!SvUpdateOut, ReceiverA!SvUpdateOut, RA!SvUpdateOut
<1>10. \A r, out : /\ R(A)!Handed(r, out) = ReceiverA!Handed(r, out)
                   /\ RA!Handed(r, out) = ReceiverA!Handed(r, out)
  BY <1>5, <1>6 DEF R!Handed, ReceiverA!Handed, RA!Handed
<1>11. ASSUME NEW r, NEW d
       PROVE  /\ R(A)!StartOfRun(r, d) = ReceiverA!StartOfRun(r, d)
              /\ RA!StartOfRun(r, d) = ReceiverA!StartOfRun(r, d)
  <2> DEFINE before == ReceiverA!Delimit(r)
             empty == [before EXCEPT !.reassemblyPDUQ = {}]
             flushed == [ReceiverA!SetMaxSeqNumRcvd(empty, d.seq)
                           EXCEPT !.rcvLeftWinEdge = d.seq + 1]
             added == ReceiverA!AddToReassemblyQ(flushed, d)
             updated == IF ReceiverA!DtcpPresent THEN ReceiverA!SvUpdate(added) ELSE added
             up == ReceiverA!Deliverable(r) \union ReceiverA!Deliverable(updated)
             out == IF ReceiverA!DtcpPresent THEN ReceiverA!SvUpdateOut(added) ELSE <<>>
             end == ReceiverA!Outcome(ReceiverA!Delimit(updated), up, out)
  <2>1. ReceiverA!StartOfRun(r, d) = end
    BY DEF ReceiverA!StartOfRun
  <2>2. R(A)!AddToReassemblyQ([R(A)!SetMaxSeqNumRcvd([R(A)!Delimit(r)
             EXCEPT !.reassemblyPDUQ = {}], d.seq) EXCEPT !.rcvLeftWinEdge = d.seq + 1], d)
          = added
    BY <1>5, <1>6
  <2>3. R(A)!StartOfRun(r, d) = end
    <3> HIDE DEF added
    <3>1. (IF R(A)!DtcpPresent THEN R(A)!SvUpdate(added) ELSE added) = updated
          /\ (IF R(A)!DtcpPresent THEN R(A)!SvUpdateOut(added) ELSE <<>>) = out
      BY <1>1, <1>8, <1>9
    <3> HIDE DEF updated, out
    <3>2. R(A)!StartOfRun(r, d) =
             R(A)!Outcome(R(A)!Delimit(updated),
               R(A)!Deliverable(r) \union R(A)!Deliverable(updated), out)
      BY <2>2, <3>1 DEF R!StartOfRun
    <3> QED
      BY <3>2, <1>5, <1>6
  <2>4. RA!AddToReassemblyQ([RA!SetMaxSeqNumRcvd([RA!Delimit(r)
             EXCEPT !.reassemblyPDUQ = {}], d.seq) EXCEPT !.rcvLeftWinEdge = d.seq + 1], d)
          = added
    BY <1>5, <1>6
  <2>5. RA!StartOfRun(r, d) = end
    <3> HIDE DEF added
    <3>1. (IF RA!DtcpPresent THEN RA!SvUpdate(added) ELSE added) = updated
          /\ (IF RA!DtcpPresent THEN RA!SvUpdateOut(added) ELSE <<>>) = out
      BY <1>1, <1>8, <1>9
    <3> HIDE DEF updated, out
    <3>2. RA!StartOfRun(r, d) =
             RA!Outcome(RA!Delimit(updated),
               RA!Deliverable(r) \union RA!Deliverable(updated), out)
      BY <2>4, <3>1 DEF RA!StartOfRun
    <3> QED
      BY <3>2, <1>5, <1>6
  <2> QED
    BY <2>1, <2>3, <2>5
<1>12. \A r : /\ R(A)!DropDuplicate(r) = ReceiverA!DropDuplicate(r)
              /\ RA!DropDuplicate(r) = ReceiverA!DropDuplicate(r)
  BY <1>5, <1>7 DEF R!DropDuplicate, ReceiverA!DropDuplicate, RA!DropDuplicate
<1>13. \A r, d : /\ R(A)!IntoGap(r, d) = ReceiverA!IntoGap(r, d)
                 /\ RA!IntoGap(r, d) = ReceiverA!IntoGap(r, d)
  BY <1>1, <1>5, <1>8, <1>9, <1>10 DEF R!IntoGap, ReceiverA!IntoGap,
     RA!IntoGap
<1>14. \A r, d : /\ R(A)!NextInOrder(r, d) = ReceiverA!NextInOrder(r, d)
                 /\ RA!NextInOrder(r, d) = ReceiverA!NextInOrder(r, d)
  BY <1>1, <1>5, <1>8, <1>9, <1>10 DEF R!NextInOrder, ReceiverA!NextInOrder,
     RA!NextInOrder
<1>15. \A r, d : /\ R(A)!BeyondGap(r, d) = ReceiverA!BeyondGap(r, d)
                 /\ RA!BeyondGap(r, d) = ReceiverA!BeyondGap(r, d)
  BY <1>1, <1>5, <1>8, <1>9, <1>10 DEF R!BeyondGap, ReceiverA!BeyondGap,
     RA!BeyondGap
<1>16. \A r, d : /\ R(A)!BehindLeftEdge(r, d) <=> ReceiverA!BehindLeftEdge(r, d)
                 /\ RA!BehindLeftEdge(r, d) <=> ReceiverA!BehindLeftEdge(r, d)
                 /\ R(A)!AmongGaps(r, d) <=> ReceiverA!AmongGaps(r, d)
                 /\ RA!AmongGaps(r, d) <=> ReceiverA!AmongGaps(r, d)
                 /\ R(A)!Queued(r, d) <=> ReceiverA!Queued(r, d)
                 /\ RA!Queued(r, d) <=> ReceiverA!Queued(r, d)
                 /\ R(A)!InOrder(r, d) <=> ReceiverA!InOrder(r, d)
                 /\ RA!InOrder(r, d) <=> ReceiverA!InOrder(r, d)
                 /\ R(A)!OutOfOrder(r, d) <=> ReceiverA!OutOfOrder(r, d)
                 /\ RA!OutOfOrder(r, d) <=> ReceiverA!OutOfOrder(r, d)
  BY <1>1 DEF R!BehindLeftEdge, ReceiverA!BehindLeftEdge, RA!BehindLeftEdge,
     R!AmongGaps, ReceiverA!AmongGaps, RA!AmongGaps, R!Queued,
     ReceiverA!Queued, RA!Queued, R!InOrder, ReceiverA!InOrder, RA!InOrder,
     R!OutOfOrder, ReceiverA!OutOfOrder, RA!OutOfOrder
<1>17. \A r, d : /\ R(A)!Receive(r, d) = ReceiverA!Receive(r, d)
                 /\ RA!Receive(r, d) = ReceiverA!Receive(r, d)
  BY <1>5, <1>11, <1>12, <1>13, <1>14, <1>15, <1>16 DEF R!Receive,
     ReceiverA!Receive, RA!Receive
<1>18. \A r, n : /\ R(A)!ATimerFired(r, n) = ReceiverA!ATimerFired(r, n)
                 /\ RA!ATimerFired(r, n) = ReceiverA!ATimerFired(r, n)
  BY <1>1, <1>4, <1>10 DEF R!ATimerFired, ReceiverA!ATimerFired,
     RA!ATimerFired
<1>19. /\ R(A)!InitRcv = ReceiverA!InitRcv
       /\ RA!InitRcv = ReceiverA!InitRcv
       /\ R(A)!SeqNum = ReceiverA!SeqNum
       /\ RA!SeqNum = ReceiverA!SeqNum
       /\ R(A)!Sendable = ReceiverA!Sendable
       /\ RA!Sendable = ReceiverA!Sendable
  BY DEF R!InitRcv, ReceiverA!InitRcv, RA!InitRcv, R!SeqNum, ReceiverA!SeqNum,
     RA!SeqNum, R!Sendable, ReceiverA!Sendable, RA!Sendable, R!DataPDU,
     ReceiverA!DataPDU, RA!DataPDU
<1>20. /\ ReceiverA!Init <=> RA!Init
       /\ ReceiverA!Next <=> RA!Next
       /\ ReceiverA!HeadNotStranded <=> RA!HeadNotStranded
  BY <1>1, <1>17, <1>18, <1>19 DEF ReceiverA!Init, RA!Init, ReceiverA!Next,
     RA!Next, ReceiverA!ReceiveData, RA!ReceiveData, ReceiverA!ATimerExpires,
     RA!ATimerExpires, ReceiverA!Becomes, RA!Becomes,
     ReceiverA!HeadNotStranded, RA!HeadNotStranded
<1>21. ReceiverA!Spec <=> RA!Spec
  BY <1>20, PTL DEF ReceiverA!Spec, RA!Spec, ReceiverA!vars, RA!vars
<1> QED
  BY <1>1, <1>17, <1>18, <1>19, <1>20, <1>21

LEMMA OneReceiverB ==
    /\ \A r, d : R(B)!Receive(r, d) = ReceiverB!Receive(r, d)
    /\ \A r, n : R(B)!ATimerFired(r, n) = ReceiverB!ATimerFired(r, n)
    /\ R(B)!InitRcv = ReceiverB!InitRcv
    /\ ReceiverB!Spec <=> RB!Spec
    /\ ReceiverB!HeadNotStranded <=> RB!HeadNotStranded
<1>1. /\ R(B)!DtcpPresent <=> ReceiverB!DtcpPresent
      /\ RB!DtcpPresent <=> ReceiverB!DtcpPresent
      /\ \A n : /\ R(B)!UInt(n) = ReceiverB!UInt(n)
                /\ RB!UInt(n) = ReceiverB!UInt(n)
      /\ \A Q : /\ R(B)!SeqNums(Q) = ReceiverB!SeqNums(Q)
                /\ RB!SeqNums(Q) = ReceiverB!SeqNums(Q)
      /\ \A d : /\ R(B)!SDUSeqNumOf(d) = ReceiverB!SDUSeqNumOf(d)
                /\ RB!SDUSeqNumOf(d) = ReceiverB!SDUSeqNumOf(d)
      /\ \A T : /\ R(B)!Min(T) = ReceiverB!Min(T)
                /\ RB!Min(T) = ReceiverB!Min(T)
  BY DEF R!DtcpPresent, ReceiverB!DtcpPresent, RB!DtcpPresent, R!UInt,
     ReceiverB!UInt, RB!UInt, R!SeqNums, ReceiverB!SeqNums, RB!SeqNums,
     R!SDUSeqNumOf, ReceiverB!SDUSeqNumOf, RB!SDUSeqNumOf, R!SduSeqNum,
     ReceiverB!SduSeqNum, RB!SduSeqNum, R!Min, ReceiverB!Min, RB!Min
<1>2. \A Q, n : /\ R(B)!NextMissing(Q, n) = ReceiverB!NextMissing(Q, n)
                /\ RB!NextMissing(Q, n) = ReceiverB!NextMissing(Q, n)
  BY <1>1 DEF R!NextMissing, ReceiverB!NextMissing, RB!NextMissing
<1>3. \A r : /\ R(B)!LeftEdgeAfter(r) = ReceiverB!LeftEdgeAfter(r)
             /\ RB!LeftEdgeAfter(r) = ReceiverB!LeftEdgeAfter(r)
  BY <1>1, <1>2 DEF R!LeftEdgeAfter, ReceiverB!LeftEdgeAfter, RB!LeftEdgeAfter
<1>4. \A r : /\ R(B)!UpdateRcvLWE(r) = ReceiverB!UpdateRcvLWE(r)
             /\ RB!UpdateRcvLWE(r) = ReceiverB!UpdateRcvLWE(r)
  BY <1>3 DEF R!UpdateRcvLWE, ReceiverB!UpdateRcvLWE, RB!UpdateRcvLWE
<1>5. /\ \A r, n : /\ R(B)!StartATimer(r, n) = ReceiverB!StartATimer(r, n)
                   /\ RB!StartATimer(r, n) = ReceiverB!StartATimer(r, n)
                   /\ R(B)!SetMaxSeqNumRcvd(r, n) = ReceiverB!SetMaxSeqNumRcvd(r, n)
                   /\ RB!SetMaxSeqNumRcvd(r, n) = ReceiverB!SetMaxSeqNumRcvd(r, n)
      /\ \A r, d : /\ R(B)!AddToReassemblyQ(r, d) = ReceiverB!AddToReassemblyQ(r, d)
                   /\ RB!AddToReassemblyQ(r, d) = ReceiverB!AddToReassemblyQ(r, d)
      /\ \A r : /\ R(B)!Deliverable(r) = ReceiverB!Deliverable(r)
                /\ RB!Deliverable(r) = ReceiverB!Deliverable(r)
      /\ \A r, up, out : /\ R(B)!Outcome(r, up, out) = ReceiverB!Outcome(r, up, out)
                         /\ RB!Outcome(r, up, out) = ReceiverB!Outcome(r, up, out)
  BY <1>1 DEF R!StartATimer, ReceiverB!StartATimer, RB!StartATimer,
     R!SetMaxSeqNumRcvd, ReceiverB!SetMaxSeqNumRcvd, RB!SetMaxSeqNumRcvd,
     R!AddToReassemblyQ, ReceiverB!AddToReassemblyQ, RB!AddToReassemblyQ,
     R!Deliverable, ReceiverB!Deliverable, RB!Deliverable, R!Outcome,
     ReceiverB!Outcome, RB!Outcome
<1>6. ASSUME NEW r
      PROVE  /\ R(B)!Delimit(r) = ReceiverB!Delimit(r)
             /\ RB!Delimit(r) = ReceiverB!Delimit(r)
  <2> DEFINE D == ReceiverB!Deliverable(r)
  <2>1. R(B)!Deliverable(r) = D /\ RB!Deliverable(r) = D
    BY <1>5
  <2> HIDE DEF D
  <2> QED
    BY <2>1 DEF R!Delimit, ReceiverB!Delimit, RB!Delimit, R!SduSeqNum,
       ReceiverB!SduSeqNum, RB!SduSeqNum, D
<1>7. /\ \A r : /\ R(B)!Credited(r) = ReceiverB!Credited(r)
                /\ RB!Credited(r) = ReceiverB!Credited(r)
                /\ R(B)!RcvrAckNum(r) = ReceiverB!RcvrAckNum(r)
                /\ RB!RcvrAckNum(r) = ReceiverB!RcvrAckNum(r)
                /\ R(B)!BelowLeftEdge(r) = ReceiverB!BelowLeftEdge(r)
                /\ RB!BelowLeftEdge(r) = ReceiverB!BelowLeftEdge(r)
      /\ \A r, n : /\ R(B)!AckFlow(r, n) = ReceiverB!AckFlow(r, n)
                   /\ RB!AckFlow(r, n) = ReceiverB!AckFlow(r, n)
  BY <1>1, <1>4 DEF R!Credited, ReceiverB!Credited, RB!Credited, R!RcvrAckNum,
     ReceiverB!RcvrAckNum, RB!RcvrAckNum, R!BelowLeftEdge,
     ReceiverB!BelowLeftEdge, RB!BelowLeftEdge, R!AckFlow, ReceiverB!AckFlow,
     RB!AckFlow
<1>8. \A r : /\ R(B)!SvUpdate(r) = ReceiverB!SvUpdate(r)
             /\ RB!SvUpdate(r) = ReceiverB!SvUpdate(r)
  BY <1>4, <1>5, <1>7 DEF R!SvUpdate, ReceiverB!SvUpdate, RB!SvUpdate
<1>9. \A r : /\ R(B)!SvUpdateOut(r) = ReceiverB!SvUpdateOut(r)
             /\ RB!SvUpdateOut(r) = ReceiverB!SvUpdateOut(r)
  BY <1>7, <1>8 DEF R!SvUpdateOut, ReceiverB!SvUpdateOut, RB!SvUpdateOut
<1>10. \A r, out : /\ R(B)!Handed(r, out) = ReceiverB!Handed(r, out)
                   /\ RB!Handed(r, out) = ReceiverB!Handed(r, out)
  BY <1>5, <1>6 DEF R!Handed, ReceiverB!Handed, RB!Handed
<1>11. ASSUME NEW r, NEW d
       PROVE  /\ R(B)!StartOfRun(r, d) = ReceiverB!StartOfRun(r, d)
              /\ RB!StartOfRun(r, d) = ReceiverB!StartOfRun(r, d)
  <2> DEFINE before == ReceiverB!Delimit(r)
             empty == [before EXCEPT !.reassemblyPDUQ = {}]
             flushed == [ReceiverB!SetMaxSeqNumRcvd(empty, d.seq)
                           EXCEPT !.rcvLeftWinEdge = d.seq + 1]
             added == ReceiverB!AddToReassemblyQ(flushed, d)
             updated == IF ReceiverB!DtcpPresent THEN ReceiverB!SvUpdate(added) ELSE added
             up == ReceiverB!Deliverable(r) \union ReceiverB!Deliverable(updated)
             out == IF ReceiverB!DtcpPresent THEN ReceiverB!SvUpdateOut(added) ELSE <<>>
             end == ReceiverB!Outcome(ReceiverB!Delimit(updated), up, out)
  <2>1. ReceiverB!StartOfRun(r, d) = end
    BY DEF ReceiverB!StartOfRun
  <2>2. R(B)!AddToReassemblyQ([R(B)!SetMaxSeqNumRcvd([R(B)!Delimit(r)
             EXCEPT !.reassemblyPDUQ = {}], d.seq) EXCEPT !.rcvLeftWinEdge = d.seq + 1], d)
          = added
    BY <1>5, <1>6
  <2>3. R(B)!StartOfRun(r, d) = end
    <3> HIDE DEF added
    <3>1. (IF R(B)!DtcpPresent THEN R(B)!SvUpdate(added) ELSE added) = updated
          /\ (IF R(B)!DtcpPresent THEN R(B)!SvUpdateOut(added) ELSE <<>>) = out
      BY <1>1, <1>8, <1>9
    <3> HIDE DEF updated, out
    <3>2. R(B)!StartOfRun(r, d) =
             R(B)!Outcome(R(B)!Delimit(updated),
               R(B)!Deliverable(r) \union R(B)!Deliverable(updated), out)
      BY <2>2, <3>1 DEF R!StartOfRun
    <3> QED
      BY <3>2, <1>5, <1>6
  <2>4. RB!AddToReassemblyQ([RB!SetMaxSeqNumRcvd([RB!Delimit(r)
             EXCEPT !.reassemblyPDUQ = {}], d.seq) EXCEPT !.rcvLeftWinEdge = d.seq + 1], d)
          = added
    BY <1>5, <1>6
  <2>5. RB!StartOfRun(r, d) = end
    <3> HIDE DEF added
    <3>1. (IF RB!DtcpPresent THEN RB!SvUpdate(added) ELSE added) = updated
          /\ (IF RB!DtcpPresent THEN RB!SvUpdateOut(added) ELSE <<>>) = out
      BY <1>1, <1>8, <1>9
    <3> HIDE DEF updated, out
    <3>2. RB!StartOfRun(r, d) =
             RB!Outcome(RB!Delimit(updated),
               RB!Deliverable(r) \union RB!Deliverable(updated), out)
      BY <2>4, <3>1 DEF RB!StartOfRun
    <3> QED
      BY <3>2, <1>5, <1>6
  <2> QED
    BY <2>1, <2>3, <2>5
<1>12. \A r : /\ R(B)!DropDuplicate(r) = ReceiverB!DropDuplicate(r)
              /\ RB!DropDuplicate(r) = ReceiverB!DropDuplicate(r)
  BY <1>5, <1>7 DEF R!DropDuplicate, ReceiverB!DropDuplicate, RB!DropDuplicate
<1>13. \A r, d : /\ R(B)!IntoGap(r, d) = ReceiverB!IntoGap(r, d)
                 /\ RB!IntoGap(r, d) = ReceiverB!IntoGap(r, d)
  BY <1>1, <1>5, <1>8, <1>9, <1>10 DEF R!IntoGap, ReceiverB!IntoGap,
     RB!IntoGap
<1>14. \A r, d : /\ R(B)!NextInOrder(r, d) = ReceiverB!NextInOrder(r, d)
                 /\ RB!NextInOrder(r, d) = ReceiverB!NextInOrder(r, d)
  BY <1>1, <1>5, <1>8, <1>9, <1>10 DEF R!NextInOrder, ReceiverB!NextInOrder,
     RB!NextInOrder
<1>15. \A r, d : /\ R(B)!BeyondGap(r, d) = ReceiverB!BeyondGap(r, d)
                 /\ RB!BeyondGap(r, d) = ReceiverB!BeyondGap(r, d)
  BY <1>1, <1>5, <1>8, <1>9, <1>10 DEF R!BeyondGap, ReceiverB!BeyondGap,
     RB!BeyondGap
<1>16. \A r, d : /\ R(B)!BehindLeftEdge(r, d) <=> ReceiverB!BehindLeftEdge(r, d)
                 /\ RB!BehindLeftEdge(r, d) <=> ReceiverB!BehindLeftEdge(r, d)
                 /\ R(B)!AmongGaps(r, d) <=> ReceiverB!AmongGaps(r, d)
                 /\ RB!AmongGaps(r, d) <=> ReceiverB!AmongGaps(r, d)
                 /\ R(B)!Queued(r, d) <=> ReceiverB!Queued(r, d)
                 /\ RB!Queued(r, d) <=> ReceiverB!Queued(r, d)
                 /\ R(B)!InOrder(r, d) <=> ReceiverB!InOrder(r, d)
                 /\ RB!InOrder(r, d) <=> ReceiverB!InOrder(r, d)
                 /\ R(B)!OutOfOrder(r, d) <=> ReceiverB!OutOfOrder(r, d)
                 /\ RB!OutOfOrder(r, d) <=> ReceiverB!OutOfOrder(r, d)
  BY <1>1 DEF R!BehindLeftEdge, ReceiverB!BehindLeftEdge, RB!BehindLeftEdge,
     R!AmongGaps, ReceiverB!AmongGaps, RB!AmongGaps, R!Queued,
     ReceiverB!Queued, RB!Queued, R!InOrder, ReceiverB!InOrder, RB!InOrder,
     R!OutOfOrder, ReceiverB!OutOfOrder, RB!OutOfOrder
<1>17. \A r, d : /\ R(B)!Receive(r, d) = ReceiverB!Receive(r, d)
                 /\ RB!Receive(r, d) = ReceiverB!Receive(r, d)
  BY <1>5, <1>11, <1>12, <1>13, <1>14, <1>15, <1>16 DEF R!Receive,
     ReceiverB!Receive, RB!Receive
<1>18. \A r, n : /\ R(B)!ATimerFired(r, n) = ReceiverB!ATimerFired(r, n)
                 /\ RB!ATimerFired(r, n) = ReceiverB!ATimerFired(r, n)
  BY <1>1, <1>4, <1>10 DEF R!ATimerFired, ReceiverB!ATimerFired,
     RB!ATimerFired
<1>19. /\ R(B)!InitRcv = ReceiverB!InitRcv
       /\ RB!InitRcv = ReceiverB!InitRcv
       /\ R(B)!SeqNum = ReceiverB!SeqNum
       /\ RB!SeqNum = ReceiverB!SeqNum
       /\ R(B)!Sendable = ReceiverB!Sendable
       /\ RB!Sendable = ReceiverB!Sendable
  BY DEF R!InitRcv, ReceiverB!InitRcv, RB!InitRcv, R!SeqNum, ReceiverB!SeqNum,
     RB!SeqNum, R!Sendable, ReceiverB!Sendable, RB!Sendable, R!DataPDU,
     ReceiverB!DataPDU, RB!DataPDU
<1>20. /\ ReceiverB!Init <=> RB!Init
       /\ ReceiverB!Next <=> RB!Next
       /\ ReceiverB!HeadNotStranded <=> RB!HeadNotStranded
  BY <1>1, <1>17, <1>18, <1>19 DEF ReceiverB!Init, RB!Init, ReceiverB!Next,
     RB!Next, ReceiverB!ReceiveData, RB!ReceiveData, ReceiverB!ATimerExpires,
     RB!ATimerExpires, ReceiverB!Becomes, RB!Becomes,
     ReceiverB!HeadNotStranded, RB!HeadNotStranded
<1>21. ReceiverB!Spec <=> RB!Spec
  BY <1>20, PTL DEF ReceiverB!Spec, RB!Spec, ReceiverB!vars, RB!vars
<1> QED
  BY <1>1, <1>17, <1>18, <1>19, <1>20, <1>21

(* The bounds of DTPReceiver are kept, and numbers within the model's. *)
InBounds ==
    \A p \in Peers :
        /\ snd[p].nextSeqNumToSend <= MaxSeq + 1
        /\ rcv[p].rcvRtWinEdge < MaxRWE
        /\ \A n \in SeqNum : rcv[p].aTimers[n] < MaxATimers

(* The connection as long as nothing reaches a bound. *)
BoundedSpec == Init /\ [][Next /\ InBounds]_vars

RunsKept == DOMAIN run = Peers

(* What a step means to the receiver of p. *)
Took(p, o, drf) ==
    /\ rcv'[p] = o.st
    /\ run'[p] = [delivered |-> (IF drf THEN {} ELSE run[p].delivered) \union SeqNums(o.up),
                  newRun |-> drf,
                  repeated |->
                     \/ run[p].repeated
                     \/ SeqNums(o.up) \intersect (IF drf THEN {} ELSE run[p].delivered) # {}]

TookData(p) ==
    \E d \in DataPDU :
        /\ d.drf => d.seq = 1
        /\ ~rcv[p].thrown
        /\ Took(p, R(p)!Receive(rcv[p], d), d.drf)

TookTimer(p) ==
    \E n \in SeqNum :
        /\ ~rcv[p].thrown
        /\ rcv[p].aTimers[n] > 0
        /\ Took(p, R(p)!ATimerFired(rcv[p], n), FALSE)

TookNothing(p) == rcv'[p] = rcv[p] /\ run'[p] = run[p]

ReceiverSteps(p) == TookData(p) \/ TookTimer(p) \/ TookNothing(p)

LEMMA StepsAlone ==
    ASSUME NEW p \in Peers, rcv'[Peer(p)] = rcv[Peer(p)], run'[Peer(p)] = run[Peer(p)],
           ReceiverSteps(p)
    PROVE  \A q \in Peers : ReceiverSteps(q)
<1>1. \A q \in Peers : q = p \/ q = Peer(p)
  BY TwoPeers
<1> QED
  BY <1>1 DEF ReceiverSteps, TookNothing

LEMMA DataTaken ==
    ASSUME Agreed, RunsKept, InBounds, NEW p \in Peers, NEW msg \in Elems(net[p]),
           msg.type = "data", NEW channel, HandleData(p, msg.pdu, channel)
    PROVE  RunsKept' /\ \A q \in Peers : ReceiverSteps(q)
<1> DEFINE d == msg.pdu
           o == R(p)!Receive(rcv[p], d)
<1>1. Peer(p) \in Peers /\ Peer(p) # p
  BY TwoPeers
<1>2. d \in DataPDU /\ (d.drf => d.seq = 1)
  <2>1. d \in PDUs(snd[Peer(p)].nextSeqNumToSend)
    BY DEF Agreed, DataFits
  <2>2. snd[Peer(p)].nextSeqNumToSend \in Nat
        /\ snd[Peer(p)].nextSeqNumToSend <= MaxSeq + 1
    BY <1>1 DEF Agreed, Sound, InBounds
  <2> QED
    BY <2>1, <2>2, QoSAssumption DEF PDUs, DataPDU, SeqNum
<1>3. ~rcv[p].thrown /\ rcv' = [rcv EXCEPT ![p] = o.st] /\ RecordRun(p, o, d.drf)
  BY DEF HandleData
<1>4. DOMAIN rcv = Peers /\ DOMAIN run = Peers
  BY DEF Agreed, RunsKept
<1> HIDE DEF d, o
<1>5. /\ Took(p, o, d.drf) /\ DOMAIN run' = Peers
      /\ rcv'[Peer(p)] = rcv[Peer(p)] /\ run'[Peer(p)] = run[Peer(p)]
  BY <1>1, <1>3, <1>4 DEF RecordRun, Took
<1>6. ReceiverSteps(p)
  BY <1>2, <1>3, <1>5 DEF ReceiverSteps, TookData, o
<1> QED
  BY <1>5, <1>6, StepsAlone DEF RunsKept

LEMMA TimerTaken ==
    ASSUME Agreed, RunsKept, NEW p \in Peers, NEW n \in SeqNum, ATimerExpires(p, n)
    PROVE  RunsKept' /\ \A q \in Peers : ReceiverSteps(q)
<1> DEFINE o == R(p)!ATimerFired(rcv[p], n)
<1>1. Peer(p) \in Peers /\ Peer(p) # p
  BY TwoPeers
<1>2. /\ ~rcv[p].thrown /\ rcv[p].aTimers[n] > 0
      /\ rcv' = [rcv EXCEPT ![p] = o.st] /\ RecordRun(p, o, FALSE)
  BY DEF ATimerExpires
<1>3. DOMAIN rcv = Peers /\ DOMAIN run = Peers
  BY DEF Agreed, RunsKept
<1> HIDE DEF o
<1>4. /\ Took(p, o, FALSE) /\ DOMAIN run' = Peers
      /\ rcv'[Peer(p)] = rcv[Peer(p)] /\ run'[Peer(p)] = run[Peer(p)]
  BY <1>1, <1>2, <1>3 DEF RecordRun, Took
<1>5. ReceiverSteps(p)
  BY <1>2, <1>4 DEF ReceiverSteps, TookTimer, o
<1> QED
  BY <1>4, <1>5, StepsAlone DEF RunsKept

LEMMA ReceiversStep ==
    ASSUME Agreed, RunsKept, [Next /\ InBounds]_vars
    PROVE  RunsKept' /\ \A q \in Peers : ReceiverSteps(q)
<1>1. ASSUME UNCHANGED <<rcv, run>>
      PROVE  RunsKept' /\ \A q \in Peers : ReceiverSteps(q)
  BY <1>1 DEF RunsKept, ReceiverSteps, TookNothing
<1>2. ASSUME NEW p \in Peers, NEW msg \in Elems(net[p]), NEW channel, InBounds,
             Handle(p, msg, channel)
      PROVE  RunsKept' /\ \A q \in Peers : ReceiverSteps(q)
  <2>1. CASE msg.type = "data" /\ HandleData(p, msg.pdu, channel)
    BY <1>2, <2>1, DataTaken
  <2>2. CASE HandleControl(p, msg.pdu, channel)
    BY <1>1, <2>2 DEF HandleControl
  <2> QED
    BY <1>2, <2>1, <2>2 DEF Handle
<1>3. ASSUME NEW p \in Writers, WriteSDU(p)
      PROVE  RunsKept' /\ \A q \in Peers : ReceiverSteps(q)
  BY <1>1, <1>3 DEF WriteSDU
<1>4. ASSUME NEW p \in Peers, InBounds, Arrive(p)
      PROVE  RunsKept' /\ \A q \in Peers : ReceiverSteps(q)
  <2>1. net[p] # <<>> /\ Handle(p, Head(net[p]), [net EXCEPT ![p] = Tail(@)])
    BY <1>4 DEF Arrive
  <2>2. Head(net[p]) \in Elems(net[p])
    BY <2>1, ArrivalRemains
  <2> QED
    BY <1>2, <1>4, <2>1, <2>2
<1>5. ASSUME NEW p \in Peers, InBounds, NEW i \in 2..Len(net[p]), ArriveOvertaking(p, i)
      PROVE  RunsKept' /\ \A q \in Peers : ReceiverSteps(q)
  <2>1. Handle(p, net[p][i], [net EXCEPT ![p] = RemoveAt(@, i)])
    BY <1>5 DEF ArriveOvertaking
  <2>2. i \in 1..Len(net[p])
    BY DEF Agreed, IsSequence
  <2>3. net[p][i] \in Elems(net[p])
    BY <2>2 DEF Elems
  <2> QED
    BY <1>2, <1>5, <2>1, <2>3
<1>6. ASSUME NEW p \in Peers, NEW i \in 1..Len(net[p]), Lose(p, i)
      PROVE  RunsKept' /\ \A q \in Peers : ReceiverSteps(q)
  BY <1>1, <1>6 DEF Lose
<1>7. ASSUME NEW p \in Peers, NEW e \in snd[p].rxQ, RxTimerExpires(p, e)
      PROVE  RunsKept' /\ \A q \in Peers : ReceiverSteps(q)
  BY <1>1, <1>7 DEF RxTimerExpires
<1>8. ASSUME NEW p \in Peers, NEW n \in SeqNum, ATimerExpires(p, n)
      PROVE  RunsKept' /\ \A q \in Peers : ReceiverSteps(q)
  BY <1>8, TimerTaken
<1>9. ASSUME UNCHANGED vars
      PROVE  RunsKept' /\ \A q \in Peers : ReceiverSteps(q)
  BY <1>1, <1>9 DEF vars
<1> QED
  BY <1>3, <1>4, <1>5, <1>6, <1>7, <1>8, <1>9 DEF Next

LEMMA StepOfA ==
    ASSUME Agreed, RunsKept, [Next /\ InBounds]_vars
    PROVE  [ReceiverA!Next]_(ReceiverA!vars)
<1>1. A \in Peers
  BY DEF Peers
<1>2. CASE UNCHANGED vars
  BY <1>2 DEF vars, ReceiverA!vars
<1>3. CASE Next /\ InBounds
  <2>1. /\ rcv[A].rcvRtWinEdge < MaxRWE
        /\ \A n \in ReceiverA!SeqNum : rcv[A].aTimers[n] < MaxATimers
    BY <1>1, <1>3 DEF InBounds, SeqNum, ReceiverA!SeqNum
  <2>2. ASSUME NEW o, NEW drf \in BOOLEAN, Took(A, o, drf)
        PROVE  ReceiverA!Becomes(o, drf)
    <3>1. ReceiverA!SeqNums(o.up) = SeqNums(o.up)
      BY DEF SeqNums, ReceiverA!SeqNums
    <3> DEFINE up == SeqNums(o.up)
               before == IF drf THEN {} ELSE run[A].delivered
               again == run[A].repeated \/ up \intersect before # {}
    <3>2. /\ rcv'[A] = o.st
          /\ run'[A] = [delivered |-> before \union up, newRun |-> drf, repeated |-> again]
      BY <2>2 DEF Took
    <3>3. again = (run[A].repeated \/ (~drf /\ up \intersect run[A].delivered # {}))
      OBVIOUS
    <3> HIDE DEF again, before
    <3>4. /\ run'[A].delivered = before \union up
          /\ run'[A].newRun = drf
          /\ run'[A].repeated = again
      BY <3>2
    <3> QED
      BY <3>1, <3>2, <3>3, <3>4 DEF ReceiverA!Becomes, before
  <2>3. CASE TookData(A)
    <3>1. PICK d \in DataPDU : /\ d.drf => d.seq = 1
                               /\ ~rcv[A].thrown
                               /\ Took(A, R(A)!Receive(rcv[A], d), d.drf)
      BY <2>3 DEF TookData
    <3>2. d \in ReceiverA!Sendable
      BY <3>1 DEF ReceiverA!Sendable, ReceiverA!DataPDU, ReceiverA!SeqNum, DataPDU, SeqNum
    <3>3. ReceiverA!Becomes(ReceiverA!Receive(rcv[A], d), d.drf)
      <4>1. d.drf \in BOOLEAN
        BY DEF DataPDU
      <4> QED
        BY <2>2, <3>1, <4>1, OneReceiverA
    <3> QED
      BY <2>1, <3>1, <3>2, <3>3 DEF ReceiverA!Next, ReceiverA!ReceiveData
  <2>4. CASE TookTimer(A)
    <3>1. PICK n \in SeqNum : /\ ~rcv[A].thrown
                              /\ rcv[A].aTimers[n] > 0
                              /\ Took(A, R(A)!ATimerFired(rcv[A], n), FALSE)
      BY <2>4 DEF TookTimer
    <3>2. n \in ReceiverA!SeqNum
      BY DEF ReceiverA!SeqNum, SeqNum
    <3>3. ReceiverA!Becomes(ReceiverA!ATimerFired(rcv[A], n), FALSE)
      BY <2>2, <3>1, OneReceiverA
    <3> QED
      BY <3>1, <3>2, <3>3 DEF ReceiverA!Next, ReceiverA!ATimerExpires
  <2>5. CASE TookNothing(A)
    BY <2>5 DEF TookNothing, ReceiverA!vars
  <2> QED
    BY <1>1, <2>3, <2>4, <2>5, ReceiversStep DEF ReceiverSteps
<1> QED
  BY <1>2, <1>3

LEMMA StepOfB ==
    ASSUME Agreed, RunsKept, [Next /\ InBounds]_vars
    PROVE  [ReceiverB!Next]_(ReceiverB!vars)
<1>1. B \in Peers
  BY DEF Peers
<1>2. CASE UNCHANGED vars
  BY <1>2 DEF vars, ReceiverB!vars
<1>3. CASE Next /\ InBounds
  <2>1. /\ rcv[B].rcvRtWinEdge < MaxRWE
        /\ \A n \in ReceiverB!SeqNum : rcv[B].aTimers[n] < MaxATimers
    BY <1>1, <1>3 DEF InBounds, SeqNum, ReceiverB!SeqNum
  <2>2. ASSUME NEW o, NEW drf \in BOOLEAN, Took(B, o, drf)
        PROVE  ReceiverB!Becomes(o, drf)
    <3>1. ReceiverB!SeqNums(o.up) = SeqNums(o.up)
      BY DEF SeqNums, ReceiverB!SeqNums
    <3> DEFINE up == SeqNums(o.up)
               before == IF drf THEN {} ELSE run[B].delivered
               again == run[B].repeated \/ up \intersect before # {}
    <3>2. /\ rcv'[B] = o.st
          /\ run'[B] = [delivered |-> before \union up, newRun |-> drf, repeated |-> again]
      BY <2>2 DEF Took
    <3>3. again = (run[B].repeated \/ (~drf /\ up \intersect run[B].delivered # {}))
      OBVIOUS
    <3> HIDE DEF again, before
    <3>4. /\ run'[B].delivered = before \union up
          /\ run'[B].newRun = drf
          /\ run'[B].repeated = again
      BY <3>2
    <3> QED
      BY <3>1, <3>2, <3>3, <3>4 DEF ReceiverB!Becomes, before
  <2>3. CASE TookData(B)
    <3>1. PICK d \in DataPDU : /\ d.drf => d.seq = 1
                               /\ ~rcv[B].thrown
                               /\ Took(B, R(B)!Receive(rcv[B], d), d.drf)
      BY <2>3 DEF TookData
    <3>2. d \in ReceiverB!Sendable
      BY <3>1 DEF ReceiverB!Sendable, ReceiverB!DataPDU, ReceiverB!SeqNum, DataPDU, SeqNum
    <3>3. ReceiverB!Becomes(ReceiverB!Receive(rcv[B], d), d.drf)
      <4>1. d.drf \in BOOLEAN
        BY DEF DataPDU
      <4> QED
        BY <2>2, <3>1, <4>1, OneReceiverB
    <3> QED
      BY <2>1, <3>1, <3>2, <3>3 DEF ReceiverB!Next, ReceiverB!ReceiveData
  <2>4. CASE TookTimer(B)
    <3>1. PICK n \in SeqNum : /\ ~rcv[B].thrown
                              /\ rcv[B].aTimers[n] > 0
                              /\ Took(B, R(B)!ATimerFired(rcv[B], n), FALSE)
      BY <2>4 DEF TookTimer
    <3>2. n \in ReceiverB!SeqNum
      BY DEF ReceiverB!SeqNum, SeqNum
    <3>3. ReceiverB!Becomes(ReceiverB!ATimerFired(rcv[B], n), FALSE)
      BY <2>2, <3>1, OneReceiverB
    <3> QED
      BY <3>1, <3>2, <3>3 DEF ReceiverB!Next, ReceiverB!ATimerExpires
  <2>5. CASE TookNothing(B)
    BY <2>5 DEF TookNothing, ReceiverB!vars
  <2> QED
    BY <1>1, <2>3, <2>4, <2>5, ReceiversStep DEF ReceiverSteps
<1> QED
  BY <1>2, <1>3

LEMMA InitOfA ==
    ASSUME Init
    PROVE  ReceiverA!Init
<1>1. A \in Peers
  BY DEF Peers
<1>2. /\ rcv[A] = R(A)!InitRcv
      /\ run[A] = [delivered |-> {}, newRun |-> FALSE, repeated |-> FALSE]
  BY <1>1 DEF Init
<1> QED
  BY <1>2, OneReceiverA DEF ReceiverA!Init

LEMMA InitOfB ==
    ASSUME Init
    PROVE  ReceiverB!Init
<1>1. B \in Peers
  BY DEF Peers
<1>2. /\ rcv[B] = R(B)!InitRcv
      /\ run[B] = [delivered |-> {}, newRun |-> FALSE, repeated |-> FALSE]
  BY <1>1 DEF Init
<1> QED
  BY <1>2, OneReceiverB DEF ReceiverB!Init

LEMMA BoundedAgree ==
    /\ BoundedSpec => Spec
    /\ BoundedSpec => [](Agreed /\ RunsKept)
<1>1. BoundedSpec => Spec
  BY PTL DEF BoundedSpec, Spec
<1>2. Init => RunsKept
  BY DEF Init, RunsKept
<1>3. Agreed /\ RunsKept /\ [Next /\ InBounds]_vars => RunsKept'
  BY ReceiversStep
<1> QED
  BY <1>1, <1>2, <1>3, EndsKeepAgreeing, PTL DEF BoundedSpec

(* A connection that stays within the bounds of the model does with each   *)
(* of its receivers what DTPReceiver allows: whatever the path does, what  *)
(* handleDataTransferPDUFromRMT gets is a PDU a peer can have sent.        *)
THEOREM ReceiversAreReceivers == BoundedSpec => ReceivesAsSpecified
<1>1. Init => ReceiverA!Init /\ ReceiverB!Init
  BY InitOfA, InitOfB
<1>2. Agreed /\ RunsKept /\ [Next /\ InBounds]_vars =>
          [ReceiverA!Next]_(ReceiverA!vars) /\ [ReceiverB!Next]_(ReceiverB!vars)
  BY StepOfA, StepOfB
<1>3. BoundedSpec => ReceiverA!Spec /\ ReceiverB!Spec
  BY <1>1, <1>2, BoundedAgree, PTL DEF BoundedSpec, ReceiverA!Spec, ReceiverB!Spec
<1> QED
  BY <1>3 DEF ReceivesAsSpecified

(* With retransmission and immediate acks no PDU is left at the left edge  *)
(* of either queue: what DTPReceiver_proofs shows of one receiver holds at *)
(* both ends.                                                              *)
THEOREM HeadsAreNeverStranded == BoundedSpec => []HeadsNotStranded
<1>1. /\ RA!QoSAssumption /\ RA!ReceiverAssumption
      /\ RB!QoSAssumption /\ RB!ReceiverAssumption
  BY QoSAssumption, ConnectionAssumption
     DEF RA!QoSAssumption, RA!ReceiverAssumption, RB!QoSAssumption, RB!ReceiverAssumption
<1>2. RA!Spec => []RA!HeadNotStranded
  BY <1>1, RA!HeadIsNeverStranded
<1>3. RB!Spec => []RB!HeadNotStranded
  BY <1>1, RB!HeadIsNeverStranded
<1>4. RA!HeadNotStranded /\ RB!HeadNotStranded => HeadsNotStranded
  BY OneReceiverA, OneReceiverB DEF HeadsNotStranded
<1>5. (ReceiverA!Spec <=> RA!Spec) /\ (ReceiverB!Spec <=> RB!Spec)
  BY OneReceiverA, OneReceiverB
<1>6. BoundedSpec => ReceiverA!Spec /\ ReceiverB!Spec
  BY ReceiversAreReceivers DEF ReceivesAsSpecified
<1> QED
  BY <1>2, <1>3, <1>4, <1>5, <1>6, PTL

-----------------------------------------------------------------------------
(* A path that loses nothing. From here on no PDU is lost, overtaken or    *)
(* sent again too early, every PDU is acknowledged as it arrives, and no   *)
(* gap is tolerated: what is shown is that the two ends are then always in *)
(* lockstep. First, what goes up: numbers in increasing order.             *)

(* UserDataSeqs gives every number once.                                   *)
LEMMA IncreasingEnumerates ==
    ASSUME NEW nums \in SUBSET Nat, IsFiniteSet(nums)
    PROVE  /\ Increasing(nums) \in Seq(nums)
           /\ Len(Increasing(nums)) = Cardinality(nums)
           /\ IsInjective(Increasing(nums))
<1> DEFINE k == Cardinality(nums)
           below(n) == {m \in nums : m <= n}
           rank == [n \in nums |-> Rank(nums, n)]
<1>1. k \in Nat
  BY FS_CardinalityType
<1>2. \A n \in nums : rank[n] = Cardinality(below(n))
  BY DEF Rank
<1>3. ASSUME NEW n \in nums
      PROVE  IsFiniteSet(below(n)) /\ Cardinality(below(n)) \in 1..k
  <2>1. below(n) \in SUBSET nums /\ n \in below(n)
    OBVIOUS
  <2>2. IsFiniteSet(below(n)) /\ Cardinality(below(n)) <= k
    BY <2>1, FS_Subset
  <2>3. Cardinality(below(n)) \in Nat /\ Cardinality(below(n)) # 0
    <3> HIDE DEF below
    <3> QED
      BY <2>1, <2>2, FS_CardinalityType, FS_EmptySet
  <2> HIDE DEF below
  <2> QED
    BY <1>1, <2>2, <2>3
<1>4. rank \in [nums -> 1..k]
  BY <1>2, <1>3
<1>5. ASSUME NEW m \in nums, NEW n \in nums, rank[m] = rank[n]
      PROVE  m = n
  <2>1. ASSUME NEW x \in nums, NEW y \in nums, rank[x] = rank[y], x < y
        PROVE  FALSE
    <3>1. below(x) \in SUBSET below(y) /\ y \in below(y) /\ y \notin below(x)
      <4>1. x \in Nat /\ y \in Nat /\ \A z \in nums : z \in Nat
        OBVIOUS
      <4>2. \A z : (z \in below(x) <=> z \in nums /\ z <= x) /\ (z \in below(y) <=> z \in nums /\ z <= y)
        OBVIOUS
      <4> HIDE DEF below
      <4>3. ASSUME NEW z \in below(x)
            PROVE  z \in below(y)
        <5>1. z \in nums /\ z \in Nat /\ z <= x /\ x < y
          BY <2>1, <4>1, <4>2
        <5>2. z <= y
          BY <4>1, <5>1
        <5> QED
          BY <4>2, <5>1, <5>2
      <4> QED
        BY <2>1, <4>1, <4>2, <4>3
    <3>2. IsFiniteSet(below(y)) /\ Cardinality(below(x)) = Cardinality(below(y))
      BY <1>2, <1>3, <2>1
    <3> HIDE DEF below
    <3> QED
      BY <3>1, <3>2, FS_Subset
  <2>2. rank[n] = rank[m] /\ m \in Nat /\ n \in Nat
    BY <1>5
  <2> HIDE DEF rank
  <2> QED
    BY <1>5, <2>1, <2>2
<1>6. rank \in Surjection(nums, 1..k)
  <2>1. rank \in Injection(nums, 1..k)
    <3> HIDE DEF rank, k
    <3> QED
      BY <1>4, <1>5 DEF Injection, IsInjective
  <2>2. IsFiniteSet(1..k) /\ Cardinality(1..k) = k
    BY <1>1, FS_Interval
  <2> HIDE DEF rank
  <2> QED
    BY <2>1, <2>2, FS_Injection
<1>7. \A i \in 1..k : \E n \in nums : Rank(nums, n) = i
  BY <1>6 DEF Surjection
<1> DEFINE f == Increasing(nums)
<1>8. /\ f = [i \in 1..k |-> f[i]]
      /\ \A i \in 1..k : f[i] \in nums /\ Rank(nums, f[i]) = i
  BY <1>7 DEF Increasing
<1> HIDE DEF f, k
<1>9. f \in Seq(nums) /\ Len(f) = k
  <2>1. f \in [1..k -> nums]
    BY <1>8
  <2>2. f \in Seq(nums)
    BY <1>1, <2>1, FunctionIsSequence
  <2> QED
    BY <1>1, <2>1, <2>2
<1>10. IsInjective(f)
  BY <1>8, <1>9 DEF IsInjective
<1> QED
  BY <1>9, <1>10 DEF f, k

LEMMA OneNumber ==
    ASSUME NEW d, d.seq \in Nat, d.empty = FALSE
    PROVE  UserDataSeqs({d}) = <<d.seq>>
<1> DEFINE f == Increasing({d.seq})
<1>1. SeqNums({e \in {d} : ~e.empty}) = {d.seq}
  BY DEF SeqNums
<1>2. IsFiniteSet({d.seq}) /\ Cardinality({d.seq}) = 1 /\ {d.seq} \in SUBSET Nat
  BY FS_Singleton
<1>3. f \in Seq({d.seq}) /\ Len(f) = 1
  BY <1>2, IncreasingEnumerates
<1> HIDE DEF f
<1>4. f[1] = d.seq
  BY <1>3
<1>5. f = <<d.seq>>
  BY <1>3, <1>4
<1> QED
  BY <1>1, <1>5 DEF UserDataSeqs, f

-----------------------------------------------------------------------------
(* The receiver, which gets the PDUs one by one and in order.              *)

(* Nothing is lost, overtaken or sent too early, every PDU is acknowledged *)
(* as it arrives, and no gap is tolerated.                                 *)
Lossless ==
    /\ RxOn /\ Immediate
    /\ MaxAllowGap = 0
    /\ MaxLoss = 0 /\ MaxReorder = 0 /\ MaxEarly = 0
    /\ MaxSDUs <= MaxSeq

(* The PDU an SDU travels in, and the answer to it. *)
Pdu(n) == [seq |-> n, drf |-> n = 1, empty |-> FALSE]

Credit(c) == IF WindowFcOn THEN RcvCredit + c ELSE RcvCredit

AnswerBody(n) ==
    [kind |-> IF WindowFcOn THEN "ackFlow" ELSE "ackOnly", ack |-> n,
     rwe |-> IF WindowFcOn THEN Credit(n) ELSE 0, lwe |-> 0]

Answer(n) ==
    [seq |-> n, kind |-> IF WindowFcOn THEN "ackFlow" ELSE "ackOnly", ack |-> n,
     rwe |-> IF WindowFcOn THEN Credit(n) ELSE 0, lwe |-> 0]

(* A receiver that got the first c PDUs, each once and in order. *)
Rcvd(c) ==
    [rcvLeftWinEdge |-> IF c = 0 THEN 0 ELSE c + 1,
     maxSeqNumRcvd |-> c,
     reassemblyPDUQ |-> {},
     lastSDUDelivered |-> IF c = 0 THEN 0 ELSE SduSeqNum,
     rcvRtWinEdge |-> Credit(c),
     aTimers |-> [n \in SeqNum |-> 0],
     thrown |-> FALSE]

(* The receiver before the next PDU leaves its queue again. *)
Holding(c, edge, credit) ==
    [rcvLeftWinEdge |-> edge,
     maxSeqNumRcvd |-> c + 1,
     reassemblyPDUQ |-> {Pdu(c + 1)},
     lastSDUDelivered |-> IF c = 0 THEN 0 ELSE SduSeqNum,
     rcvRtWinEdge |-> credit,
     aTimers |-> [n \in SeqNum |-> 0],
     thrown |-> FALSE]

LEMMA RcvdIsRcvState ==
    ASSUME NEW p, NEW c \in SeqNum
    PROVE  Rcvd(c) \in R(p)!RcvState
BY ConnectionAssumption, QoSAssumption
   DEF Rcvd, R!RcvState, Credit, SeqNum, R!SeqNum, SduSeqNum, R!SduSeqNum

LEMMA EdgePasses ==
    ASSUME NEW p, NEW c \in Nat, c + 1 <= MaxSeq, NEW credit,
           NEW edge \in {c + 1, c + 2}
    PROVE  R(p)!LeftEdgeAfter(Holding(c, edge, credit)) = c + 2
<1> DEFINE r == Holding(c, edge, credit)
           Q == {Pdu(c + 1)}
           T == {m \in edge..(MaxSeq + 1) : m # c + 1}
<1>1. r.reassemblyPDUQ = Q /\ r.rcvLeftWinEdge = edge
  BY DEF Holding
<1>2. R(p)!SeqNums(Q) = {c + 1} /\ \E d \in Q : d.seq <= edge
  BY DEF R!SeqNums, Pdu
<1>3. R(p)!LeftEdgeAfter(r) = R(p)!NextMissing(Q, edge)
  BY <1>1, <1>2 DEF R!LeftEdgeAfter
<1>4. {m \in edge..(MaxSeq + 1) : m \notin R(p)!SeqNums(Q)} = T
  BY <1>2
<1>5. R(p)!NextMissing(Q, edge) = Min(T)
  BY <1>4 DEF R!NextMissing, R!Min, Min
<1>6. c + 2 \in T /\ T \in SUBSET Nat /\ \A x \in T : c + 2 <= x
  BY QoSAssumption
<1>7. Min(T) \in T /\ \A x \in T : Min(T) <= x
  <2> HIDE DEF T
  <2> QED
    BY <1>6, MinOfNats
<1>8. Min(T) = c + 2
  <2> DEFINE x == Min(T)
  <2>1. x \in Nat /\ x <= c + 2 /\ c + 2 <= x
    <3> HIDE DEF T, x
    <3> QED
      BY <1>6, <1>7 DEF x
  <2> HIDE DEF x
  <2>2. x = c + 2
    BY <2>1
  <2> QED
    BY <2>2 DEF x
<1> QED
  BY <1>3, <1>5, <1>8

LEMMA EdgeUpdated ==
    ASSUME NEW p, NEW c \in Nat, c + 1 <= MaxSeq, NEW credit,
           NEW edge \in {c + 1, c + 2}
    PROVE  R(p)!UpdateRcvLWE(Holding(c, edge, credit)) = Holding(c, c + 2, credit)
<1>1. R(p)!LeftEdgeAfter(Holding(c, edge, credit)) = c + 2
  BY EdgePasses
<1>2. R(p)!UpdateRcvLWE(Holding(c, edge, credit))
        = [Holding(c, edge, credit) EXCEPT !.rcvLeftWinEdge = c + 2]
  BY <1>1 DEF R!UpdateRcvLWE
<1> QED
  BY <1>2 DEF Holding

LEMMA HoldingAnswers ==
    ASSUME Lossless, NEW p, NEW c \in Nat, c + 1 <= MaxSeq,
           NEW edge \in {c + 1, c + 2}
    PROVE  LET r == Holding(c, edge, Credit(c))
               t == Holding(c, c + 2, Credit(c + 1))
           IN  /\ R(p)!SvUpdate(r) = t
               /\ R(p)!SvUpdateOut(r) = <<AnswerBody(c + 1)>>
               /\ R(p)!Deliverable(t) = {Pdu(c + 1)}
               /\ R(p)!Delimit(t) = Rcvd(c + 1)
<1> DEFINE r == Holding(c, edge, Credit(c))
           u == Holding(c, c + 2, Credit(c))
           t == Holding(c, c + 2, Credit(c + 1))
<1>1. R(p)!UpdateRcvLWE(r) = u /\ R(p)!UpdateRcvLWE(t) = t
  BY EdgeUpdated
<1>2. R(p)!Credited(r) = t
  <2>1. R(p)!Credited(r) = IF WindowFcOn THEN [u EXCEPT !.rcvRtWinEdge = @ + 1] ELSE u
    BY <1>1 DEF R!Credited
  <2>2. WindowFcOn => Credit(c + 1) = Credit(c) + 1
    BY ConnectionAssumption DEF Credit
  <2>3. ~WindowFcOn => Credit(c + 1) = Credit(c)
    BY DEF Credit
  <2> QED
    BY <2>1, <2>2, <2>3 DEF Holding
<1>3. R(p)!SvUpdate(r) = t
  BY <1>1, <1>2 DEF R!SvUpdate, Lossless
<1>4. R(p)!RcvrAckNum(t) = c + 1
  BY DEF R!RcvrAckNum, Holding
<1>5. R(p)!SvUpdateOut(r) = R(p)!AckFlow(t, c + 1)
  BY <1>2, <1>3, <1>4 DEF R!SvUpdateOut, Lossless
<1>6. R(p)!AckFlow(t, c + 1) = <<AnswerBody(c + 1)>>
  <2>1. t.rcvRtWinEdge = Credit(c + 1)
    BY DEF Holding
  <2> HIDE DEF t
  <2> QED
    BY <2>1 DEF R!AckFlow, R!DtcpPresent, Lossless, AnswerBody
<1>7. R(p)!Deliverable(t) = {Pdu(c + 1)}
  <2>1. t.reassemblyPDUQ = {Pdu(c + 1)} /\ t.rcvLeftWinEdge = c + 2
    BY DEF Holding
  <2>2. Pdu(c + 1).seq < c + 2
    BY DEF Pdu
  <2> HIDE DEF t
  <2> QED
    BY <2>1, <2>2 DEF R!Deliverable
<1>8. R(p)!Delimit(t) = Rcvd(c + 1)
  <2>1. \E d \in R(p)!Deliverable(t) : ~d.empty
    <3>1. ~Pdu(c + 1).empty
      BY DEF Pdu
    <3> HIDE DEF t
    <3> QED
      BY <1>7, <3>1
  <2>2. R(p)!Delimit(t) = [t EXCEPT !.reassemblyPDUQ = {}, !.lastSDUDelivered = R(p)!SduSeqNum]
    <3>1. t.reassemblyPDUQ \ R(p)!Deliverable(t) = {}
      BY <1>7 DEF Holding
    <3> HIDE DEF t
    <3> QED
      BY <2>1, <3>1 DEF R!Delimit
  <2>3. c + 1 # 0 /\ (c + 1) + 1 = c + 2
    OBVIOUS
  <2> QED
    BY <2>2, <2>3 DEF Holding, Rcvd, SduSeqNum, R!SduSeqNum
<1> QED
  BY <1>3, <1>5, <1>6, <1>7, <1>8

(* DTP::handleDataTransferPDUFromRMT on the PDU that comes next.           *)
LEMMA NextIsReceived ==
    ASSUME Lossless, NEW p, NEW c \in Nat, c + 1 <= MaxSeq
    PROVE  R(p)!Receive(Rcvd(c), Pdu(c + 1)) =
              [st |-> Rcvd(c + 1), up |-> {Pdu(c + 1)}, out |-> <<AnswerBody(c + 1)>>]
<1> DEFINE r == Rcvd(c)
           d == Pdu(c + 1)
<1>1. r.reassemblyPDUQ = {} /\ r.maxSeqNumRcvd = c
      /\ r.rcvLeftWinEdge = IF c = 0 THEN 0 ELSE c + 1
  BY DEF Rcvd
<1>2. d.seq = c + 1 /\ (d.drf <=> c = 0)
  <2>1. d.seq = c + 1 /\ d.drf = (c + 1 = 1)
    BY DEF Pdu
  <2>2. (c + 1 = 1) <=> c = 0
    OBVIOUS
  <2> HIDE DEF d
  <2> QED
    BY <2>1, <2>2
<1>3. CASE c = 0
  <2>1. R(p)!Receive(r, d) = R(p)!StartOfRun(r, d)
    <3> HIDE DEF r, d
    <3> QED
      BY <1>2, <1>3 DEF R!Receive, R!BehindLeftEdge, R!AmongGaps, R!InOrder, R!OutOfOrder
  <2>2. R(p)!Deliverable(r) = {}
    BY <1>1 DEF R!Deliverable
  <2>3. R(p)!Delimit(r) = r
    <3>1. R(p)!Delimit(r) = [r EXCEPT !.reassemblyPDUQ = {}, !.lastSDUDelivered = r.lastSDUDelivered]
      <4> HIDE DEF r
      <4> QED
        BY <1>1, <2>2 DEF R!Delimit
    <3> QED
      BY <3>1 DEF Rcvd
  <2> DEFINE e == [r EXCEPT !.reassemblyPDUQ = {}]
             f == R(p)!SetMaxSeqNumRcvd(e, d.seq)
             g == [f EXCEPT !.rcvLeftWinEdge = d.seq + 1]
             a == R(p)!AddToReassemblyQ(g, d)
  <2>4. a = Holding(c, c + 2, Credit(c))
    <3>1. e = r
      BY <1>1 DEF Rcvd
    <3>2. f = [r EXCEPT !.maxSeqNumRcvd = 1]
      <4>1. e.maxSeqNumRcvd = 0 /\ d.seq = 1
        BY <1>1, <1>2, <1>3, <3>1
      <4> HIDE DEF r, d, e
      <4> QED
        BY <3>1, <4>1 DEF R!SetMaxSeqNumRcvd
    <3>3. g = [r EXCEPT !.maxSeqNumRcvd = 1, !.rcvLeftWinEdge = 2]
      <4>1. d.seq + 1 = 2
        BY <1>2, <1>3
      <4> HIDE DEF d, f
      <4> QED
        BY <3>2, <4>1 DEF Rcvd
    <3> HIDE DEF e, f, g
    <3>4. g.reassemblyPDUQ = {} /\ R(p)!SeqNums({}) = {}
      BY <3>3 DEF Rcvd, R!SeqNums
    <3>5. a = [g EXCEPT !.reassemblyPDUQ = {d}]
      BY <3>4 DEF R!AddToReassemblyQ
    <3>6. c + 1 = 1 /\ c + 2 = 2
      BY <1>3
    <3> HIDE DEF a
    <3> QED
      BY <1>3, <3>3, <3>5, <3>6 DEF Rcvd, Holding
  <2>5. R(p)!DtcpPresent
    BY DEF R!DtcpPresent, Lossless
  <2>6. R(p)!StartOfRun(r, d) = R(p)!Outcome(R(p)!Delimit(R(p)!SvUpdate(a)),
             R(p)!Deliverable(r) \union R(p)!Deliverable(R(p)!SvUpdate(a)), R(p)!SvUpdateOut(a))
    BY <2>3, <2>5 DEF R!StartOfRun
  <2>7. c + 2 \in {c + 1, c + 2}
    OBVIOUS
  <2> HIDE DEF a, r, d
  <2> QED
    BY <2>1, <2>2, <2>4, <2>6, <2>7, HoldingAnswers DEF R!Outcome, d, r
<1>4. CASE c # 0
  <2>1. ~R(p)!BehindLeftEdge(r, d) /\ ~R(p)!AmongGaps(r, d) /\ R(p)!InOrder(r, d)
    BY <1>1, <1>2, <1>4 DEF R!BehindLeftEdge, R!AmongGaps, R!InOrder
  <2>2. R(p)!Receive(r, d) = R(p)!NextInOrder(r, d)
    <3>1. ~d.drf /\ ~R(p)!OutOfOrder(r, d)
      BY <1>1, <1>2, <1>4 DEF R!OutOfOrder
    <3> HIDE DEF r, d
    <3> QED
      BY <2>1, <3>1 DEF R!Receive
  <2> DEFINE m == [r EXCEPT !.maxSeqNumRcvd = @ + 1]
             a == R(p)!AddToReassemblyQ(m, d)
  <2>3. a = Holding(c, c + 1, Credit(c))
    <3>1. m = [r EXCEPT !.maxSeqNumRcvd = c + 1]
      BY <1>1
    <3> HIDE DEF m
    <3>2. m.reassemblyPDUQ = {} /\ R(p)!SeqNums({}) = {}
      BY <3>1 DEF Rcvd, R!SeqNums
    <3>3. a = [m EXCEPT !.reassemblyPDUQ = {d}]
      BY <3>2 DEF R!AddToReassemblyQ
    <3> QED
      BY <1>4, <3>1, <3>3 DEF Rcvd, Holding
  <2>4. R(p)!DtcpPresent
    BY DEF R!DtcpPresent, Lossless
  <2>5. R(p)!NextInOrder(r, d) = R(p)!Handed(R(p)!SvUpdate(a), R(p)!SvUpdateOut(a))
    BY <2>4 DEF R!NextInOrder
  <2>6. c + 1 \in {c + 1, c + 2}
    OBVIOUS
  <2> HIDE DEF a, r, d
  <2> QED
    BY <2>2, <2>3, <2>5, <2>6, HoldingAnswers DEF R!Handed, R!Outcome, d, r
<1> QED
  BY <1>3, <1>4

LEMMA AnswerNumbered ==
    ASSUME NEW n \in Nat
    PROVE  Ctrl(n, <<AnswerBody(n)>>) = [i \in 1..1 |-> [type |-> "ctrl", pdu |-> Answer(n + i - 1)]]
<1>1. DOMAIN <<AnswerBody(n)>> = 1..1 /\ <<AnswerBody(n)>>[1] = AnswerBody(n)
  OBVIOUS
<1>2. \A i \in 1..1 : i = 1 /\ n + i - 1 = n
  OBVIOUS
<1>3. \A i \in 1..1 :
        [type |-> "ctrl",
         pdu |-> [seq |-> n + i - 1, kind |-> <<AnswerBody(n)>>[i].kind,
                  ack |-> <<AnswerBody(n)>>[i].ack,
                  rwe |-> <<AnswerBody(n)>>[i].rwe, lwe |-> <<AnswerBody(n)>>[i].lwe]]
        = [type |-> "ctrl", pdu |-> Answer(n + i - 1)]
  BY <1>1, <1>2 DEF AnswerBody, Answer
<1> QED
  BY <1>1, <1>3 DEF Ctrl

-----------------------------------------------------------------------------
(* The path: in either direction the numbers under way follow each other,  *)
(* and what is sent is a burst of those that come next.                    *)

(* The message of either type that bears the number n, and k of them in a  *)
(* row.                                                                    *)
Message(t, n) == [type |-> t, pdu |-> IF t = "data" THEN Pdu(n) ELSE Answer(n)]

Burst(t, m, k) == [i \in 1..k |-> Message(t, m + i)]

Path(s) == IsSequence(s) /\ \A i \in 1..Len(s) : s[i].type \in {"data", "ctrl"}

(* Those of type t among s are the ones from lo + 1 to hi, in this order.  *)
UnderWay(s, t, lo, hi) ==
    /\ \A i \in 1..Len(s) : s[i].type = t =>
          s[i].pdu.seq \in (lo + 1)..hi /\ s[i] = Message(t, s[i].pdu.seq)
    /\ \A i, j \in 1..Len(s) :
          i < j /\ s[i].type = t /\ s[j].type = t => s[i].pdu.seq < s[j].pdu.seq
    /\ \A n \in (lo + 1)..hi : \E i \in 1..Len(s) : s[i] = Message(t, n)

LEMMA MessageFields ==
    ASSUME NEW t, NEW n
    PROVE  Message(t, n).type = t /\ Message(t, n).pdu.seq = n
BY DEF Message, Pdu, Answer

LEMMA BurstIsPath ==
    ASSUME NEW t \in {"data", "ctrl"}, NEW m \in Nat, NEW k \in Nat
    PROVE  /\ Path(Burst(t, m, k)) /\ Len(Burst(t, m, k)) = k
           /\ \A i \in 1..k : Burst(t, m, k)[i] = Message(t, m + i)
<1> DEFINE f == Burst(t, m, k)
           X == {Message(t, m + i) : i \in 1..k}
<1>1. f = [i \in 1..k |-> Message(t, m + i)] /\ f \in [1..k -> X]
  BY DEF Burst
<1>2. f \in Seq(X)
  BY <1>1, FunctionIsSequence
<1>3. Len(f) = k /\ \A i \in 1..k : f[i] = Message(t, m + i)
  BY <1>1, <1>2
<1>4. \A i \in 1..Len(f) : f[i].type \in {"data", "ctrl"}
  BY <1>3, MessageFields
<1> QED
  BY <1>2, <1>3, <1>4 DEF Path, IsSequence

LEMMA SequenceAt ==
    ASSUME NEW s, IsSequence(s)
    PROVE  /\ Len(s) \in Nat
           /\ s # <<>> => /\ Len(s) > 0 /\ IsSequence(Tail(s))
                          /\ Len(Tail(s)) = Len(s) - 1 /\ Head(s) = s[1]
                          /\ \A i \in 1..(Len(s) - 1) : Tail(s)[i] = s[i + 1]
           /\ s = <<>> => Len(s) = 0
<1>1. PICK X : s \in Seq(X)
  BY DEF IsSequence
<1> QED
  BY <1>1 DEF IsSequence

LEMMA JoinAt ==
    ASSUME NEW s, NEW t, IsSequence(s), IsSequence(t)
    PROVE  /\ Len(s \o t) = Len(s) + Len(t)
           /\ \A i \in 1..Len(s) : (s \o t)[i] = s[i]
           /\ \A i \in (Len(s) + 1)..(Len(s) + Len(t)) : (s \o t)[i] = t[i - Len(s)]
<1>1. PICK X : s \in Seq(X)
  BY DEF IsSequence
<1>2. PICK Y : t \in Seq(Y)
  BY DEF IsSequence
<1>3. s \in Seq(X \union Y) /\ t \in Seq(X \union Y)
  BY <1>1, <1>2, WiderSequence
<1> QED
  BY <1>3

LEMMA NoneUnderWay ==
    ASSUME NEW t, NEW lo \in Nat, NEW hi \in Nat, lo <= hi, UnderWay(<<>>, t, lo, hi)
    PROVE  lo = hi
<1>1. Len(<<>>) = 0
  OBVIOUS
<1>2. ~(lo + 1 \in (lo + 1)..hi)
  BY <1>1 DEF UnderWay
<1> QED
  BY <1>2

LEMMA FirstUnderWay ==
    ASSUME NEW t, NEW lo \in Nat, NEW hi \in Nat, NEW s, IsSequence(s), s # <<>>,
           Head(s).type = t, UnderWay(s, t, lo, hi)
    PROVE  lo < hi /\ Head(s) = Message(t, lo + 1) /\ UnderWay(Tail(s), t, lo + 1, hi)
<1> DEFINE k == Len(s)
           r == Tail(s)
<1>1. /\ k \in Nat /\ k > 0 /\ Len(r) = k - 1 /\ Head(s) = s[1]
      /\ \A i \in 1..(k - 1) : r[i] = s[i + 1]
  BY SequenceAt
<1>2. 1 \in 1..k /\ s[1].type = t
  BY <1>1
<1>3. s[1].pdu.seq \in (lo + 1)..hi /\ s[1] = Message(t, s[1].pdu.seq)
  BY <1>2 DEF UnderWay
<1>4. lo < hi /\ lo + 1 \in (lo + 1)..hi
  BY <1>3
<1>5. PICK i \in 1..k : s[i] = Message(t, lo + 1)
  BY <1>4 DEF UnderWay
<1>6. s[i].type = t /\ s[i].pdu.seq = lo + 1
  BY <1>5, MessageFields
<1>7. i = 1
  <2>1. 1 < i => s[1].pdu.seq < s[i].pdu.seq
    BY <1>2, <1>6 DEF UnderWay
  <2> QED
    BY <1>1, <1>3, <1>6, <2>1
<1>8. s[1].pdu.seq = lo + 1 /\ s[1] = Message(t, lo + 1)
  BY <1>5, <1>6, <1>7
<1> HIDE DEF k, r
<1>9. ASSUME NEW j \in 1..Len(r)
      PROVE  /\ j + 1 \in 1..k /\ r[j] = s[j + 1] /\ 1 < j + 1
             /\ r[j].type = t => /\ r[j].pdu.seq \in (lo + 2)..hi
                                 /\ r[j] = Message(t, r[j].pdu.seq)
  <2>1. j + 1 \in 1..k /\ r[j] = s[j + 1] /\ 1 < j + 1
    BY <1>1
  <2>2. r[j].type = t => /\ s[1].pdu.seq < r[j].pdu.seq /\ r[j].pdu.seq \in (lo + 1)..hi
                         /\ r[j] = Message(t, r[j].pdu.seq)
    BY <1>2, <2>1 DEF UnderWay, k
  <2> QED
    BY <1>8, <2>1, <2>2
<1>10. ASSUME NEW a \in 1..Len(r), NEW b \in 1..Len(r), a < b, r[a].type = t, r[b].type = t
       PROVE  r[a].pdu.seq < r[b].pdu.seq
  <2>1. a + 1 \in 1..k /\ b + 1 \in 1..k /\ a + 1 < b + 1 /\ r[a] = s[a + 1] /\ r[b] = s[b + 1]
    BY <1>1, <1>9, <1>10
  <2> QED
    BY <1>10, <2>1 DEF UnderWay, k
<1>11. ASSUME NEW n \in (lo + 2)..hi
       PROVE  \E j \in 1..Len(r) : r[j] = Message(t, n)
  <2>1. n \in (lo + 1)..hi /\ n # lo + 1
    OBVIOUS
  <2>2. PICK j \in 1..k : s[j] = Message(t, n)
    BY <2>1 DEF UnderWay, k
  <2>3. j # 1
    BY <1>8, <2>1, <2>2, MessageFields
  <2>4. j - 1 \in 1..Len(r) /\ (j - 1) + 1 = j
    BY <1>1, <2>3
  <2> QED
    BY <1>9, <2>2, <2>4
<1>12. (lo + 1) + 1 = lo + 2
  OBVIOUS
<1> QED
  BY <1>1, <1>4, <1>8, <1>9, <1>10, <1>11, <1>12 DEF UnderWay, r

LEMMA OtherFirst ==
    ASSUME NEW t, NEW lo \in Nat, NEW hi \in Nat, NEW s, IsSequence(s), s # <<>>,
           Head(s).type # t, UnderWay(s, t, lo, hi)
    PROVE  UnderWay(Tail(s), t, lo, hi)
<1> DEFINE k == Len(s)
           r == Tail(s)
<1>1. /\ k \in Nat /\ k > 0 /\ Len(r) = k - 1 /\ Head(s) = s[1]
      /\ \A i \in 1..(k - 1) : r[i] = s[i + 1]
  BY SequenceAt
<1> HIDE DEF k, r
<1>2. \A j \in 1..Len(r) : j + 1 \in 1..k /\ r[j] = s[j + 1]
  BY <1>1
<1>3. ASSUME NEW n \in (lo + 1)..hi
      PROVE  \E j \in 1..Len(r) : r[j] = Message(t, n)
  <2>1. PICK j \in 1..k : s[j] = Message(t, n)
    BY DEF UnderWay, k
  <2>2. j # 1
    BY <1>1, <2>1, MessageFields
  <2>3. j - 1 \in 1..Len(r) /\ (j - 1) + 1 = j
    BY <1>1, <2>2
  <2> QED
    BY <1>2, <2>1, <2>3
<1>4. ASSUME NEW a \in 1..Len(r), NEW b \in 1..Len(r), a < b, r[a].type = t, r[b].type = t
      PROVE  r[a].pdu.seq < r[b].pdu.seq
  <2>1. a + 1 \in 1..k /\ b + 1 \in 1..k /\ a + 1 < b + 1 /\ r[a] = s[a + 1] /\ r[b] = s[b + 1]
    BY <1>1, <1>2, <1>4
  <2> QED
    BY <1>4, <2>1 DEF UnderWay, k
<1>5. ASSUME NEW j \in 1..Len(r), r[j].type = t
      PROVE  r[j].pdu.seq \in (lo + 1)..hi /\ r[j] = Message(t, r[j].pdu.seq)
  BY <1>2, <1>5 DEF UnderWay, k
<1> QED
  BY <1>3, <1>4, <1>5 DEF UnderWay, r

LEMMA BurstUnderWay ==
    ASSUME NEW t \in {"data", "ctrl"}, NEW lo \in Nat, NEW hi \in Nat, lo <= hi,
           NEW s, IsSequence(s), UnderWay(s, t, lo, hi), NEW k \in Nat
    PROVE  UnderWay(s \o Burst(t, hi, k), t, lo, hi + k)
<1> DEFINE b == Burst(t, hi, k)
           r == s \o b
           l == Len(s)
<1>1. IsSequence(b) /\ Len(b) = k /\ \A i \in 1..k : b[i] = Message(t, hi + i)
  <2>1. Path(b) /\ Len(b) = k /\ \A i \in 1..k : b[i] = Message(t, hi + i)
    BY BurstIsPath
  <2> HIDE DEF b
  <2> QED
    BY <2>1 DEF Path
<1>2. /\ l \in Nat /\ Len(r) = l + k
      /\ \A i \in 1..l : r[i] = s[i]
      /\ \A i \in (l + 1)..(l + k) : r[i] = b[i - l]
  <2> HIDE DEF b
  <2>1. l \in Nat
    BY SequenceAt
  <2> QED
    BY <1>1, <2>1, JoinAt
<1> HIDE DEF b, r, l
<1>3. ASSUME NEW i \in (l + 1)..(l + k)
      PROVE  r[i].type = t /\ r[i].pdu.seq = hi + (i - l) /\ r[i] = Message(t, hi + (i - l))
  <2>1. i - l \in 1..k
    BY <1>2
  <2> QED
    BY <1>1, <1>2, <2>1, MessageFields
<1>4. ASSUME NEW i \in 1..l, r[i].type = t
      PROVE  r[i].pdu.seq \in (lo + 1)..hi /\ r[i] = Message(t, r[i].pdu.seq)
  BY <1>2, <1>4 DEF UnderWay, l
<1>5. \A i \in 1..Len(r) : i \in 1..l \/ i \in (l + 1)..(l + k)
  BY <1>2
<1>6. ASSUME NEW i \in 1..Len(r), r[i].type = t
      PROVE  r[i].pdu.seq \in (lo + 1)..(hi + k) /\ r[i] = Message(t, r[i].pdu.seq)
  <2>1. CASE i \in 1..l
    BY <1>4, <1>6, <2>1
  <2>2. CASE i \in (l + 1)..(l + k)
    <3>1. hi + (i - l) \in (lo + 1)..(hi + k)
      BY <1>2, <2>2
    <3> QED
      BY <1>3, <2>2, <3>1
  <2> QED
    BY <1>5, <2>1, <2>2
<1>7. ASSUME NEW i \in 1..Len(r), NEW j \in 1..Len(r), i < j, r[i].type = t, r[j].type = t
      PROVE  r[i].pdu.seq < r[j].pdu.seq
  <2>1. CASE i \in 1..l /\ j \in 1..l
    BY <1>2, <1>7, <2>1 DEF UnderWay, l
  <2>2. CASE i \in 1..l /\ j \in (l + 1)..(l + k)
    <3>1. r[i].pdu.seq \in (lo + 1)..hi /\ r[j].pdu.seq = hi + (j - l)
      BY <1>3, <1>4, <1>7, <2>2
    <3> QED
      BY <1>2, <2>2, <3>1
  <2>3. CASE i \in (l + 1)..(l + k) /\ j \in (l + 1)..(l + k)
    <3>1. r[i].pdu.seq = hi + (i - l) /\ r[j].pdu.seq = hi + (j - l)
      BY <1>3, <2>3
    <3> QED
      BY <1>2, <1>7, <2>3, <3>1
  <2>4. ~(i \in (l + 1)..(l + k) /\ j \in 1..l)
    BY <1>2, <1>7
  <2> QED
    BY <1>5, <2>1, <2>2, <2>3, <2>4
<1>8. ASSUME NEW n \in (lo + 1)..(hi + k)
      PROVE  \E i \in 1..Len(r) : r[i] = Message(t, n)
  <2>1. CASE n <= hi
    <3>1. n \in (lo + 1)..hi
      BY <2>1
    <3>2. PICK i \in 1..l : s[i] = Message(t, n)
      BY <3>1 DEF UnderWay, l
    <3>3. i \in 1..Len(r)
      BY <1>2
    <3> QED
      BY <1>2, <3>2, <3>3
  <2>2. CASE n > hi
    <3>1. (n - hi) + l \in (l + 1)..(l + k) /\ (n - hi) + l \in 1..Len(r)
          /\ hi + (((n - hi) + l) - l) = n
      BY <1>2, <2>2
    <3> QED
      BY <1>3, <3>1
  <2> QED
    BY <2>1, <2>2
<1> QED
  BY <1>6, <1>7, <1>8 DEF UnderWay, r, b

LEMMA OtherBurst ==
    ASSUME NEW t, NEW u \in {"data", "ctrl"}, t # u, NEW lo \in Nat, NEW hi \in Nat,
           NEW s, IsSequence(s), UnderWay(s, t, lo, hi), NEW m \in Nat, NEW k \in Nat
    PROVE  UnderWay(s \o Burst(u, m, k), t, lo, hi)
<1> DEFINE b == Burst(u, m, k)
           r == s \o b
           l == Len(s)
<1>1. IsSequence(b) /\ Len(b) = k /\ \A i \in 1..k : b[i] = Message(u, m + i)
  <2>1. Path(b) /\ Len(b) = k /\ \A i \in 1..k : b[i] = Message(u, m + i)
    BY BurstIsPath
  <2> HIDE DEF b
  <2> QED
    BY <2>1 DEF Path
<1>2. /\ l \in Nat /\ Len(r) = l + k
      /\ \A i \in 1..l : r[i] = s[i]
      /\ \A i \in (l + 1)..(l + k) : r[i] = b[i - l]
  <2> HIDE DEF b
  <2>1. l \in Nat
    BY SequenceAt
  <2> QED
    BY <1>1, <2>1, JoinAt
<1> HIDE DEF b, r, l
<1>3. ASSUME NEW i \in (l + 1)..(l + k)
      PROVE  r[i].type # t
  <2>1. i - l \in 1..k
    BY <1>2
  <2> QED
    BY <1>1, <1>2, <2>1, MessageFields
<1>4. \A i \in 1..Len(r) : r[i].type = t => i \in 1..l
  <2>1. \A i \in 1..Len(r) : i \in 1..l \/ i \in (l + 1)..(l + k)
    BY <1>2
  <2> QED
    BY <1>3, <2>1
<1>5. \A i \in 1..l : i \in 1..Len(r) /\ r[i] = s[i]
  BY <1>2
<1> QED
  BY <1>4, <1>5 DEF UnderWay, r, b, l

LEMMA PathTail ==
    ASSUME NEW s, Path(s), s # <<>>
    PROVE  Path(Tail(s)) /\ Head(s).type \in {"data", "ctrl"}
<1>1. /\ Len(s) \in Nat /\ Len(s) > 0 /\ IsSequence(Tail(s))
      /\ Len(Tail(s)) = Len(s) - 1 /\ Head(s) = s[1]
      /\ \A i \in 1..(Len(s) - 1) : Tail(s)[i] = s[i + 1]
  BY SequenceAt DEF Path
<1>2. 1 \in 1..Len(s) /\ \A i \in 1..(Len(s) - 1) : i + 1 \in 1..Len(s)
  BY <1>1
<1> QED
  BY <1>1, <1>2 DEF Path

LEMMA PathJoin ==
    ASSUME NEW s, Path(s), NEW t, Path(t)
    PROVE  Path(s \o t)
<1>1. /\ Len(s \o t) = Len(s) + Len(t)
      /\ \A i \in 1..Len(s) : (s \o t)[i] = s[i]
      /\ \A i \in (Len(s) + 1)..(Len(s) + Len(t)) : (s \o t)[i] = t[i - Len(s)]
      /\ IsSequence(s \o t) /\ Len(s) \in Nat /\ Len(t) \in Nat
  BY JoinAt, SequenceAt, SequenceJoin DEF Path
<1>2. \A i \in 1..(Len(s) + Len(t)) :
        \/ i \in 1..Len(s)
        \/ i \in (Len(s) + 1)..(Len(s) + Len(t)) /\ i - Len(s) \in 1..Len(t)
  BY <1>1
<1> QED
  BY <1>1, <1>2 DEF Path

-----------------------------------------------------------------------------
(* Runs of PDUs: what waits for the window and what it lets out.           *)

Run(m, k) == [i \in 1..k |-> Pdu(m + i)]

Copy(i) == [pdu |-> Pdu(i), expiryCount |-> 0, turn |-> i]

(* What is kept of the PDUs from a + 1 to m. *)
Copies(a, m) == {Copy(i) : i \in (a + 1)..m}

LEMMA SameSequence ==
    ASSUME NEW X, NEW s \in Seq(X), NEW t \in Seq(X), Len(s) = Len(t),
           \A i \in 1..Len(s) : s[i] = t[i]
    PROVE  s = t
<1>1. s = [i \in 1..Len(s) |-> s[i]] /\ t = [i \in 1..Len(t) |-> t[i]]
  OBVIOUS
<1> QED
  BY <1>1

LEMMA PduIsPDU ==
    ASSUME NEW n \in Nat
    PROVE  /\ Pdu(n) \in [seq : Nat, drf : BOOLEAN, empty : BOOLEAN]
           /\ n <= MaxSeq => Pdu(n) \in DataPDU
<1>1. (n = 1) \in BOOLEAN /\ (n <= MaxSeq => n \in SeqNum)
  BY QoSAssumption DEF SeqNum
<1> QED
  BY <1>1 DEF Pdu, DataPDU

LEMMA RunIsSequence ==
    ASSUME NEW m \in Nat, NEW k \in Nat
    PROVE  /\ Run(m, k) \in Seq([seq : Nat, drf : BOOLEAN, empty : BOOLEAN])
           /\ m + k <= MaxSeq => Run(m, k) \in Seq(DataPDU)
           /\ Len(Run(m, k)) = k
           /\ \A i \in 1..k : Run(m, k)[i] = Pdu(m + i)
           /\ Run(m, k) = <<>> <=> k = 0
<1> DEFINE X == {Pdu(m + i) : i \in 1..k}
           Y == [seq : Nat, drf : BOOLEAN, empty : BOOLEAN]
           f == Run(m, k)
<1>1. f = [i \in 1..k |-> Pdu(m + i)] /\ f \in [1..k -> X]
  BY DEF Run
<1>2. X \subseteq Y /\ (m + k <= MaxSeq => X \subseteq DataPDU)
  <2> HIDE DEF f
  <2>1. \A i \in 1..k : m + i \in Nat /\ (m + k <= MaxSeq => m + i <= MaxSeq)
    BY QoSAssumption
  <2>2. \A i \in 1..k : Pdu(m + i) \in Y /\ (m + k <= MaxSeq => Pdu(m + i) \in DataPDU)
    BY <2>1, PduIsPDU
  <2> QED
    BY <2>2
<1>3. f \in Seq(X)
  BY <1>1, FunctionIsSequence
<1>4. Len(f) = k /\ \A i \in 1..k : f[i] = Pdu(m + i)
  BY <1>1, <1>3
<1> HIDE DEF X, Y, f
<1>5. f \in Seq(Y) /\ (m + k <= MaxSeq => f \in Seq(DataPDU))
  BY <1>2, <1>3, WiderSequence
<1>6. f = <<>> <=> k = 0
  BY <1>3, <1>4
<1> QED
  BY <1>4, <1>5, <1>6 DEF f, Y

LEMMA RunCut ==
    ASSUME NEW m \in Nat, NEW k \in Nat, NEW j \in 0..k
    PROVE  /\ SubSeq(Run(m, k), 1, j) = Run(m, j)
           /\ SubSeq(Run(m, k), j + 1, Len(Run(m, k))) = Run(m + j, k - j)
<1> DEFINE X == [seq : Nat, drf : BOOLEAN, empty : BOOLEAN]
           f == Run(m, k)
           g == Run(m, j)
           h == Run(m + j, k - j)
           x == SubSeq(f, 1, j)
           y == SubSeq(f, j + 1, k)
<1>1. f \in Seq(X) /\ Len(f) = k /\ \A i \in 1..k : f[i] = Pdu(m + i)
  BY RunIsSequence
<1>2. g \in Seq(X) /\ Len(g) = j /\ \A i \in 1..j : g[i] = Pdu(m + i)
  BY RunIsSequence
<1>3. h \in Seq(X) /\ Len(h) = k - j /\ \A i \in 1..(k - j) : h[i] = Pdu((m + j) + i)
  <2>1. m + j \in Nat /\ k - j \in Nat
    OBVIOUS
  <2> QED
    BY <2>1, RunIsSequence
<1> HIDE DEF f, g, h, X
<1>4. x \in Seq(X) /\ Len(x) = j /\ \A i \in 1..j : x[i] = f[i]
  BY <1>1
<1>5. y \in Seq(X) /\ Len(y) = k - j /\ \A i \in 1..(k - j) : y[i] = f[i + j]
  <2>1. y \in Seq(X) /\ Len(y) = k - j
    BY <1>1
  <2>2. ASSUME NEW i \in 1..(k - j)
        PROVE  y[i] = f[i + j]
    <3>1. y[i] = f[i + (j + 1) - 1] /\ i + (j + 1) - 1 = i + j
      BY <1>1
    <3> QED
      BY <3>1
  <2> QED
    BY <2>1, <2>2
<1> HIDE DEF x, y
<1>6. \A i \in 1..j : x[i] = g[i]
  BY <1>1, <1>2, <1>4
<1>7. ASSUME NEW i \in 1..(k - j)
      PROVE  y[i] = h[i]
  <2>1. i + j \in 1..k /\ m + (i + j) = (m + j) + i
    OBVIOUS
  <2> QED
    BY <1>1, <1>3, <1>5, <2>1
<1>8. x = g
  BY <1>2, <1>4, <1>6, SameSequence
<1>9. y = h
  BY <1>3, <1>5, <1>7, SameSequence
<1> QED
  BY <1>1, <1>8, <1>9 DEF x, y, f, g, h

LEMMA RunJoin ==
    ASSUME NEW m \in Nat, NEW k \in Nat, NEW j \in Nat
    PROVE  Run(m, k) \o Run(m + k, j) = Run(m, k + j)
<1> DEFINE X == [seq : Nat, drf : BOOLEAN, empty : BOOLEAN]
           f == Run(m, k)
           g == Run(m + k, j)
           h == Run(m, k + j)
           x == f \o g
<1>1. f \in Seq(X) /\ Len(f) = k /\ \A i \in 1..k : f[i] = Pdu(m + i)
  BY RunIsSequence
<1>2. g \in Seq(X) /\ Len(g) = j /\ \A i \in 1..j : g[i] = Pdu((m + k) + i)
  <2>1. m + k \in Nat
    OBVIOUS
  <2> QED
    BY <2>1, RunIsSequence
<1>3. h \in Seq(X) /\ Len(h) = k + j /\ \A i \in 1..(k + j) : h[i] = Pdu(m + i)
  <2>1. k + j \in Nat
    OBVIOUS
  <2> QED
    BY <2>1, RunIsSequence
<1> HIDE DEF f, g, h, X
<1>4. x \in Seq(X) /\ Len(x) = k + j
      /\ \A i \in 1..(k + j) : x[i] = IF i <= k THEN f[i] ELSE g[i - k]
  <2>1. f \in Seq(X) /\ g \in Seq(X) /\ Len(f) = k /\ Len(g) = j
    BY <1>1, <1>2
  <2>2. x \in Seq(X) /\ Len(x) = k + j
    BY <2>1
  <2>3. \A i \in 1..(Len(f) + Len(g)) : x[i] = IF i <= Len(f) THEN f[i] ELSE g[i - Len(f)]
    BY <2>1
  <2> QED
    BY <2>1, <2>2, <2>3
<1> HIDE DEF x
<1>5. ASSUME NEW i \in 1..(k + j)
      PROVE  x[i] = h[i]
  <2>1. CASE i <= k
    <3>1. i \in 1..k
      BY <2>1
    <3> QED
      BY <1>1, <1>3, <1>4, <2>1, <3>1
  <2>2. CASE ~(i <= k)
    <3>1. i - k \in 1..j /\ (m + k) + (i - k) = m + i
      BY <2>2
    <3> QED
      BY <1>2, <1>3, <1>4, <2>2, <3>1
  <2> QED
    BY <2>1, <2>2
<1>6. x = h
  BY <1>3, <1>4, <1>5, SameSequence
<1> QED
  BY <1>6 DEF x, f, g, h

LEMMA RunOnPath ==
    ASSUME NEW m \in Nat, NEW k \in Nat
    PROVE  Data(Run(m, k)) = Burst("data", m, k)
<1>1. DOMAIN Run(m, k) = 1..k /\ \A i \in 1..k : Run(m, k)[i] = Pdu(m + i)
  BY DEF Run
<1>2. Data(Run(m, k)) = [i \in 1..k |-> [type |-> "data", pdu |-> Run(m, k)[i]]]
  BY <1>1 DEF Data
<1>3. \A i \in 1..k : [type |-> "data", pdu |-> Run(m, k)[i]] = Message("data", m + i)
  BY <1>1 DEF Message
<1> QED
  BY <1>2, <1>3 DEF Burst

(* The window lets a run out up to its edge.                               *)
LEMMA OpenRun ==
    ASSUME NEW p, NEW m \in Nat, NEW k \in Nat, NEW edge \in Nat
    PROVE  LET j == S(p)!OpenPrefix(Run(m, k), edge)
           IN  /\ j \in 0..k
               /\ j > 0 => m + j <= edge
               /\ j < k => edge <= m + j
<1> DEFINE q == Run(m, k)
           T == {j \in 0..Len(q) : j < Len(q) => q[j + 1].seq > edge}
           j == S(p)!OpenPrefix(q, edge)
<1>1. Len(q) = k /\ \A i \in 1..k : q[i] = Pdu(m + i)
  BY RunIsSequence
<1>2. \A i \in 1..k : q[i].seq = m + i
  BY <1>1 DEF Pdu
<1>3. j = Min(T)
  BY DEF S!OpenPrefix, S!Min, Min
<1> HIDE DEF q
<1>4. \A i : i \in T <=> i \in 0..k /\ (i < k => q[i + 1].seq > edge)
  BY <1>1
<1>5. T \in SUBSET Nat /\ k \in T
  BY <1>1
<1> HIDE DEF T, j
<1>6. j \in T /\ \A i \in T : j <= i
  BY <1>3, <1>5, MinOfNats
<1>7. j \in 0..k
  BY <1>4, <1>6
<1>8. j < k => edge <= m + j
  <2> SUFFICES ASSUME j < k PROVE edge <= m + j
    OBVIOUS
  <2>1. j + 1 \in 1..k
    BY <1>7
  <2>2. q[j + 1].seq > edge /\ q[j + 1].seq = m + (j + 1)
    BY <1>2, <1>4, <1>6, <2>1
  <2> QED
    BY <1>7, <2>2
<1>9. j > 0 => m + j <= edge
  <2> SUFFICES ASSUME j > 0 PROVE m + j <= edge
    OBVIOUS
  <2>1. j - 1 \in 0..k /\ j - 1 < k /\ (j - 1) + 1 = j /\ j \in 1..k /\ ~(j <= j - 1)
    BY <1>7
  <2>2. j - 1 \notin T
    BY <1>6, <2>1
  <2>3. ~(q[j].seq > edge) /\ q[j].seq = m + j
    BY <1>2, <1>4, <2>1, <2>2
  <2> QED
    BY <1>7, <2>3
<1> QED
  BY <1>7, <1>8, <1>9 DEF j, q

-----------------------------------------------------------------------------
(* The sender, whose queues are determined by three numbers: of the PDUs   *)
(* it numbered, sent and heard of.                                         *)

(* A sender that numbered n PDUs, sent m of them, and heard of a.          *)
Sending(p, s, n, m, a) ==
    /\ s \in S(p)!SndState
    /\ s.nextSeqNumToSend = n + 1
    /\ s.setDRFFlag = (n = 0)
    /\ s.lastSeqNumSent = m
    /\ s.closedWindowQ = Run(m, n - m)
    /\ n > m => WindowFcOn /\ s.sndRtWinEdge <= m
    /\ s.rxQ = Copies(a, m)
    /\ s.rxTurn = m + 1
    /\ s.lastControlSeqNumRcv = a

LEMMA NotWrapped ==
    ASSUME NEW p, NEW n \in 0..(Modulus - 1)
    PROVE  S(p)!UInt(n) = n
<1>1. (n + Modulus) % Modulus = n
  BY QoSAssumption
<1> QED
  BY <1>1 DEF S!UInt

LEMMA CopiesAreKept ==
    ASSUME NEW p, NEW a \in Nat, NEW m \in Nat, m <= MaxSeq
    PROVE  Copies(a, m) \in SUBSET S(p)!RxEntry
<1>1. \A i \in (a + 1)..m : Pdu(i) \in DataPDU /\ i \in Nat
  <2>1. \A i \in (a + 1)..m : i \in Nat /\ i <= MaxSeq
    BY QoSAssumption
  <2> QED
    BY <2>1, PduIsPDU
<1>2. S(p)!DataPDU = DataPDU
  BY DEF S!DataPDU, DataPDU, S!SeqNum, SeqNum
<1> QED
  BY <1>1, <1>2 DEF Copies, Copy, S!RxEntry

(* The sender's left edge, which nothing else depends on. *)
Edged(s, x) == [s EXCEPT !.senderLeftWinEdge = x]

LEMMA EdgeFound ==
    ASSUME NEW p, NEW s, NEW a \in Nat, NEW m \in Nat, m <= MaxSeq,
           s.rxQ = Copies(a, m), NEW n \in 0..(Modulus - 1)
    PROVE  \E x \in 0..(Modulus - 1) :
              S(p)!UpdateSndLWE(s, n) = Edged(s, x)
<1> DEFINE Q == Copies(a, m)
           c == CHOOSE e \in Q : \A f \in Q : e.turn <= f.turn
           x == IF Q = {} THEN n ELSE c.pdu.seq
<1>1. S(p)!UpdateSndLWE(s, n) = Edged(s, x)
  BY DEF S!UpdateSndLWE, Edged
<1>2. x \in 0..(Modulus - 1)
  <2>1. CASE Q = {}
    BY <2>1
  <2>2. CASE Q # {}
    <3>1. a + 1 \in (a + 1)..m
      BY <2>2 DEF Copies
    <3>2. Copy(a + 1) \in Q
      BY <3>1 DEF Copies
    <3>3. \A f \in Q : Copy(a + 1).turn <= f.turn
      BY DEF Copies, Copy
    <3>4. c \in Q
      <4> HIDE DEF Q
      <4> QED
        BY <3>2, <3>3
    <3> HIDE DEF c
    <3>5. PICK i \in (a + 1)..m : c = Copy(i)
      BY <3>4 DEF Copies
    <3>6. c.pdu.seq = i
      BY <3>5 DEF Copy, Pdu
    <3> HIDE DEF Q
    <3> QED
      BY <2>2, <3>6, QoSAssumption
  <2> QED
    BY <2>1, <2>2
<1> QED
  BY <1>1, <1>2

LEMMA CopiesJoin ==
    ASSUME NEW a \in Nat, NEW m \in Nat, a <= m, NEW n \in Nat, m <= n
    PROVE  Copies(a, m) \union Copies(m, n) = Copies(a, n)
<1>1. \A i : i \in (a + 1)..n <=> i \in (a + 1)..m \/ i \in (m + 1)..n
  OBVIOUS
<1> QED
  BY <1>1 DEF Copies

(* What sending the PDUs up to m leaves a sender with. *)
After(s, a, m, x) ==
    [s EXCEPT !.lastSeqNumSent = m, !.rxQ = Copies(a, m), !.rxTurn = m + 1,
              !.senderLeftWinEdge = x]

(* The end of DTP::trySendGenPDUs on the PDUs that come next.              *)
LEMMA RunPosted ==
    ASSUME Lossless, NEW p, NEW s \in S(p)!SndState,
           NEW a \in Nat, NEW m \in Nat, NEW k \in Nat, a <= m, m + k <= MaxSeq,
           s.lastSeqNumSent = m, s.rxQ = Copies(a, m), s.rxTurn = m + 1
    PROVE  \E x \in 0..(Modulus - 1) :
              S(p)!Post(s, Run(m, k)) = After(s, a, m + k, x)
<1> DEFINE tx == Run(m, k)
           b == S(p)!PushBackToRxQ(s, tx)
           t == S(p)!SendToRMT(b, tx)
<1>1. Len(tx) = k /\ (\A i \in 1..k : tx[i] = Pdu(m + i)) /\ (tx = <<>> <=> k = 0)
  BY RunIsSequence
<1> HIDE DEF tx
<1>2. {[pdu |-> tx[i], expiryCount |-> 0, turn |-> s.rxTurn + i - 1] : i \in 1..Len(tx)}
        = Copies(m, m + k)
  <2> DEFINE f(i) == [pdu |-> tx[i], expiryCount |-> 0, turn |-> s.rxTurn + i - 1]
  <2>1. ASSUME NEW i \in 1..k
        PROVE  f(i) = Copy(m + i) /\ m + i \in (m + 1)..(m + k)
    <3>1. s.rxTurn + i - 1 = m + i /\ tx[i] = Pdu(m + i)
      BY <1>1
    <3> QED
      BY <3>1 DEF Copy
  <2>2. ASSUME NEW i \in (m + 1)..(m + k)
        PROVE  Copy(i) = f(i - m) /\ i - m \in 1..k
    <3>1. i - m \in 1..k /\ m + (i - m) = i
      OBVIOUS
    <3> HIDE DEF f
    <3> QED
      BY <2>1, <3>1
  <2> HIDE DEF f
  <2>3. {f(i) : i \in 1..k} = {Copy(i) : i \in (m + 1)..(m + k)}
    BY <2>1, <2>2
  <2> QED
    BY <1>1, <2>3 DEF Copies, f
<1>3. b = [s EXCEPT !.rxQ = Copies(a, m + k), !.rxTurn = m + k + 1]
  <2>1. s.rxTurn + Len(tx) = m + k + 1
    BY <1>1
  <2>2. b = [s EXCEPT !.rxQ = Copies(a, m) \union Copies(m, m + k), !.rxTurn = s.rxTurn + Len(tx)]
    BY <1>2 DEF S!PushBackToRxQ
  <2>3. Copies(a, m) \union Copies(m, m + k) = Copies(a, m + k)
    <3>1. m + k \in Nat /\ m <= m + k
      OBVIOUS
    <3> HIDE DEF b, t
    <3> QED
      BY <3>1, CopiesJoin
  <2> HIDE DEF b
  <2> QED
    BY <2>1, <2>2, <2>3
<1> HIDE DEF b
<1>4. t = [s EXCEPT !.lastSeqNumSent = m + k, !.rxQ = Copies(a, m + k), !.rxTurn = m + k + 1]
  <2>1. CASE k = 0
    <3>1. t = b /\ m + k = s.lastSeqNumSent
      BY <1>1, <2>1 DEF S!SendToRMT
    <3> HIDE DEF t
    <3> QED
      BY <1>3, <3>1 DEF S!SndState
  <2>2. CASE k # 0
    <3>1. k \in 1..k
      BY <2>2
    <3>2. tx[Len(tx)].seq = m + k
      BY <1>1, <3>1 DEF Pdu
    <3>3. t = [b EXCEPT !.lastSeqNumSent = m + k]
      BY <1>1, <2>2, <3>2 DEF S!SendToRMT
    <3> QED
      BY <1>3, <3>3 DEF S!SndState
  <2> QED
    BY <2>1, <2>2
<1> HIDE DEF t
<1>5. t.rxQ = Copies(a, m + k) /\ t.lastSeqNumSent = m + k
  BY <1>4 DEF S!SndState
<1>6. m + k \in 0..(Modulus - 1) /\ m + k \in Nat
  BY QoSAssumption
<1>7. PICK x \in 0..(Modulus - 1) :
        S(p)!UpdateSndLWE(t, m + k) = Edged(t, x)
  <2> DEFINE j == m + k
  <2>1. t.rxQ = Copies(a, j) /\ j \in Nat /\ j <= MaxSeq /\ j \in 0..(Modulus - 1)
    BY <1>5, <1>6
  <2> HIDE DEF j
  <2>2. \E x \in 0..(Modulus - 1) :
           S(p)!UpdateSndLWE(t, j) = Edged(t, x)
    BY <2>1, EdgeFound
  <2> QED
    BY <2>2 DEF j
<1>8. S(p)!Post(s, tx) = S(p)!UpdateSndLWE(t, m + k)
  BY <1>5 DEF S!Post, S!DtcpPresent, Lossless, t, b
<1>9. S(p)!Post(s, tx) = After(s, a, m + k, x)
  BY <1>4, <1>7, <1>8 DEF S!SndState, Edged, After
<1> QED
  BY <1>9 DEF tx

LEMMA EmptyRun ==
    ASSUME NEW m \in Nat
    PROVE  Run(m, 0) = <<>>
BY RunIsSequence

LEMMA SendingTo ==
    ASSUME NEW p, NEW n \in Nat, NEW m \in Nat, NEW a \in Nat, a <= m, m <= n, n <= MaxSeq,
           NEW t \in S(p)!SndState,
           t.nextSeqNumToSend = n + 1, t.setDRFFlag = (n = 0),
           t.closedWindowQ = Run(m, n - m),
           n > m => WindowFcOn /\ t.sndRtWinEdge <= m,
           t.lastControlSeqNumRcv = a, NEW x \in 0..(Modulus - 1)
    PROVE  Sending(p, After(t, a, m, x), n, m, a)
<1> DEFINE u == After(t, a, m, x)
<1>1. Copies(a, m) \in SUBSET S(p)!RxEntry /\ m \in S(p)!SeqNum /\ m + 1 \in Nat
  BY CopiesAreKept, QoSAssumption DEF S!SeqNum
<1>2. u \in S(p)!SndState
  BY <1>1 DEF S!SndState, After
<1>3. /\ u.nextSeqNumToSend = n + 1 /\ u.setDRFFlag = t.setDRFFlag
      /\ u.lastSeqNumSent = m /\ u.closedWindowQ = t.closedWindowQ
      /\ u.sndRtWinEdge = t.sndRtWinEdge /\ u.rxQ = Copies(a, m) /\ u.rxTurn = m + 1
      /\ u.lastControlSeqNumRcv = a
  BY DEF S!SndState, After
<1> HIDE DEF u
<1> QED
  BY <1>2, <1>3 DEF Sending, u

(* DTP::handleMsgFromDelimiting on the next SDU. *)
LEMMA NextIsWritten ==
    ASSUME Lossless, NEW p, NEW n \in Nat, NEW m \in Nat, NEW a \in Nat,
           a <= m, m <= n, n + 1 <= MaxSeq, NEW s, Sending(p, s, n, m, a)
    PROVE  LET o == S(p)!TrySendGenerated(S(p)!Numbered(s, 1), S(p)!Generated(s, 1))
           IN  \E k \in 0..1 : /\ m + k <= n + 1
                               /\ o.tx = Run(m, k)
                               /\ Sending(p, o.st, n + 1, m + k, a)
<1> DEFINE t == S(p)!Numbered(s, 1)
           q == S(p)!Generated(s, 1)
           o == S(p)!TrySendGenerated(t, q)
           edge == s.sndRtWinEdge
           P(x) == \E k \in 0..1 : /\ m + k <= n + 1 /\ x.tx = Run(m, k)
                                   /\ Sending(p, x.st, n + 1, m + k, a)
<1>1. /\ s \in S(p)!SndState /\ s.nextSeqNumToSend = n + 1 /\ s.setDRFFlag = (n = 0)
      /\ s.lastSeqNumSent = m /\ s.closedWindowQ = Run(m, n - m)
      /\ n > m => WindowFcOn /\ edge <= m
      /\ s.rxQ = Copies(a, m) /\ s.rxTurn = m + 1 /\ s.lastControlSeqNumRcv = a
      /\ edge \in Nat
  BY DEF Sending, S!SndState
<1>2. /\ t \in S(p)!SndState /\ t.nextSeqNumToSend = (n + 1) + 1 /\ t.setDRFFlag = FALSE
      /\ t.lastSeqNumSent = m /\ t.closedWindowQ = Run(m, n - m) /\ t.sndRtWinEdge = edge
      /\ t.rxQ = Copies(a, m) /\ t.rxTurn = m + 1 /\ t.lastControlSeqNumRcv = a
  <2>1. t = [s EXCEPT !.nextSeqNumToSend = (n + 1) + 1, !.setDRFFlag = FALSE]
    BY <1>1 DEF S!Numbered
  <2>2. (n + 1) + 1 \in 1..(MaxSeq + 1)
    BY QoSAssumption
  <2> HIDE DEF t
  <2> QED
    BY <1>1, <2>1, <2>2 DEF S!SndState
<1>3. q = Run(n, 1)
  <2>1. q = [i \in 1..1 |-> [seq |-> (n + 1) + i - 1, drf |-> (n = 0) /\ i = 1, empty |-> FALSE]]
    BY <1>1 DEF S!Generated
  <2>2. ASSUME NEW i \in 1..1
        PROVE  (n + 1) + i - 1 = n + i /\ ((n = 0) /\ i = 1) = (n + i = 1)
    OBVIOUS
  <2>3. \A i \in 1..1 : [seq |-> (n + 1) + i - 1, drf |-> (n = 0) /\ i = 1, empty |-> FALSE]
                        = Pdu(n + i)
    BY <2>2 DEF Pdu
  <2> HIDE DEF q
  <2> QED
    BY <2>1, <2>3 DEF Run
<1> HIDE DEF t, q, edge
<1>4. (FALSE) = (n + 1 = 0) /\ n + 1 \in Nat /\ m + 0 = m /\ m + 1 \in Nat
  OBVIOUS
<1>5. ASSUME ~WindowFcOn
      PROVE  P(o)
  <2>1. n = m
    BY <1>1, <1>5
  <2>2. o.st = S(p)!Post(t, Run(m, 1)) /\ o.tx = Run(m, 1)
    BY <1>3, <1>5, <2>1 DEF S!TrySendGenerated, S!Outcome
  <2>3. PICK x \in 0..(Modulus - 1) : S(p)!Post(t, Run(m, 1)) = After(t, a, m + 1, x)
    BY <1>2, <2>1, RunPosted
  <2>4. t.closedWindowQ = Run(m + 1, (n + 1) - (m + 1))
    <3>1. n - m = 0 /\ (n + 1) - (m + 1) = 0
      BY <2>1
    <3> QED
      BY <1>2, <1>4, <3>1, EmptyRun
  <2> HIDE DEF o
  <2>5. Sending(p, After(t, a, m + 1, x), n + 1, m + 1, a)
    <3>1. a <= m + 1 /\ m + 1 <= n + 1 /\ ~(n + 1 > m + 1)
      BY <2>1
    <3> QED
      BY <1>2, <1>4, <2>4, <3>1, SendingTo
  <2>6. 1 \in 0..1 /\ m + 1 <= n + 1
    OBVIOUS
  <2> QED
    BY <2>2, <2>3, <2>5, <2>6
<1>6. ASSUME WindowFcOn
      PROVE  P(o)
  <2> DEFINE j == S(p)!OpenPrefix(q, edge)
             sent == SubSeq(q, 1, j)
             held == SubSeq(q, j + 1, Len(q))
             h == S(p)!Hold(t, j, held)
  <2>1. o.st = S(p)!Post(h, sent) /\ o.tx = sent
    BY <1>2, <1>6 DEF S!TrySendGenerated, S!Outcome
  <2>2. j \in 0..1 /\ (j > 0 => n + j <= edge) /\ (j < 1 => edge <= n + j)
    BY <1>1, <1>3, OpenRun
  <2> HIDE DEF j
  <2>3. sent = Run(n, j) /\ held = Run(n + j, 1 - j)
    <3>1. /\ SubSeq(Run(n, 1), 1, j) = Run(n, j)
          /\ SubSeq(Run(n, 1), j + 1, Len(Run(n, 1))) = Run(n + j, 1 - j)
      <4>1. n \in Nat /\ 1 \in Nat /\ j \in 0..1
        BY <2>2
      <4> QED
        BY <4>1, RunCut, Zenon
    <3> QED
      BY <1>3, <3>1
  <2> HIDE DEF sent, held
  <2> DEFINE c == Run(m, n - m) \o held
  <2>4. \E w, b \in BOOLEAN : h = [t EXCEPT !.closedWindowQ = c, !.closedWindow = w,
                                            !.blockingPort = b]
    <3> DEFINE w == \/ t.closedWindow
                    \/ held # <<>>
                    \/ j > 0 /\ Len(t.closedWindowQ) >= MaxClosedWinQueLen
               b == \/ t.blockingPort
                    \/ /\ held # <<>>
                       /\ S(p)!Overruns(Len(t.closedWindowQ) + Len(held) - 1)
    <3>1. h = [t EXCEPT !.closedWindowQ = t.closedWindowQ \o held, !.closedWindow = w,
                        !.blockingPort = b]
      BY Zenon DEF S!Hold
    <3>2. w \in BOOLEAN /\ b \in BOOLEAN
      OBVIOUS
    <3> HIDE DEF w, b, h
    <3> QED
      BY <1>2, <3>1, <3>2
  <2> HIDE DEF h
  <2>5. ASSUME c \in Seq(DataPDU)
        PROVE  /\ h \in S(p)!SndState /\ h.nextSeqNumToSend = (n + 1) + 1 /\ h.setDRFFlag = FALSE
               /\ h.lastSeqNumSent = m /\ h.closedWindowQ = c /\ h.sndRtWinEdge = edge
               /\ h.rxQ = Copies(a, m) /\ h.rxTurn = m + 1 /\ h.lastControlSeqNumRcv = a
    <3>1. S(p)!DataPDU = DataPDU
      BY DEF S!DataPDU, DataPDU, S!SeqNum, SeqNum
    <3> HIDE DEF c
    <3> QED
      BY <1>2, <2>4, <2>5, <3>1 DEF S!SndState
  <2> HIDE DEF o
  <2>6. CASE j = 1
    <3>1. n = m
      BY <1>1, <2>2, <2>6
    <3>2. c = <<>> /\ c \in Seq(DataPDU) /\ c = Run(m + 1, (n + 1) - (m + 1))
      <4>1. n - m = 0 /\ 1 - j = 0 /\ n + j \in Nat /\ (n + 1) - (m + 1) = 0
        BY <2>6, <3>1
      <4>2. Run(m, n - m) = <<>> /\ held = <<>> /\ Run(m + 1, (n + 1) - (m + 1)) = <<>>
        BY <1>4, <2>3, <4>1, EmptyRun
      <4>3. <<>> \o <<>> = <<>> /\ <<>> \in Seq(DataPDU)
        OBVIOUS
      <4>4. c = <<>> \o <<>>
        BY <4>2
      <4> HIDE DEF c
      <4> QED
        BY <4>2, <4>3, <4>4
    <3> HIDE DEF c
    <3>3. PICK x \in 0..(Modulus - 1) : S(p)!Post(h, Run(m, 1)) = After(h, a, m + 1, x)
      BY <2>5, <3>1, <3>2, RunPosted
    <3>4. Sending(p, After(h, a, m + 1, x), n + 1, m + 1, a)
      <4>1. a <= m + 1 /\ m + 1 <= n + 1 /\ ~(n + 1 > m + 1)
        BY <3>1
      <4> QED
        BY <1>4, <2>5, <3>2, <4>1, SendingTo
    <3>5. sent = Run(m, 1) /\ 1 \in 0..1 /\ m + 1 <= n + 1
      BY <2>3, <2>6, <3>1
    <3> QED
      BY <2>1, <3>3, <3>4, <3>5
  <2>7. CASE j = 0
    <3>1. c = Run(m, (n + 1) - m) /\ c \in Seq(DataPDU)
      <4>1. /\ m + (n - m) = n + j /\ 1 - j = 1 /\ (n - m) + 1 = (n + 1) - m
            /\ n - m \in Nat /\ m + ((n + 1) - m) <= MaxSeq /\ (n + 1) - m \in Nat
        BY <2>7
      <4>2. Run(m, n - m) \o Run(m + (n - m), 1) = Run(m, (n - m) + 1)
        BY <4>1, RunJoin
      <4>3. c = Run(m, (n + 1) - m)
        BY <2>3, <4>1, <4>2
      <4> QED
        BY <4>1, <4>3, RunIsSequence
    <3> HIDE DEF c
    <3>2. PICK x \in 0..(Modulus - 1) : S(p)!Post(h, Run(m, 0)) = After(h, a, m + 0, x)
      <4> DEFINE z == 0
      <4>1. m + z <= MaxSeq /\ z \in Nat
        BY QoSAssumption
      <4> HIDE DEF z
      <4>2. \E x \in 0..(Modulus - 1) : S(p)!Post(h, Run(m, z)) = After(h, a, m + z, x)
        BY <2>5, <3>1, <4>1, RunPosted
      <4> QED
        BY <4>2 DEF z
    <3>3. edge <= m
      BY <1>1, <2>2, <2>7
    <3>4. Sending(p, After(h, a, m, x), n + 1, m, a)
      <4>1. m <= n + 1
        OBVIOUS
      <4> QED
        BY <1>4, <1>6, <2>5, <3>1, <3>3, <4>1, SendingTo
    <3>5. sent = Run(m, 0) /\ 0 \in 0..1 /\ m + 0 <= n + 1
      BY <2>3, <2>7, EmptyRun
    <3> QED
      BY <1>4, <2>1, <3>2, <3>4, <3>5
  <2> QED
    BY <2>2, <2>6, <2>7
<1>7. P(o)
  BY <1>5, <1>6
<1> QED
  BY <1>7 DEF o, t, q

LEMMA CopiesOutstanding ==
    ASSUME NEW p, NEW a \in Nat, NEW m \in Nat, NEW s, s.rxQ = Copies(a, m)
    PROVE  S(p)!Outstanding(s) = (a + 1)..m
<1>1. \A i \in (a + 1)..m : Copy(i).pdu.seq = i
  BY DEF Copy, Pdu
<1>2. {e.pdu.seq : e \in Copies(a, m)} = (a + 1)..m
  BY <1>1 DEF Copies
<1> QED
  BY <1>2 DEF S!Outstanding

LEMMA FirstCopyAcked ==
    ASSUME Lossless, NEW p, NEW a \in Nat, NEW m \in Nat, a + 1 <= m, m <= MaxSeq,
           NEW s, s.rxQ = Copies(a, m)
    PROVE  S(p)!AckPDU(s, a + 1) = [s EXCEPT !.rxQ = Copies(a + 1, m)]
<1>1. (a + 1) + MaxAllowGap = a + 1 /\ a + 1 \in 0..(Modulus - 1)
  BY QoSAssumption DEF Lossless
<1>2. S(p)!UInt((a + 1) + MaxAllowGap) = a + 1
  BY <1>1, NotWrapped
<1>3. S(p)!AckedBy(s, a + 1) = {e \in Copies(a, m) : e.pdu.seq <= a + 1}
  BY <1>2 DEF S!AckedBy
<1>4. \A i \in (a + 1)..m : Copy(i).pdu.seq = i
  BY DEF Copy, Pdu
<1>5. Copies(a, m) \ {e \in Copies(a, m) : e.pdu.seq <= a + 1} = Copies(a + 1, m)
  <2>1. \A i : i \in ((a + 1) + 1)..m <=> i \in (a + 1)..m /\ ~(i <= a + 1)
    OBVIOUS
  <2> QED
    BY <1>4, <2>1 DEF Copies
<1> QED
  BY <1>3, <1>5 DEF S!AckPDU

(* The window opens to edge for a sender with PDUs waiting. *)
LEMMA RunReleased ==
    ASSUME Lossless, WindowFcOn, NEW p, NEW n \in Nat, NEW m \in Nat, NEW a \in Nat,
           a <= m, m <= n, n <= MaxSeq, NEW s, Sending(p, s, n, m, a), NEW edge \in Nat
    PROVE  LET o == S(p)!FlowControlled(s, edge)
           IN  \E k \in Nat : /\ m + k <= n
                              /\ o.tx = Run(m, k)
                              /\ Sending(p, o.st, n, m + k, a)
<1> DEFINE q == s.closedWindowQ
           opened == [s EXCEPT !.sndRtWinEdge = edge]
           j == S(p)!OpenPrefix(q, edge)
           sent == SubSeq(q, 1, j)
           rest == SubSeq(q, j + 1, Len(q))
           r == S(p)!Released(opened, j)
           o == S(p)!FlowControlled(s, edge)
           l == n - m
           P(x) == \E k \in Nat : /\ m + k <= n
                                  /\ x.tx = Run(m, k)
                                  /\ Sending(p, x.st, n, m + k, a)
<1>1. /\ s \in S(p)!SndState /\ s.nextSeqNumToSend = n + 1 /\ s.setDRFFlag = (n = 0)
      /\ s.lastSeqNumSent = m /\ q = Run(m, l)
      /\ s.rxQ = Copies(a, m) /\ s.rxTurn = m + 1 /\ s.lastControlSeqNumRcv = a
      /\ l \in Nat
  BY DEF Sending
<1>2. /\ opened \in S(p)!SndState /\ opened.nextSeqNumToSend = n + 1
      /\ opened.setDRFFlag = (n = 0) /\ opened.lastSeqNumSent = m /\ opened.closedWindowQ = q
      /\ opened.rxQ = Copies(a, m) /\ opened.rxTurn = m + 1 /\ opened.lastControlSeqNumRcv = a
      /\ opened.sndRtWinEdge = edge
  BY <1>1 DEF S!SndState
<1> HIDE DEF opened, q, l
<1>3. ASSUME q = <<>>
      PROVE  P(o)
  <2>1. l = 0
    <3>1. Run(m, l) = <<>> /\ m \in Nat /\ l \in Nat
      BY <1>1, <1>3
    <3>2. Run(m, l) = <<>> <=> l = 0
      BY <3>1, RunIsSequence
    <3> QED
      BY <3>1, <3>2
  <2>2. n = m /\ m + 0 = m /\ 0 \in Nat
    BY <2>1 DEF l
  <2>3. o.st = opened /\ o.tx = <<>>
    BY <1>3 DEF S!FlowControlled, S!Outcome, opened, q
  <2>4. Sending(p, opened, n, m, a)
    <3>1. ~(n > m)
      BY <2>2
    <3> QED
      BY <1>1, <1>2, <3>1 DEF Sending, l
  <2> HIDE DEF o
  <2> QED
    BY <2>2, <2>3, <2>4, EmptyRun
<1>4. ASSUME q # <<>>
      PROVE  P(o)
  <2>1. o.st = S(p)!Post(r, sent) /\ o.tx = sent
    BY <1>4 DEF S!FlowControlled, S!Outcome, opened, q
  <2>2. j \in 0..l /\ (j < l => edge <= m + j)
    BY <1>1, OpenRun
  <2> HIDE DEF j
  <2>3. sent = Run(m, j) /\ rest = Run(m + j, l - j)
    <3>1. /\ SubSeq(Run(m, l), 1, j) = Run(m, j)
          /\ SubSeq(Run(m, l), j + 1, Len(Run(m, l))) = Run(m + j, l - j)
      BY <1>1, <2>2, RunCut, Zenon
    <3> QED
      BY <1>1, <3>1
  <2>4. /\ j \in Nat /\ m + j \in Nat /\ m + j <= n /\ l - j = n - (m + j) /\ l - j \in Nat
        /\ (m + j) + (l - j) <= MaxSeq /\ a <= m + j /\ m + j <= MaxSeq
        /\ (n > m + j => edge <= m + j)
    BY <2>2, QoSAssumption DEF l
  <2>5. rest \in Seq(DataPDU) /\ rest = Run(m + j, n - (m + j))
    <3>1. Run(m + j, l - j) \in Seq(DataPDU)
      BY <2>4, RunIsSequence
    <3> QED
      BY <2>3, <2>4, <3>1
  <2> HIDE DEF o, sent
  <2>6. \E w, b \in BOOLEAN : r = [opened EXCEPT !.closedWindowQ = rest, !.closedWindow = w,
                                                 !.blockingPort = b]
    <3> DEFINE w == rest # <<>> \/ (j > 0 /\ MaxClosedWinQueLen = 0)
               b == opened.blockingPort /\ Len(rest) >= MaxClosedWinQueLen
    <3>1. rest = SubSeq(opened.closedWindowQ, j + 1, Len(opened.closedWindowQ))
      BY <1>2
    <3>2. r = [opened EXCEPT !.closedWindowQ = rest, !.closedWindow = w, !.blockingPort = b]
      <4> HIDE DEF rest
      <4> QED
        BY <3>1, Zenon DEF S!Released
    <3>3. w \in BOOLEAN /\ b \in BOOLEAN
      OBVIOUS
    <3> HIDE DEF w, b, r, rest
    <3> QED
      BY <3>2, <3>3
  <2> HIDE DEF r, rest
  <2>7. /\ r \in S(p)!SndState /\ r.nextSeqNumToSend = n + 1 /\ r.setDRFFlag = (n = 0)
        /\ r.lastSeqNumSent = m /\ r.closedWindowQ = rest /\ r.sndRtWinEdge = edge
        /\ r.rxQ = Copies(a, m) /\ r.rxTurn = m + 1 /\ r.lastControlSeqNumRcv = a
    <3>1. S(p)!DataPDU = DataPDU
      BY DEF S!DataPDU, DataPDU, S!SeqNum, SeqNum
    <3> QED
      BY <1>2, <2>5, <2>6, <3>1 DEF S!SndState
  <2>8. PICK x \in 0..(Modulus - 1) : S(p)!Post(r, Run(m, j)) = After(r, a, m + j, x)
    BY <2>4, <2>7, RunPosted
  <2>9. Sending(p, After(r, a, m + j, x), n, m + j, a)
    <3> DEFINE y == m + j
    <3>1. /\ y \in Nat /\ a <= y /\ y <= n /\ (n > y => edge <= y)
          /\ rest = Run(y, n - y)
      BY <2>4, <2>5
    <3> HIDE DEF y
    <3>2. Sending(p, After(r, a, y, x), n, y, a)
      BY <2>7, <3>1, SendingTo
    <3> QED
      BY <3>2 DEF y
  <2> QED
    BY <2>1, <2>3, <2>4, <2>8, <2>9
<1>5. P(o)
  BY <1>3, <1>4
<1> QED
  BY <1>5 DEF o

(* The control part of DTP::handleMsgFromRMT on the answer that comes next. *)
LEMMA NextIsHeard ==
    ASSUME Lossless, NEW p, NEW n \in Nat, NEW m \in Nat, NEW a \in Nat,
           a + 1 <= m, m <= n, n <= MaxSeq, NEW s, Sending(p, s, n, m, a)
    PROVE  LET c == Answer(a + 1)
               o == S(p)!HandleControl(s, c)
           IN  /\ ~S(p)!LostControl(s, c)
               /\ o.lead = <<>>
               /\ S(p)!Outstanding(S(p)!Numbering(s, c)) \ S(p)!Outstanding(o.st) = {a + 1}
               /\ \E k \in Nat : /\ m + k <= n
                                 /\ o.tx = Run(m, k)
                                 /\ Sending(p, o.st, n, m + k, a + 1)
<1> DEFINE c == Answer(a + 1)
           s1 == S(p)!Numbering(s, c)
           b == S(p)!AckPDU(s1, c.ack)
           s2 == S(p)!SenderAck(s1, c.ack)
           fc == S(p)!FlowControlled(s2, c.rwe)
           o == S(p)!HandleControl(s, c)
           P(x) == \E k \in Nat : /\ m + k <= n
                                  /\ x.tx = Run(m, k)
                                  /\ Sending(p, x.st, n, m + k, a + 1)
<1>1. /\ s \in S(p)!SndState /\ s.nextSeqNumToSend = n + 1 /\ s.setDRFFlag = (n = 0)
      /\ s.lastSeqNumSent = m /\ s.closedWindowQ = Run(m, n - m)
      /\ n > m => WindowFcOn /\ s.sndRtWinEdge <= m
      /\ s.rxQ = Copies(a, m) /\ s.rxTurn = m + 1 /\ s.lastControlSeqNumRcv = a
  BY DEF Sending
<1>2. /\ c.seq = a + 1 /\ c.ack = a + 1
      /\ c.kind = IF WindowFcOn THEN "ackFlow" ELSE "ackOnly"
      /\ WindowFcOn => c.rwe = RcvCredit + (a + 1) /\ c.rwe \in Nat
  BY ConnectionAssumption DEF Answer, Credit
<1> HIDE DEF c
<1>3. ~S(p)!LostControl(s, c) /\ ~S(p)!DuplicateControl(s, c)
  BY <1>1, <1>2 DEF S!LostControl, S!DuplicateControl
<1>4. s1 = [s EXCEPT !.lastControlSeqNumRcv = a + 1]
  BY <1>2, <1>3 DEF S!Numbering
<1>5. /\ s1 \in S(p)!SndState /\ s1.nextSeqNumToSend = n + 1 /\ s1.setDRFFlag = (n = 0)
      /\ s1.lastSeqNumSent = m /\ s1.closedWindowQ = Run(m, n - m)
      /\ s1.sndRtWinEdge = s.sndRtWinEdge
      /\ s1.rxQ = Copies(a, m) /\ s1.rxTurn = m + 1 /\ s1.lastControlSeqNumRcv = a + 1
  <2>1. a + 1 \in Nat
    OBVIOUS
  <2> HIDE DEF s1
  <2> QED
    BY <1>1, <1>4, <2>1 DEF S!SndState
<1> HIDE DEF s1
<1>6. /\ a + 1 \in Nat /\ m <= MaxSeq /\ (a + 1) + 1 \in 0..(Modulus - 1)
      /\ S(p)!UInt((a + 1) + 1) = (a + 1) + 1
  <2>1. a + 1 \in Nat /\ m <= MaxSeq /\ (a + 1) + 1 \in 0..(Modulus - 1)
    BY QoSAssumption
  <2> QED
    BY <2>1, NotWrapped
<1>7. b = [s1 EXCEPT !.rxQ = Copies(a + 1, m)]
  BY <1>2, <1>5, <1>6, FirstCopyAcked
<1>8. /\ b \in S(p)!SndState /\ b.nextSeqNumToSend = n + 1 /\ b.setDRFFlag = (n = 0)
      /\ b.lastSeqNumSent = m /\ b.closedWindowQ = Run(m, n - m)
      /\ b.sndRtWinEdge = s.sndRtWinEdge
      /\ b.rxQ = Copies(a + 1, m) /\ b.rxTurn = m + 1 /\ b.lastControlSeqNumRcv = a + 1
  <2>1. Copies(a + 1, m) \in SUBSET S(p)!RxEntry
    BY <1>6, CopiesAreKept
  <2> HIDE DEF b
  <2> QED
    BY <1>5, <1>7, <2>1 DEF S!SndState
<1>9. PICK x \in 0..(Modulus - 1) : s2 = Edged(b, x)
  <2>1. s2 = S(p)!UpdateSndLWE(b, (a + 1) + 1)
    BY <1>2, <1>6 DEF S!SenderAck
  <2> DEFINE y == a + 1
  <2>2. y \in Nat /\ y + 1 \in 0..(Modulus - 1) /\ b.rxQ = Copies(y, m)
    BY <1>6, <1>8
  <2> HIDE DEF y, b, s2
  <2>3. \E x \in 0..(Modulus - 1) : S(p)!UpdateSndLWE(b, y + 1) = Edged(b, x)
    BY <1>6, <2>2, EdgeFound
  <2> QED
    BY <2>1, <2>3 DEF y
<1> HIDE DEF b, s2
<1>10. Sending(p, s2, n, m, a + 1)
  <2>1. /\ s2 \in S(p)!SndState /\ s2.nextSeqNumToSend = n + 1 /\ s2.setDRFFlag = (n = 0)
        /\ s2.lastSeqNumSent = m /\ s2.closedWindowQ = Run(m, n - m)
        /\ s2.sndRtWinEdge = s.sndRtWinEdge
        /\ s2.rxQ = Copies(a + 1, m) /\ s2.rxTurn = m + 1 /\ s2.lastControlSeqNumRcv = a + 1
    BY <1>8, <1>9 DEF S!SndState, Edged
  <2> QED
    BY <1>1, <2>1 DEF Sending
<1>11. o = IF Carries(c.kind).fc THEN [fc EXCEPT !.lead = <<>>] ELSE S(p)!Outcome(s2, <<>>, <<>>)
  <2>1. Carries(c.kind).ack /\ c.kind # "ctrlAck"
    BY <1>2 DEF Carries
  <2> HIDE DEF fc
  <2> QED
    BY <1>3, <2>1 DEF S!HandleControl, S!Carries, Carries, s1, s2, fc
<1>12. ASSUME WindowFcOn
       PROVE  P(o) /\ o.lead = <<>>
  <2>1. Carries(c.kind).fc
    BY <1>2, <1>12 DEF Carries
  <2>2. P(fc)
    BY <1>2, <1>6, <1>10, <1>12, RunReleased
  <2>3. \E u, tx : fc = [st |-> u, lead |-> <<>>, tx |-> tx]
    BY DEF S!FlowControlled, S!Outcome
  <2>4. o = [fc EXCEPT !.lead = <<>>]
    BY <1>11, <2>1
  <2> HIDE DEF fc, o
  <2>5. o.st = fc.st /\ o.tx = fc.tx /\ o.lead = <<>>
    BY <2>3, <2>4
  <2> QED
    BY <2>2, <2>5
<1>13. ASSUME ~WindowFcOn
       PROVE  P(o) /\ o.lead = <<>>
  <2>1. ~Carries(c.kind).fc
    BY <1>2, <1>13 DEF Carries
  <2>2. o.st = s2 /\ o.lead = <<>> /\ o.tx = <<>>
    BY <1>11, <2>1 DEF S!Outcome
  <2>3. m + 0 = m /\ 0 \in Nat /\ m + 0 <= n
    OBVIOUS
  <2> HIDE DEF o
  <2> QED
    BY <1>10, <2>2, <2>3, EmptyRun
<1>14. P(o) /\ o.lead = <<>>
  BY <1>12, <1>13
<1>15. S(p)!Outstanding(s1) \ S(p)!Outstanding(o.st) = {a + 1}
  <2> HIDE DEF o
  <2>1. PICK k \in Nat : m + k <= n /\ Sending(p, o.st, n, m + k, a + 1)
    BY <1>14
  <2> DEFINE y == m + k
             z == a + 1
  <2>2. y \in Nat /\ z \in Nat /\ o.st.rxQ = Copies(z, y)
    BY <2>1 DEF Sending
  <2> HIDE DEF y, z
  <2>3. S(p)!Outstanding(o.st) = (z + 1)..y
    BY <2>2, CopiesOutstanding
  <2>4. S(p)!Outstanding(s1) = (a + 1)..m
    BY <1>5, CopiesOutstanding
  <2>5. (a + 1)..m \ ((a + 1) + 1)..(m + k) = {a + 1}
    OBVIOUS
  <2> QED
    BY <2>3, <2>4, <2>5 DEF y, z
<1> QED
  BY <1>3, <1>14, <1>15 DEF o, c, s1

-----------------------------------------------------------------------------
(* Both directions together.                                               *)

(* The numbers from 1 to n in order. *)
Counted(n) == [i \in 1..n |-> i]

(* One direction: p's user wrote n SDUs, m of them were sent, r received,  *)
(* and the answers to a of them came back; the rest is under way.          *)
Progress(p, n, m, r, a) ==
    /\ n <= MaxSDUs /\ m <= n /\ r <= m /\ a <= r
    /\ written[p] = Counted(n)
    /\ Sending(p, snd[p], n, m, a)
    /\ UnderWay(net[Peer(p)], "data", r, m)
    /\ rcv[Peer(p)] = Rcvd(r)
    /\ handedUp[Peer(p)] = Counted(r)
    /\ nextCtrl[Peer(p)] = r + 1
    /\ UnderWay(net[p], "ctrl", a, r)
    /\ acked[p] = 1..a

Undisturbed ==
    /\ DOMAIN snd = Peers /\ DOMAIN rcv = Peers /\ DOMAIN nextCtrl = Peers
    /\ DOMAIN net = Peers /\ DOMAIN written = Peers /\ DOMAIN handedUp = Peers
    /\ DOMAIN acked = Peers
    /\ faults["loss"] = 0 /\ faults["reorder"] = 0 /\ faults["early"] = 0
    /\ \A p \in Peers : Path(net[p])

Lockstep ==
    /\ Undisturbed
    /\ \A p \in Peers : \E n, m, r, a \in Nat : Progress(p, n, m, r, a)

(* What a step is to the users of one direction: the one writes the next   *)
(* SDU, or the other gets the next.                                        *)
Delivering(p) ==
    \/ written'[p] = written[p] /\ handedUp'[Peer(p)] = handedUp[Peer(p)]
    \/ /\ \E i \in SeqNum : written'[p] = Append(written[p], i)
       /\ handedUp'[Peer(p)] = handedUp[Peer(p)]
    \/ /\ \E i \in 1..Len(written[p]) : /\ i > Len(handedUp[Peer(p)])
                                         /\ handedUp'[Peer(p)] = SubSeq(written[p], 1, i)
       /\ written'[p] = written[p]

LEMMA CountedIsSequence ==
    ASSUME NEW n \in Nat
    PROVE  /\ Counted(n) \in Seq(1..n) /\ Len(Counted(n)) = n
           /\ Append(Counted(n), n + 1) = Counted(n + 1)
           /\ Counted(n) \o <<n + 1>> = Counted(n + 1)
           /\ ToSet(Counted(n)) = 1..n
<1> DEFINE f == Counted(n)
           g == Append(f, n + 1)
           h == f \o <<n + 1>>
           k == Counted(n + 1)
<1>1. f = [i \in 1..n |-> i] /\ f \in [1..n -> 1..n] /\ k = [i \in 1..(n + 1) |-> i]
      /\ k \in [1..(n + 1) -> 1..(n + 1)]
  BY DEF Counted
<1>2. f \in Seq(1..n) /\ k \in Seq(1..(n + 1))
  BY <1>1, FunctionIsSequence
<1>3. Len(f) = n /\ Len(k) = n + 1 /\ (\A i \in 1..n : f[i] = i) /\ (\A i \in 1..(n + 1) : k[i] = i)
  BY <1>1, <1>2
<1> HIDE DEF f, k
<1>4. f \in Seq(1..(n + 1)) /\ n + 1 \in 1..(n + 1)
  <2>1. 1..n \subseteq 1..(n + 1)
    OBVIOUS
  <2> QED
    BY <1>2, <2>1, WiderSequence
<1>5. /\ g \in Seq(1..(n + 1)) /\ Len(g) = n + 1 /\ g[n + 1] = n + 1
      /\ \A i \in 1..n : g[i] = f[i]
  BY <1>3, <1>4
<1>6. /\ h \in Seq(1..(n + 1)) /\ Len(h) = n + 1 /\ h[n + 1] = n + 1
      /\ \A i \in 1..n : h[i] = f[i]
  BY <1>3, <1>4
<1> HIDE DEF g, h
<1>7. \A i \in 1..(n + 1) : i \in 1..n \/ i = n + 1
  OBVIOUS
<1>8. g = k /\ h = k
  <2>1. \A i \in 1..(n + 1) : g[i] = k[i] /\ h[i] = k[i]
    BY <1>3, <1>5, <1>6, <1>7
  <2> QED
    BY <1>2, <1>3, <1>5, <1>6, <2>1, SameSequence
<1>9. ToSet(f) = 1..n
  <2>1. ToSet(f) = {f[i] : i \in 1..n}
    BY <1>2, <1>3 DEF ToSet
  <2> QED
    BY <1>3, <2>1
<1> QED
  BY <1>2, <1>3, <1>8, <1>9 DEF f, g, h, k

LEMMA CountedCut ==
    ASSUME NEW n \in Nat, NEW k \in 0..n
    PROVE  SubSeq(Counted(n), 1, k) = Counted(k)
<1> DEFINE f == Counted(n)
           g == Counted(k)
           s == SubSeq(f, 1, k)
<1>1. f \in Seq(1..n) /\ Len(f) = n /\ g \in Seq(1..k) /\ Len(g) = k
  <2>1. k \in Nat
    OBVIOUS
  <2> QED
    BY <2>1, CountedIsSequence
<1>2. (\A i \in 1..n : f[i] = i) /\ (\A i \in 1..k : g[i] = i)
  BY DEF Counted
<1> HIDE DEF f, g
<1>3. s \in Seq(1..n) /\ Len(s) = k /\ \A i \in 1..k : s[i] = f[i]
  <2>1. 1 \in Int /\ k \in Int /\ k <= Len(f)
    BY <1>1
  <2>2. Len(s) = k /\ \A i \in 1..k : s[i] = f[i]
    BY <1>1, <2>1
  <2>3. s \in Seq(1..n)
    BY <1>1, <2>1
  <2> QED
    BY <2>2, <2>3
<1> HIDE DEF s
<1>4. g \in Seq(1..n)
  <2>1. 1..k \subseteq 1..n
    OBVIOUS
  <2> QED
    BY <1>1, <2>1, WiderSequence
<1>5. \A i \in 1..k : g[i] = s[i]
  BY <1>2, <1>3
<1>6. g = s
  BY <1>1, <1>3, <1>4, <1>5, SameSequence
<1> QED
  BY <1>6 DEF f, g, s

(* What a step does to the path. *)
LEMMA Posted ==
    ASSUME Undisturbed, NEW p \in Peers, NEW msgs, NEW k \in Nat, Sends(p, net, msgs, k),
           nextCtrl[p] \in Nat
    PROVE  /\ DOMAIN net' = Peers /\ DOMAIN nextCtrl' = Peers
           /\ net'[Peer(p)] = net[Peer(p)] \o msgs /\ net'[p] = net[p]
           /\ nextCtrl'[p] = nextCtrl[p] + k /\ nextCtrl'[Peer(p)] = nextCtrl[Peer(p)]
BY TwoPeers DEF Undisturbed, Sends

LEMMA Replied ==
    ASSUME Undisturbed, NEW p \in Peers, NEW msgs, NEW k \in Nat,
           Sends(p, [net EXCEPT ![p] = Tail(@)], msgs, k), nextCtrl[p] \in Nat
    PROVE  /\ DOMAIN net' = Peers /\ DOMAIN nextCtrl' = Peers
           /\ net'[Peer(p)] = net[Peer(p)] \o msgs /\ net'[p] = Tail(net[p])
           /\ nextCtrl'[p] = nextCtrl[p] + k /\ nextCtrl'[Peer(p)] = nextCtrl[Peer(p)]
BY TwoPeers DEF Undisturbed, Sends

(* Both directions progress, whichever of the two peers moved. *)
LEMMA BothProgress ==
    ASSUME NEW p \in Peers, Undisturbed',
           \E n, m, r, a \in Nat : Progress(p, n, m, r, a)',
           \E n, m, r, a \in Nat : Progress(Peer(p), n, m, r, a)'
    PROVE  Lockstep'
BY TwoPeers DEF Lockstep

LEMMA LockstepInitially ==
    ASSUME Init
    PROVE  Lockstep
<1>1. SndCredit \in Nat /\ RcvCredit \in Nat
  BY ConnectionAssumption
<1>2. Undisturbed
  <2>1. Path(<<>>)
    BY EmptySequence DEF Path
  <2>2. \A p \in Peers : net[p] = <<>>
    BY DEF Init
  <2>3. \A p \in Peers : Path(net[p])
    BY <2>1, <2>2
  <2> QED
    BY <2>3 DEF Init, Undisturbed
<1>3. ASSUME NEW p \in Peers
      PROVE  Progress(p, 0, 0, 0, 0)
  <2> DEFINE s == S(p)!InitSnd
             q == Peer(p)
  <2>1. q \in Peers
    BY TwoPeers
  <2> HIDE DEF q
  <2>2. /\ snd[p] = s /\ rcv[q] = R(q)!InitRcv /\ nextCtrl[q] = 1
        /\ net[p] = <<>> /\ net[q] = <<>> /\ written[p] = <<>> /\ handedUp[q] = <<>>
        /\ acked[p] = {}
    BY <2>1 DEF Init
  <2>3. R(q)!InitRcv = Rcvd(0)
    <3>1. RcvCredit + 0 = RcvCredit
      BY <1>1
    <3>2. Credit(0) = RcvCredit
      BY <3>1 DEF Credit
    <3> QED
      BY <3>2 DEF R!InitRcv, Rcvd, R!SeqNum, SeqNum
  <2>4. Counted(0) = <<>>
    BY DEF Counted
  <2>5. Copies(0, 0) = {} /\ Run(0, 0) = <<>>
    BY EmptyRun DEF Copies
  <2>6. Sending(p, s, 0, 0, 0)
    <3>1. 0 \in 0..(Modulus - 1) /\ 1 \in 1..(MaxSeq + 1) /\ 0 \in 0..MaxSeq
      BY QoSAssumption
    <3>2. s \in S(p)!SndState
      BY <1>1, <3>1 DEF S!InitSnd, S!SndState, S!SeqNum
    <3>3. /\ s.nextSeqNumToSend = 1 /\ s.setDRFFlag = TRUE /\ s.lastSeqNumSent = 0
          /\ s.closedWindowQ = <<>> /\ s.rxQ = {} /\ s.rxTurn = 1
          /\ s.lastControlSeqNumRcv = 0
      BY DEF S!InitSnd
    <3>4. 0 + 1 = 1 /\ TRUE = (0 = 0) /\ 0 - 0 = 0 /\ ~(0 > 0)
      OBVIOUS
    <3> HIDE DEF s
    <3> QED
      BY <2>5, <3>2, <3>3, <3>4 DEF Sending
  <2>7. UnderWay(<<>>, "data", 0, 0) /\ UnderWay(<<>>, "ctrl", 0, 0)
    <3>1. Len(<<>>) = 0
      OBVIOUS
    <3> QED
      BY <3>1 DEF UnderWay
  <2>8. 0 <= MaxSDUs /\ 0 + 1 = 1 /\ 1..0 = {}
    BY ConnectionAssumption
  <2> QED
    BY <2>2, <2>3, <2>4, <2>6, <2>7, <2>8 DEF Progress, q
<1> QED
  BY <1>2, <1>3 DEF Lockstep

LEMMA WriteKeepsLockstep ==
    ASSUME Lossless, Lockstep, NEW p \in Peers, WriteSDU(p)
    PROVE  Lockstep' /\ \A x \in Peers : Delivering(x)
<1> DEFINE q == Peer(p)
           o == S(p)!TrySendGenerated(S(p)!Numbered(snd[p], 1), S(p)!Generated(snd[p], 1))
<1>1. q \in Peers /\ q # p /\ Peer(q) = p /\ \A x \in Peers : x = p \/ x = q
  BY TwoPeers
<1>2. Undisturbed
  BY DEF Lockstep
<1>3. PICK n, m, r, a \in Nat : Progress(p, n, m, r, a)
  BY DEF Lockstep
<1>4. PICK n2, m2, r2, a2 \in Nat : Progress(q, n2, m2, r2, a2)
  BY <1>1 DEF Lockstep
<1>5. /\ Len(written[p]) < MaxSDUs
      /\ snd' = [snd EXCEPT ![p] = o.st] /\ Sends(p, net, Data(o.tx), 0)
      /\ written' = [written EXCEPT ![p] = Append(@, snd[p].nextSeqNumToSend)]
      /\ rcv' = rcv /\ faults' = faults /\ handedUp' = handedUp /\ acked' = acked
  BY DEF WriteSDU
<1>6. /\ written[p] = Counted(n) /\ Sending(p, snd[p], n, m, a) /\ a <= r /\ r <= m /\ m <= n
      /\ snd[p].nextSeqNumToSend = n + 1 /\ nextCtrl[p] \in Nat
      /\ rcv[q] = Rcvd(r) /\ handedUp[q] = Counted(r) /\ nextCtrl[q] = r + 1
      /\ acked[p] = 1..a /\ UnderWay(net[q], "data", r, m) /\ UnderWay(net[p], "ctrl", a, r)
  BY <1>1, <1>3, <1>4 DEF Progress, Sending
<1>7. n + 1 <= MaxSDUs /\ n + 1 <= MaxSeq
  <2>1. Len(written[p]) = n
    BY <1>6, CountedIsSequence
  <2>2. MaxSDUs \in Nat /\ MaxSeq \in Nat /\ MaxSDUs <= MaxSeq
    BY ConnectionAssumption, QoSAssumption DEF Lossless
  <2> QED
    BY <1>5, <2>1, <2>2
<1>8. PICK k \in 0..1 : m + k <= n + 1 /\ o.tx = Run(m, k) /\ Sending(p, o.st, n + 1, m + k, a)
  BY <1>6, <1>7, NextIsWritten
<1> HIDE DEF o, q
<1>9. Data(o.tx) = Burst("data", m, k)
  BY <1>8, RunOnPath
<1>10. /\ DOMAIN net' = Peers /\ DOMAIN nextCtrl' = Peers
       /\ net'[q] = net[q] \o Burst("data", m, k) /\ net'[p] = net[p]
       /\ nextCtrl'[p] = nextCtrl[p] + 0 /\ nextCtrl'[q] = nextCtrl[q]
  BY <1>2, <1>5, <1>6, <1>9, Posted DEF q
<1>11. /\ snd'[p] = o.st /\ snd'[q] = snd[q]
       /\ written'[p] = Append(written[p], n + 1) /\ written'[q] = written[q]
       /\ DOMAIN snd' = Peers /\ DOMAIN written' = Peers
  BY <1>1, <1>2, <1>5, <1>6 DEF Undisturbed
<1>12. Path(net[p]) /\ Path(net[q]) /\ IsSequence(net[p]) /\ IsSequence(net[q])
  BY <1>1, <1>2 DEF Undisturbed, Path
<1>13. Undisturbed'
  <2>1. Path(net'[q])
    <3>1. Path(Burst("data", m, k))
      <4>1. k \in Nat /\ m \in Nat
        OBVIOUS
      <4> QED
        BY <4>1, BurstIsPath
    <3> QED
      BY <1>10, <1>12, <3>1, PathJoin
  <2>2. \A x \in Peers : Path(net'[x])
    BY <1>1, <1>10, <1>12, <2>1
  <2> QED
    BY <1>2, <1>5, <1>10, <1>11, <2>2 DEF Undisturbed
<1> DEFINE y == m + k
           z == n + 1
<1>14. Progress(p, z, y, r, a)'
  <2>1. UnderWay(net'[q], "data", r, y)
    <3>1. k \in Nat /\ m \in Nat /\ r \in Nat
      OBVIOUS
    <3>2. UnderWay(net[q] \o Burst("data", m, k), "data", r, m + k)
      BY <1>6, <1>12, <3>1, BurstUnderWay
    <3> QED
      BY <1>10, <3>2
  <2>2. y <= z /\ r <= y /\ z <= MaxSDUs /\ Sending(p, o.st, z, y, a)
    BY <1>6, <1>7, <1>8
  <2>3. written'[p] = Counted(z)
    BY <1>6, <1>11, CountedIsSequence
  <2> HIDE DEF y, z
  <2> QED
    BY <1>1, <1>5, <1>6, <1>10, <1>11, <2>1, <2>2, <2>3 DEF Progress, q
<1>15. Progress(q, n2, m2, r2, a2)'
  <2>1. /\ UnderWay(net[p], "data", r2, m2) /\ UnderWay(net[q], "ctrl", a2, r2)
        /\ rcv[p] = Rcvd(r2) /\ handedUp[p] = Counted(r2) /\ nextCtrl[p] = r2 + 1
    BY <1>1, <1>4 DEF Progress
  <2>2. UnderWay(net'[q], "ctrl", a2, r2)
    <3>1. m \in Nat /\ k \in Nat
      OBVIOUS
    <3> QED
      BY <1>10, <1>12, <2>1, <3>1, OtherBurst
  <2>3. nextCtrl'[p] = r2 + 1
    BY <1>10, <2>1
  <2> QED
    BY <1>1, <1>4, <1>5, <1>10, <1>11, <2>1, <2>2, <2>3 DEF Progress
<1>16. y \in Nat /\ z \in Nat
  OBVIOUS
<1> HIDE DEF y, z
<1>17. Lockstep'
  BY <1>13, <1>14, <1>15, <1>16, BothProgress DEF q
<1>18. Delivering(p)
  <2>1. n + 1 \in SeqNum
    BY <1>7, QoSAssumption DEF SeqNum
  <2> QED
    BY <1>5, <1>11, <2>1 DEF Delivering
<1>19. Delivering(q)
  BY <1>5, <1>11 DEF Delivering
<1> QED
  BY <1>1, <1>17, <1>18, <1>19

LEMMA AnswerOnPath ==
    ASSUME NEW r \in Nat
    PROVE  Ctrl(r + 1, <<AnswerBody(r + 1)>>) = Burst("ctrl", r, 1)
<1>1. Ctrl(r + 1, <<AnswerBody(r + 1)>>)
        = [i \in 1..1 |-> [type |-> "ctrl", pdu |-> Answer((r + 1) + i - 1)]]
  BY AnswerNumbered
<1>2. \A i \in 1..1 : (r + 1) + i - 1 = r + i
  OBVIOUS
<1>3. \A i \in 1..1 : [type |-> "ctrl", pdu |-> Answer((r + 1) + i - 1)] = Message("ctrl", r + i)
  BY <1>2 DEF Message
<1> QED
  BY <1>1, <1>3 DEF Burst

(* A PDU arrives at q, which p sent. *)
LEMMA DataKeepsLockstep ==
    ASSUME Lossless, Lockstep, NEW q \in Peers, Arrive(q), Head(net[q]).type = "data"
    PROVE  Lockstep' /\ \A x \in Peers : Delivering(x)
<1> DEFINE p == Peer(q)
           channel == [net EXCEPT ![q] = Tail(@)]
<1>1. p \in Peers /\ q # p /\ Peer(p) = q /\ \A x \in Peers : x = p \/ x = q
  BY TwoPeers
<1>2. Undisturbed
  BY DEF Lockstep
<1>3. PICK n, m, r, a \in Nat : Progress(p, n, m, r, a)
  BY <1>1 DEF Lockstep
<1>4. PICK n2, m2, r2, a2 \in Nat : Progress(q, n2, m2, r2, a2)
  BY DEF Lockstep
<1>5. net[q] # <<>> /\ HandleData(q, Head(net[q]).pdu, channel) /\ faults' = faults
  BY DEF Arrive, Handle
<1> HIDE DEF p
<1>6. /\ n <= MaxSDUs /\ a <= r /\ r <= m /\ m <= n /\ rcv[q] = Rcvd(r)
      /\ handedUp[q] = Counted(r) /\ nextCtrl[q] = r + 1
      /\ UnderWay(net[q], "data", r, m) /\ UnderWay(net[p], "ctrl", a, r)
  BY <1>1, <1>3 DEF Progress
<1>7. Path(net[p]) /\ Path(net[q]) /\ IsSequence(net[p]) /\ IsSequence(net[q])
  BY <1>1, <1>2 DEF Undisturbed, Path
<1>8. /\ r < m /\ Head(net[q]) = Message("data", r + 1)
      /\ UnderWay(Tail(net[q]), "data", r + 1, m)
  BY <1>5, <1>6, <1>7, FirstUnderWay
<1>9. r + 1 <= MaxSeq /\ r + 1 <= m /\ r + 1 \in Nat
  <2>1. MaxSDUs \in Nat /\ MaxSeq \in Nat /\ MaxSDUs <= MaxSeq
    BY ConnectionAssumption, QoSAssumption DEF Lossless
  <2> QED
    BY <1>6, <1>8, <2>1
<1>10. Head(net[q]).pdu = Pdu(r + 1)
  BY <1>8 DEF Message
<1> DEFINE o == R(q)!Receive(rcv[q], Pdu(r + 1))
<1>11. o = [st |-> Rcvd(r + 1), up |-> {Pdu(r + 1)}, out |-> <<AnswerBody(r + 1)>>]
  BY <1>6, <1>9, NextIsReceived
<1>12. /\ rcv' = [rcv EXCEPT ![q] = o.st]
       /\ handedUp' = [handedUp EXCEPT ![q] = @ \o UserDataSeqs(o.up)]
       /\ Sends(q, channel, Ctrl(nextCtrl[q], o.out), Len(o.out))
       /\ snd' = snd /\ written' = written /\ acked' = acked
  BY <1>5, <1>10 DEF HandleData
<1> HIDE DEF o
<1>13. UserDataSeqs(o.up) = <<r + 1>>
  <2>1. Pdu(r + 1).seq = r + 1 /\ Pdu(r + 1).empty = FALSE
    BY DEF Pdu
  <2>2. UserDataSeqs({Pdu(r + 1)}) = <<Pdu(r + 1).seq>>
    BY <1>9, <2>1, OneNumber
  <2> QED
    BY <1>11, <2>1, <2>2
<1>14. Ctrl(nextCtrl[q], o.out) = Burst("ctrl", r, 1) /\ Len(o.out) = 1
  <2>1. o.out = <<AnswerBody(r + 1)>>
    BY <1>11
  <2>2. Len(<<AnswerBody(r + 1)>>) = 1
    OBVIOUS
  <2> QED
    BY <1>6, <2>1, <2>2, AnswerOnPath
<1>15. /\ DOMAIN net' = Peers /\ DOMAIN nextCtrl' = Peers
       /\ net'[p] = net[p] \o Burst("ctrl", r, 1) /\ net'[q] = Tail(net[q])
       /\ nextCtrl'[q] = nextCtrl[q] + 1 /\ nextCtrl'[p] = nextCtrl[p]
  <2>1. Sends(q, [net EXCEPT ![q] = Tail(@)], Burst("ctrl", r, 1), 1) /\ nextCtrl[q] \in Nat
    BY <1>6, <1>9, <1>12, <1>14
  <2> QED
    BY <1>2, <2>1, Replied DEF p
<1>16. /\ rcv'[q] = Rcvd(r + 1) /\ rcv'[p] = rcv[p]
       /\ handedUp'[q] = Counted(r + 1) /\ handedUp'[p] = handedUp[p]
       /\ DOMAIN rcv' = Peers /\ DOMAIN handedUp' = Peers
  <2>1. Counted(r) \o <<r + 1>> = Counted(r + 1)
    BY CountedIsSequence
  <2> QED
    BY <1>1, <1>2, <1>6, <1>11, <1>12, <1>13, <2>1 DEF Undisturbed
<1>17. Undisturbed'
  <2>1. Path(net'[p])
    <3>1. Path(Burst("ctrl", r, 1))
      BY BurstIsPath
    <3> QED
      BY <1>7, <1>15, <3>1, PathJoin
  <2>2. Path(net'[q])
    BY <1>5, <1>7, <1>15, PathTail
  <2>3. \A x \in Peers : Path(net'[x])
    BY <1>1, <2>1, <2>2
  <2> QED
    BY <1>2, <1>5, <1>12, <1>15, <1>16, <2>3 DEF Undisturbed
<1> DEFINE y == r + 1
<1>18. Progress(p, n, m, y, a)'
  <2>1. UnderWay(net'[p], "ctrl", a, y)
    <3>1. UnderWay(net[p] \o Burst("ctrl", r, 1), "ctrl", a, r + 1)
      BY <1>6, <1>7, BurstUnderWay
    <3> QED
      BY <1>15, <3>1
  <2>2. /\ y <= m /\ a <= y /\ nextCtrl'[q] = y + 1 /\ UnderWay(net'[q], "data", y, m)
        /\ rcv'[q] = Rcvd(y) /\ handedUp'[q] = Counted(y)
    BY <1>6, <1>8, <1>9, <1>15, <1>16
  <2> HIDE DEF y
  <2> QED
    BY <1>1, <1>3, <1>12, <2>1, <2>2 DEF Progress
<1>19. Progress(q, n2, m2, r2, a2)'
  <2>1. /\ UnderWay(net[p], "data", r2, m2) /\ UnderWay(net[q], "ctrl", a2, r2)
        /\ rcv[p] = Rcvd(r2) /\ handedUp[p] = Counted(r2) /\ nextCtrl[p] = r2 + 1
    BY <1>4 DEF Progress, p
  <2>2. UnderWay(net'[p], "data", r2, m2)
    BY <1>7, <1>15, <2>1, OtherBurst
  <2>3. UnderWay(net'[q], "ctrl", a2, r2)
    <3>1. Head(net[q]).type # "ctrl"
      OBVIOUS
    <3> QED
      BY <1>5, <1>7, <1>15, <2>1, <3>1, OtherFirst
  <2> QED
    BY <1>4, <1>12, <1>15, <1>16, <2>1, <2>2, <2>3 DEF Progress, p
<1> HIDE DEF y
<1>20. (\E i, j, k, l \in Nat : Progress(p, i, j, k, l)')
       /\ (\E i, j, k, l \in Nat : Progress(q, i, j, k, l)')
  BY <1>9, <1>18, <1>19 DEF y
<1>21. Lockstep'
  BY <1>17, <1>20, BothProgress DEF p
<1>22. Delivering(p)
  <2>1. y \in 0..n /\ y \in 1..n /\ y > r
    BY <1>6, <1>9 DEF y
  <2>2. written[p] = Counted(n) /\ Len(Counted(n)) = n /\ Len(Counted(r)) = r
    BY <1>3, CountedIsSequence DEF Progress
  <2>3. handedUp'[q] = SubSeq(written[p], 1, y)
    BY <1>16, <2>1, <2>2, CountedCut DEF y
  <2>4. written' = written /\ handedUp[q] = Counted(r) /\ Peer(p) = q
    BY <1>1, <1>6, <1>12
  <2> QED
    BY <2>1, <2>2, <2>3, <2>4 DEF Delivering
<1>23. Delivering(q)
  BY <1>12, <1>16 DEF Delivering, p
<1> QED
  BY <1>1, <1>21, <1>22, <1>23

(* An answer arrives at p. *)
LEMMA ControlKeepsLockstep ==
    ASSUME Lossless, Lockstep, NEW p \in Peers, Arrive(p), Head(net[p]).type = "ctrl"
    PROVE  Lockstep' /\ \A x \in Peers : Delivering(x)
<1> DEFINE q == Peer(p)
           channel == [net EXCEPT ![p] = Tail(@)]
<1>1. q \in Peers /\ q # p /\ Peer(q) = p /\ \A x \in Peers : x = p \/ x = q
  BY TwoPeers
<1>2. Undisturbed
  BY DEF Lockstep
<1>3. PICK n, m, r, a \in Nat : Progress(p, n, m, r, a)
  BY DEF Lockstep
<1>4. PICK n2, m2, r2, a2 \in Nat : Progress(q, n2, m2, r2, a2)
  BY <1>1 DEF Lockstep
<1>5. net[p] # <<>> /\ HandleControl(p, Head(net[p]).pdu, channel) /\ faults' = faults
  BY DEF Arrive, Handle
<1>6. /\ n <= MaxSDUs /\ a <= r /\ r <= m /\ m <= n /\ Sending(p, snd[p], n, m, a)
      /\ acked[p] = 1..a
      /\ UnderWay(net[q], "data", r, m) /\ UnderWay(net[p], "ctrl", a, r)
  BY <1>3 DEF Progress
<1>7. /\ UnderWay(net[p], "data", r2, m2) /\ UnderWay(net[q], "ctrl", a2, r2)
      /\ rcv[p] = Rcvd(r2) /\ handedUp[p] = Counted(r2) /\ nextCtrl[p] = r2 + 1
  BY <1>1, <1>4 DEF Progress
<1> HIDE DEF q
<1>8. Path(net[p]) /\ Path(net[q]) /\ IsSequence(net[p]) /\ IsSequence(net[q])
  BY <1>1, <1>2 DEF Undisturbed, Path
<1>9. /\ a < r /\ Head(net[p]) = Message("ctrl", a + 1)
      /\ UnderWay(Tail(net[p]), "ctrl", a + 1, r)
  BY <1>5, <1>6, <1>8, FirstUnderWay
<1>10. n <= MaxSeq /\ a + 1 <= m /\ a + 1 <= r /\ a + 1 \in Nat
  <2>1. MaxSDUs \in Nat /\ MaxSeq \in Nat /\ MaxSDUs <= MaxSeq
    BY ConnectionAssumption, QoSAssumption DEF Lossless
  <2> QED
    BY <1>6, <1>9, <2>1
<1> DEFINE c == Answer(a + 1)
           o == S(p)!HandleControl(snd[p], c)
<1>11. Head(net[p]).pdu = c
  BY <1>9 DEF Message
<1> DEFINE s == snd[p]
<1> HIDE DEF s
<1>12. /\ ~S(p)!LostControl(snd[p], c) /\ o.lead = <<>>
       /\ S(p)!Outstanding(S(p)!Numbering(snd[p], c)) \ S(p)!Outstanding(o.st) = {a + 1}
       /\ \E k \in Nat : /\ m + k <= n
                         /\ o.tx = Run(m, k)
                         /\ Sending(p, o.st, n, m + k, a + 1)
  <2>1. Sending(p, s, n, m, a)
    BY <1>6 DEF s
  <2>2. LET d == Answer(a + 1)
            u == S(p)!HandleControl(s, d)
        IN  /\ ~S(p)!LostControl(s, d)
            /\ u.lead = <<>>
            /\ S(p)!Outstanding(S(p)!Numbering(s, d)) \ S(p)!Outstanding(u.st) = {a + 1}
            /\ \E k \in Nat : /\ m + k <= n
                              /\ u.tx = Run(m, k)
                              /\ Sending(p, u.st, n, m + k, a + 1)
    <3>1. a + 1 <= m /\ m <= n /\ n <= MaxSeq
      BY <1>6, <1>10
    <3> QED
      BY <2>1, <3>1, NextIsHeard
  <2> QED
    BY <2>2 DEF s
<1>13. PICK k \in Nat : /\ m + k <= n /\ o.tx = Run(m, k)
                        /\ Sending(p, o.st, n, m + k, a + 1)
  BY <1>12
<1>14. c.kind # "ctrlAck"
  BY DEF Answer
<1>15. /\ snd' = [snd EXCEPT ![p] = o.st]
       /\ acked' = [acked EXCEPT ![p] = @ \union {a + 1}]
       /\ Sends(p, channel, Ctrl(nextCtrl[p], <<>>) \o Data(o.lead)
                              \o Ctrl(nextCtrl[p] + Len(<<>>), <<>>) \o Data(o.tx),
                Len(<<>>) + Len(<<>>))
       /\ rcv' = rcv /\ written' = written /\ handedUp' = handedUp
  <2> HIDE DEF c
  <2>1. HandleControl(p, c, channel)
    BY <1>5, <1>11
  <2> HIDE DEF channel
  <2> QED
    BY <1>12, <1>14, <2>1 DEF HandleControl, o
<1> HIDE DEF o, c, channel
<1>16. /\ DOMAIN net' = Peers /\ DOMAIN nextCtrl' = Peers
       /\ net'[q] = net[q] \o Burst("data", m, k) /\ net'[p] = Tail(net[p])
       /\ nextCtrl'[p] = nextCtrl[p] + 0 /\ nextCtrl'[q] = nextCtrl[q]
  <2>1. \A i : Ctrl(i, <<>>) = <<>>
    BY DEF Ctrl
  <2>2. Data(<<>>) = <<>>
    BY DEF Data
  <2>3. Len(<<>>) = 0 /\ 0 + 0 = 0 /\ <<>> \o <<>> = <<>>
    OBVIOUS
  <2>4. <<>> \o Burst("data", m, k) = Burst("data", m, k)
    <3>1. IsSequence(Burst("data", m, k))
      BY BurstIsPath DEF Path
    <3>2. PICK X : Burst("data", m, k) \in Seq(X)
      BY <3>1 DEF IsSequence
    <3> HIDE DEF channel
    <3> QED
      BY <3>2
  <2>5. Data(o.tx) = Burst("data", m, k)
    BY <1>13, RunOnPath
  <2>6. Ctrl(nextCtrl[p], <<>>) \o Data(o.lead) \o Ctrl(nextCtrl[p] + Len(<<>>), <<>>) \o Data(o.tx)
          = Burst("data", m, k)
    <3> DEFINE b == Burst("data", m, k)
    <3>1. <<>> \o b = b /\ Data(o.tx) = b
      BY <2>4, <2>5
    <3> HIDE DEF b
    <3> QED
      BY <1>12, <2>1, <2>2, <2>3, <3>1 DEF b
  <2>7. Sends(p, [net EXCEPT ![p] = Tail(@)], Burst("data", m, k), 0)
    BY <1>15, <2>3, <2>6 DEF channel
  <2>8. nextCtrl[p] \in Nat
    BY <1>7
  <2> QED
    BY <1>2, <2>7, <2>8, Replied DEF q
<1>17. /\ snd'[p] = o.st /\ snd'[q] = snd[q] /\ acked'[p] = 1..(a + 1) /\ acked'[q] = acked[q]
       /\ DOMAIN snd' = Peers /\ DOMAIN acked' = Peers
  <2>1. 1..a \union {a + 1} = 1..(a + 1)
    OBVIOUS
  <2> QED
    BY <1>1, <1>2, <1>6, <1>15, <2>1 DEF Undisturbed
<1>18. Undisturbed'
  <2>1. Path(net'[q])
    <3>1. Path(Burst("data", m, k))
      BY BurstIsPath
    <3> QED
      BY <1>8, <1>16, <3>1, PathJoin
  <2>2. Path(net'[p])
    BY <1>5, <1>8, <1>16, PathTail
  <2>3. \A x \in Peers : Path(net'[x])
    BY <1>1, <2>1, <2>2
  <2> QED
    BY <1>2, <1>5, <1>15, <1>16, <1>17, <2>3 DEF Undisturbed
<1> DEFINE y == m + k
           z == a + 1
<1>19. Progress(p, n, y, r, z)'
  <2>1. UnderWay(net'[q], "data", r, y)
    <3>1. UnderWay(net[q] \o Burst("data", m, k), "data", r, m + k)
      BY <1>6, <1>8, BurstUnderWay
    <3> QED
      BY <1>16, <3>1
  <2>2. /\ y <= n /\ r <= y /\ z <= r /\ Sending(p, o.st, n, y, z)
        /\ UnderWay(net'[p], "ctrl", z, r) /\ acked'[p] = 1..z
    BY <1>6, <1>9, <1>10, <1>13, <1>16, <1>17
  <2> HIDE DEF y, z
  <2> QED
    BY <1>1, <1>3, <1>15, <1>16, <1>17, <2>1, <2>2 DEF Progress, q
<1>20. Progress(q, n2, m2, r2, a2)'
  <2>1. UnderWay(net'[q], "ctrl", a2, r2)
    BY <1>7, <1>8, <1>16, OtherBurst
  <2>2. UnderWay(net'[p], "data", r2, m2)
    <3>1. Head(net[p]).type # "data"
      OBVIOUS
    <3> QED
      BY <1>5, <1>7, <1>8, <1>16, <3>1, OtherFirst
  <2>3. nextCtrl'[p] = r2 + 1
    BY <1>7, <1>16
  <2> QED
    BY <1>1, <1>4, <1>7, <1>15, <1>16, <1>17, <2>1, <2>2, <2>3 DEF Progress
<1> HIDE DEF y
<1>21. y \in Nat
  BY DEF y
<1>22. z \in Nat
  OBVIOUS
<1> HIDE DEF z
<1>23. (\E i, j, l, h \in Nat : Progress(p, i, j, l, h)')
       /\ (\E i, j, l, h \in Nat : Progress(q, i, j, l, h)')
  BY <1>19, <1>20, <1>21, <1>22
<1>24. Lockstep'
  BY <1>18, <1>23, BothProgress DEF q
<1> QED
  BY <1>15, <1>24 DEF Delivering

LEMMA NothingLeft ==
    ASSUME Lockstep, Quiet, NEW p \in Peers
    PROVE  snd[p].rxQ = {}
<1>1. Peer(p) \in Peers
  BY TwoPeers
<1>2. PICK n, m, r, a \in Nat : Progress(p, n, m, r, a)
  BY DEF Lockstep
<1>3. net[p] = <<>> /\ net[Peer(p)] = <<>>
  BY <1>1 DEF Quiet
<1>4. UnderWay(<<>>, "data", r, m) /\ UnderWay(<<>>, "ctrl", a, r) /\ a <= r /\ r <= m
  BY <1>2, <1>3 DEF Progress
<1>5. r = m /\ a = r
  BY <1>4, NoneUnderWay
<1>6. snd[p].rxQ = Copies(m, m)
  BY <1>2, <1>5 DEF Progress, Sending
<1>7. (m + 1)..m = {}
  OBVIOUS
<1> QED
  BY <1>6, <1>7 DEF Copies

LEMMA NoFault ==
    ASSUME Lossless, Lockstep
    PROVE  ~Fault("loss", MaxLoss) /\ ~Fault("reorder", MaxReorder) /\ ~Fault("early", MaxEarly)
BY DEF Fault, Lossless, Lockstep, Undisturbed

LEMMA NoATimer ==
    ASSUME Lockstep, NEW p \in Peers, NEW n \in SeqNum
    PROVE  ~ATimerExpires(p, n)
<1>1. Peer(p) \in Peers /\ Peer(Peer(p)) = p
  BY TwoPeers
<1>2. PICK i, m, r, a \in Nat : Progress(Peer(p), i, m, r, a)
  BY <1>1 DEF Lockstep
<1>3. rcv[p].aTimers[n] = 0
  BY <1>1, <1>2 DEF Progress, Rcvd
<1> QED
  BY <1>3 DEF ATimerExpires

LEMMA StepKeepsLockstep ==
    ASSUME Lossless, Lockstep, [Next]_vars
    PROVE  Lockstep' /\ \A p \in Peers : Delivering(p)
<1>1. ASSUME NEW p \in Writers, WriteSDU(p)
      PROVE  Lockstep' /\ \A q \in Peers : Delivering(q)
  <2>1. p \in Peers
    BY ConnectionAssumption DEF Peers
  <2> QED
    BY <1>1, <2>1, WriteKeepsLockstep
<1>2. ASSUME NEW p \in Peers, Arrive(p)
      PROVE  Lockstep' /\ \A q \in Peers : Delivering(q)
  <2>1. net[p] # <<>>
    BY <1>2 DEF Arrive
  <2>2. Head(net[p]).type \in {"data", "ctrl"}
    BY <2>1, PathTail DEF Lockstep, Undisturbed
  <2> QED
    BY <1>2, <2>2, DataKeepsLockstep, ControlKeepsLockstep
<1>3. ASSUME NEW p \in Peers, NEW i, ArriveOvertaking(p, i) \/ Lose(p, i)
      PROVE  FALSE
  BY <1>3, NoFault DEF ArriveOvertaking, Lose
<1>4. ASSUME NEW p \in Peers, NEW e \in snd[p].rxQ, RxTimerExpires(p, e)
      PROVE  FALSE
  BY <1>4, NothingLeft, NoFault DEF RxTimerExpires
<1>5. ASSUME NEW p \in Peers, NEW n \in SeqNum, ATimerExpires(p, n)
      PROVE  FALSE
  BY <1>5, NoATimer
<1>6. ASSUME UNCHANGED vars
      PROVE  Lockstep' /\ \A p \in Peers : Delivering(p)
  <2>1. /\ snd' = snd /\ rcv' = rcv /\ nextCtrl' = nextCtrl /\ net' = net /\ faults' = faults
        /\ written' = written /\ handedUp' = handedUp /\ acked' = acked
    BY <1>6 DEF vars
  <2>2. Lockstep'
    BY <2>1 DEF Lockstep, Undisturbed, Progress
  <2> QED
    BY <2>1, <2>2 DEF Delivering
<1> QED
  BY <1>1, <1>2, <1>3, <1>4, <1>5, <1>6 DEF Next

(* As long as nothing is lost, overtaken or sent again too early, the two  *)
(* ends are in lockstep.                                                   *)
THEOREM AlwaysInLockstep == ASSUME Lossless PROVE Spec => []Lockstep
<1>1. Init => Lockstep
  BY LockstepInitially
<1>2. Lockstep /\ [Next]_vars => Lockstep'
  BY StepKeepsLockstep
<1> QED
  BY <1>1, <1>2, PTL DEF Spec

LEMMA LockstepAgrees ==
    ASSUME Lossless, Lockstep
    PROVE  EndsAgree
<1>1. ASSUME NEW p \in Peers
      PROVE  /\ snd[p] \in S(p)!SndState /\ nextCtrl[Peer(p)] \in Nat \ {0}
             /\ rcv[Peer(p)] \in R(Peer(p))!RcvState /\ ~rcv[Peer(p)].thrown
             /\ DataPDUs(Peer(p)) \subseteq DataPDU
             /\ \A c \in CtrlPDUs(p) : c.seq < nextCtrl[Peer(p)]
             /\ \A n \in acked[p] : n < rcv[Peer(p)].rcvLeftWinEdge + MaxAllowGap
             /\ \A n \in acked[p] : n \in ToSet(handedUp[Peer(p)])
             /\ WindowFcOn => rcv[Peer(p)].rcvRtWinEdge - LeftmostFree(rcv[Peer(p)]) + 1 = RcvCredit
  <2> DEFINE q == Peer(p)
  <2>1. PICK n, m, r, a \in Nat : Progress(p, n, m, r, a)
    BY DEF Lockstep
  <2>2. /\ n <= MaxSDUs /\ a <= r /\ r <= m /\ m <= n /\ Sending(p, snd[p], n, m, a)
        /\ acked[p] = 1..a /\ rcv[q] = Rcvd(r) /\ handedUp[q] = Counted(r)
        /\ nextCtrl[q] = r + 1
        /\ UnderWay(net[q], "data", r, m) /\ UnderWay(net[p], "ctrl", a, r)
    BY <2>1 DEF Progress
  <2> HIDE DEF q
  <2>3. m <= MaxSeq /\ r \in SeqNum
    <3>1. MaxSDUs \in Nat /\ MaxSeq \in Nat /\ MaxSDUs <= MaxSeq
      BY ConnectionAssumption, QoSAssumption DEF Lossless
    <3> QED
      BY <2>2, <3>1 DEF SeqNum
  <2>4. snd[p] \in S(p)!SndState
    BY <2>2 DEF Sending
  <2>5. nextCtrl[q] \in Nat \ {0}
    BY <2>2
  <2>6. rcv[q] \in R(q)!RcvState /\ ~rcv[q].thrown
    BY <2>2, <2>3, RcvdIsRcvState DEF Rcvd
  <2>7. DataPDUs(q) \subseteq DataPDU
    <3>1. ASSUME NEW i \in 1..Len(net[q]), net[q][i].type = "data"
          PROVE  net[q][i].pdu \in DataPDU
      <4> DEFINE k == net[q][i].pdu.seq
      <4>1. k \in (r + 1)..m /\ net[q][i] = Message("data", k)
        BY <2>2, <3>1 DEF UnderWay
      <4> HIDE DEF k
      <4>2. k \in Nat /\ k <= MaxSeq /\ net[q][i].pdu = Pdu(k)
        BY <2>3, <4>1, QoSAssumption DEF Message
      <4> QED
        BY <4>2, PduIsPDU
    <3> QED
      BY <3>1 DEF DataPDUs, Messages
  <2>8. \A c \in CtrlPDUs(p) : c.seq < nextCtrl[q]
    <3>1. ASSUME NEW i \in 1..Len(net[p]), net[p][i].type = "ctrl"
          PROVE  net[p][i].pdu.seq < nextCtrl[q]
      <4>1. net[p][i].pdu.seq \in (a + 1)..r
        BY <2>2, <3>1 DEF UnderWay
      <4> QED
        BY <2>2, <4>1
    <3> QED
      BY <3>1 DEF CtrlPDUs, Messages
  <2>9. rcv[q].rcvLeftWinEdge = (IF r = 0 THEN 0 ELSE r + 1) /\ rcv[q].rcvRtWinEdge = Credit(r)
    BY <2>2 DEF Rcvd
  <2>10. \A i \in acked[p] : i < rcv[q].rcvLeftWinEdge + MaxAllowGap
    BY <2>2, <2>9 DEF Lossless
  <2>11. \A i \in acked[p] : i \in ToSet(handedUp[q])
    <3>1. ToSet(handedUp[q]) = 1..r
      BY <2>2, CountedIsSequence
    <3> QED
      BY <2>2, <3>1
  <2>12. WindowFcOn => rcv[q].rcvRtWinEdge - LeftmostFree(rcv[q]) + 1 = RcvCredit
    BY <2>9, ConnectionAssumption DEF Credit, LeftmostFree
  <2> QED
    BY <2>4, <2>5, <2>6, <2>7, <2>8, <2>10, <2>11, <2>12 DEF q
<1>2. \A p \in Peers : Peer(p) \in Peers /\ Peer(Peer(p)) = p
  BY TwoPeers
<1>3. ASSUME NEW p \in Peers
      PROVE  /\ nextCtrl[p] \in Nat \ {0} /\ rcv[p] \in R(p)!RcvState /\ ~rcv[p].thrown
             /\ DataPDUs(p) \subseteq DataPDU
             /\ WindowFcOn => rcv[p].rcvRtWinEdge - LeftmostFree(rcv[p]) + 1 = RcvCredit
  <2> DEFINE q == Peer(p)
  <2>1. q \in Peers /\ Peer(q) = p
    BY <1>2
  <2> HIDE DEF q
  <2> QED
    BY <1>1, <2>1
<1>4. TypeOK
  BY <1>1, <1>3 DEF TypeOK
<1>5. AckedWerePassed
  BY <1>1 DEF AckedWerePassed
<1>6. AckedWereHandedUp
  BY <1>1 DEF AckedWereHandedUp
<1>7. WindowIsCredit
  BY <1>3 DEF WindowIsCredit
<1> QED
  BY <1>4, <1>5, <1>6, <1>7 DEF EndsAgree

(* On a path that loses nothing the two ends agree on what was sent,       *)
(* acknowledged, handed up and granted, however many SDUs the users write, *)
(* whatever the credit, and whatever else is under way.                    *)
THEOREM EndsAlwaysAgree == ASSUME Lossless PROVE Spec => []EndsAgree
<1>1. Lockstep => EndsAgree
  BY LockstepAgrees
<1> QED
  BY <1>1, AlwaysInLockstep, PTL

LEMMA OrderedSteps ==
    ASSUME \A p \in Peers : Delivering(p)
    PROVE  [FromA!Next]_(FromA!vars) /\ [FromB!Next]_(FromB!vars)
<1>1. A \in Peers /\ B \in Peers /\ Peer(A) = B /\ Peer(B) = A
  BY ConnectionAssumption DEF Peers, Peer
<1>2. Delivering(A) /\ Delivering(B)
  BY <1>1
<1>3. [FromA!Next]_(FromA!vars)
  BY <1>1, <1>2 DEF Delivering, FromA!Next, FromA!Write, FromA!HandUp, FromA!vars
<1>4. [FromB!Next]_(FromB!vars)
  BY <1>1, <1>2 DEF Delivering, FromB!Next, FromB!Write, FromB!HandUp, FromB!vars
<1> QED
  BY <1>3, <1>4

(* On such a path each direction takes the steps of OrderedDelivery only:  *)
(* a user gets what the other one wrote, once, in order and with no gap.   *)
THEOREM DeliveryIsOrdered ==
    ASSUME Lossless
    PROVE  Spec => /\ FromA!Init /\ [][FromA!Next]_(FromA!vars)
                   /\ FromB!Init /\ [][FromB!Next]_(FromB!vars)
<1>1. Init => FromA!Init /\ FromB!Init
  BY DEF Init, FromA!Init, FromB!Init, Peers
<1>2. Lockstep /\ [Next]_vars => [FromA!Next]_(FromA!vars) /\ [FromB!Next]_(FromB!vars)
  BY StepKeepsLockstep, OrderedSteps
<1> QED
  BY <1>1, <1>2, AlwaysInLockstep, PTL DEF Spec

-----------------------------------------------------------------------------
(* A path that may lose PDUs and let them overtake, without retransmission. *)
(* A number of user data is in one of four places, once: it waits for the  *)
(* window, or is under way, or waits in the receiver's queue, or was handed *)
(* up. The lemmas say of the operators how they move numbers between the   *)
(* places; numbers taken anew are in none of them.                         *)

(* The messages of s that carry user data, and their numbers. *)
IsUser(m) == m.type = "data" /\ ~m.pdu.empty

Users(s) == {i \in 1..Len(s) : IsUser(s[i])}

Nums(s) == {s[i].pdu.seq : i \in Users(s)}

(* No number twice. *)
Once(s) == \A i, j \in Users(s) : s[i].pdu.seq = s[j].pdu.seq => i = j

(* The places f of s, each at most once, are what t is made of. *)
Selects(s, t, f) ==
    /\ \A i \in 1..Len(t) : f[i] \in 1..Len(s) /\ t[i] = s[f[i]]
    /\ \A i, j \in 1..Len(t) : f[i] = f[j] => i = j

LEMMA PartOnce ==
    ASSUME NEW s, NEW t, Once(s), NEW f, Selects(s, t, f)
    PROVE  /\ Once(t) /\ Nums(t) \subseteq Nums(s)
           /\ \A k \in Users(s) :
                 (\A i \in 1..Len(t) : f[i] # k) => s[k].pdu.seq \notin Nums(t)
<1>1. \A i \in Users(t) : i \in 1..Len(t) /\ f[i] \in Users(s) /\ t[i] = s[f[i]]
  BY DEF Users, Selects
<1>2. Once(t)
  BY <1>1 DEF Once, Selects
<1>3. Nums(t) \subseteq Nums(s)
  BY <1>1 DEF Nums
<1>4. ASSUME NEW k \in Users(s), \A i \in 1..Len(t) : f[i] # k
      PROVE  s[k].pdu.seq \notin Nums(t)
  <2> SUFFICES ASSUME NEW i \in Users(t), t[i].pdu.seq = s[k].pdu.seq PROVE FALSE
    BY DEF Nums
  <2>1. f[i] \in Users(s) /\ s[f[i]].pdu.seq = s[k].pdu.seq
    BY <1>1
  <2>2. f[i] = k
    BY <2>1 DEF Once
  <2> QED
    BY <1>1, <1>4, <2>2
<1> QED
  BY <1>2, <1>3, <1>4

LEMMA JoinOnce ==
    ASSUME NEW s, NEW t, IsSequence(s), IsSequence(t)
    PROVE  /\ Nums(s \o t) = Nums(s) \union Nums(t)
           /\ Once(s) /\ Once(t) /\ Nums(s) \intersect Nums(t) = {} => Once(s \o t)
<1> DEFINE r == s \o t
           l == Len(s)
           k == Len(t)
<1>1. /\ l \in Nat /\ k \in Nat /\ Len(r) = l + k
      /\ \A i \in 1..l : r[i] = s[i]
      /\ \A i \in (l + 1)..(l + k) : r[i] = t[i - l]
  BY JoinAt, SequenceAt
<1> HIDE DEF r, l, k
<1>2. \A i \in 1..Len(r) : \/ i \in 1..l
                           \/ i \in (l + 1)..(l + k) /\ i - l \in 1..k
  BY <1>1
<1>3. \A i \in Users(r) : \/ i \in Users(s) /\ i \in 1..l /\ r[i] = s[i]
                          \/ i - l \in Users(t) /\ i \in (l + 1)..(l + k) /\ r[i] = t[i - l]
  BY <1>1, <1>2 DEF Users, l, k
<1>4. \A i \in Users(s) : i \in Users(r) /\ r[i] = s[i]
  <2>1. \A i \in 1..l : i \in 1..Len(r)
    BY <1>1
  <2> QED
    BY <1>1, <2>1 DEF Users, l
<1>5. \A i \in Users(t) : i + l \in Users(r) /\ r[i + l] = t[i]
  <2>1. \A i \in 1..k : i + l \in 1..Len(r) /\ i + l \in (l + 1)..(l + k) /\ (i + l) - l = i
    BY <1>1
  <2>2. \A i \in 1..k : i + l \in 1..Len(r) /\ r[i + l] = t[i]
    BY <1>1, <2>1
  <2> QED
    BY <2>2 DEF Users, k
<1>6. Nums(r) = Nums(s) \union Nums(t)
  <2>1. Nums(r) \subseteq Nums(s) \union Nums(t)
    BY <1>3 DEF Nums
  <2>2. Nums(s) \subseteq Nums(r)
    BY <1>4 DEF Nums
  <2>3. Nums(t) \subseteq Nums(r)
    BY <1>5 DEF Nums
  <2> QED
    BY <2>1, <2>2, <2>3
<1>7. ASSUME Once(s), Once(t), Nums(s) \intersect Nums(t) = {}
      PROVE  Once(r)
  <2> SUFFICES ASSUME NEW i \in Users(r), NEW j \in Users(r), r[i].pdu.seq = r[j].pdu.seq
               PROVE  i = j
    BY DEF Once
  <2>1. CASE i \in Users(s) /\ j \in Users(s) /\ r[i] = s[i] /\ r[j] = s[j]
    BY <1>7, <2>1 DEF Once
  <2>2. CASE /\ i - l \in Users(t) /\ i \in (l + 1)..(l + k) /\ r[i] = t[i - l]
             /\ j - l \in Users(t) /\ j \in (l + 1)..(l + k) /\ r[j] = t[j - l]
    <3>1. i - l = j - l
      BY <1>7, <2>2 DEF Once
    <3> QED
      BY <1>1, <2>2, <3>1
  <2>3. CASE i \in Users(s) /\ r[i] = s[i] /\ j - l \in Users(t) /\ r[j] = t[j - l]
    BY <1>7, <2>3 DEF Nums
  <2>4. CASE j \in Users(s) /\ r[j] = s[j] /\ i - l \in Users(t) /\ r[i] = t[i - l]
    BY <1>7, <2>4 DEF Nums
  <2> QED
    BY <1>3, <2>1, <2>2, <2>3, <2>4
<1> QED
  BY <1>6, <1>7 DEF r

LEMMA WithoutOnce ==
    ASSUME NEW s, IsSequence(s), NEW k \in 1..Len(s), Once(s)
    PROVE  /\ Once(RemoveAt(s, k)) /\ Nums(RemoveAt(s, k)) \subseteq Nums(s)
           /\ IsUser(s[k]) => s[k].pdu.seq \in Nums(s) \ Nums(RemoveAt(s, k))
<1> DEFINE t == RemoveAt(s, k)
           l == Len(s)
           f == [i \in 1..Len(t) |-> IF i < k THEN i ELSE i + 1]
<1>1. PICK X : s \in Seq(X)
  BY DEF IsSequence
<1>2. l \in Nat /\ k \in 1..l /\ s \in Seq(X)
  BY <1>1
<1>3. Len(t) = l - 1 /\ \A i \in 1..(l - 1) : t[i] = IF i < k THEN s[i] ELSE s[i + 1]
  <2> DEFINE x == SubSeq(s, 1, k - 1)
             y == SubSeq(s, k + 1, l)
  <2>1. x \in Seq(X) /\ Len(x) = k - 1 /\ \A i \in 1..(k - 1) : x[i] = s[i]
    BY <1>2
  <2>2. y \in Seq(X) /\ Len(y) = l - k /\ \A i \in 1..(l - k) : y[i] = s[i + k]
    <3>1. y \in Seq(X) /\ Len(y) = l - k
      BY <1>2
    <3>2. ASSUME NEW i \in 1..(l - k)
          PROVE  y[i] = s[i + k]
      <4>1. y[i] = s[(k + 1) + i - 1] /\ (k + 1) + i - 1 = i + k
        BY <1>2, <3>1
      <4> QED
        BY <4>1
    <3> QED
      BY <3>1, <3>2
  <2>3. t = x \o y
    BY DEF RemoveAt
  <2> HIDE DEF x, y, t
  <2>4. /\ Len(t) = (k - 1) + (l - k)
        /\ \A i \in 1..(k - 1) : t[i] = x[i]
        /\ \A i \in k..(l - 1) : t[i] = y[i - (k - 1)]
    <3>1. IsSequence(x) /\ IsSequence(y)
      BY <2>1, <2>2 DEF IsSequence
    <3>2. /\ Len(t) = Len(x) + Len(y)
          /\ \A i \in 1..Len(x) : t[i] = x[i]
          /\ \A i \in (Len(x) + 1)..(Len(x) + Len(y)) : t[i] = y[i - Len(x)]
      BY <2>3, <3>1, JoinAt
    <3>3. (k - 1) + 1 = k /\ (k - 1) + (l - k) = l - 1
      BY <1>2
    <3> QED
      BY <2>1, <2>2, <3>2, <3>3
  <2>5. ASSUME NEW i \in 1..(l - 1)
        PROVE  t[i] = IF i < k THEN s[i] ELSE s[i + 1]
    <3>1. CASE i < k
      BY <1>2, <2>1, <2>4, <3>1
    <3>2. CASE ~(i < k)
      <4>1. i \in k..(l - 1) /\ i - (k - 1) \in 1..(l - k) /\ (i - (k - 1)) + k = i + 1
        BY <1>2, <3>2
      <4> QED
        BY <2>2, <2>4, <3>2, <4>1
    <3> QED
      BY <3>1, <3>2
  <2>6. (k - 1) + (l - k) = l - 1
    BY <1>2
  <2> QED
    BY <2>4, <2>5, <2>6
<1> HIDE DEF t, l
<1>4. \A i \in 1..Len(t) : f[i] \in 1..Len(s) /\ t[i] = s[f[i]] /\ f[i] # k
  <2> SUFFICES ASSUME NEW i \in 1..Len(t)
               PROVE  f[i] \in 1..Len(s) /\ t[i] = s[f[i]] /\ f[i] # k
    OBVIOUS
  <2>1. i \in 1..(l - 1) /\ Len(s) = l
    BY <1>3 DEF l
  <2> QED
    BY <1>2, <1>3, <2>1
<1>5. \A i, j \in 1..Len(t) : f[i] = f[j] => i = j
  BY <1>2, <1>3
<1> HIDE DEF f
<1>6. /\ Once(t) /\ Nums(t) \subseteq Nums(s)
      /\ \A j \in Users(s) : (\A i \in 1..Len(t) : f[i] # j) => s[j].pdu.seq \notin Nums(t)
  <2>1. Selects(s, t, f)
    BY <1>4, <1>5 DEF Selects
  <2> QED
    BY <2>1, PartOnce
<1>7. IsUser(s[k]) => s[k].pdu.seq \in Nums(s) /\ k \in Users(s)
  BY DEF Users, Nums
<1> QED
  BY <1>4, <1>6, <1>7 DEF t

LEMMA TailOnce ==
    ASSUME NEW s, IsSequence(s), s # <<>>, Once(s)
    PROVE  /\ Once(Tail(s)) /\ Nums(Tail(s)) \subseteq Nums(s)
           /\ IsUser(Head(s)) => Head(s).pdu.seq \in Nums(s) \ Nums(Tail(s))
<1> DEFINE t == Tail(s)
           f == [i \in 1..Len(t) |-> i + 1]
<1>1. /\ Len(s) \in Nat /\ Len(s) > 0 /\ Len(t) = Len(s) - 1 /\ Head(s) = s[1]
      /\ \A i \in 1..(Len(s) - 1) : t[i] = s[i + 1]
  BY SequenceAt
<1> HIDE DEF t
<1>2. \A i \in 1..Len(t) : f[i] \in 1..Len(s) /\ t[i] = s[f[i]] /\ f[i] # 1
  BY <1>1
<1>3. \A i, j \in 1..Len(t) : f[i] = f[j] => i = j
  BY <1>1
<1> HIDE DEF f
<1>4. /\ Once(t) /\ Nums(t) \subseteq Nums(s)
      /\ \A j \in Users(s) : (\A i \in 1..Len(t) : f[i] # j) => s[j].pdu.seq \notin Nums(t)
  <2>1. Selects(s, t, f)
    BY <1>2, <1>3 DEF Selects
  <2> QED
    BY <2>1, PartOnce
<1>5. IsUser(s[1]) => s[1].pdu.seq \in Nums(s) /\ 1 \in Users(s)
  BY <1>1 DEF Users, Nums
<1> QED
  BY <1>1, <1>2, <1>4, <1>5 DEF t

LEMMA DataAt ==
    ASSUME NEW q, IsSequence(q)
    PROVE  /\ IsSequence(Data(q)) /\ Len(Data(q)) = Len(q)
           /\ \A i \in 1..Len(q) : Data(q)[i] = [type |-> "data", pdu |-> q[i]]
<1> DEFINE X == {[type |-> "data", pdu |-> q[i]] : i \in 1..Len(q)}
           f == Data(q)
<1>1. Len(q) \in Nat /\ DOMAIN q = 1..Len(q)
  BY DEF IsSequence
<1>2. f = [i \in 1..Len(q) |-> [type |-> "data", pdu |-> q[i]]]
  BY <1>1 DEF Data
<1>3. f \in [1..Len(q) -> X]
  BY <1>2
<1>4. f \in Seq(X)
  BY <1>1, <1>3, FunctionIsSequence
<1> HIDE DEF X, f
<1>5. IsSequence(f)
  BY <1>4 DEF IsSequence
<1>6. Len(f) = Len(q)
  BY <1>1, <1>2, <1>4
<1> QED
  BY <1>2, <1>5, <1>6 DEF f

(* A queue of PDUs is cut in two. *)
LEMMA CutOnce ==
    ASSUME NEW q, IsSequence(q), NEW k \in 0..Len(q), Once(Data(q))
    PROVE  LET a == Data(SubSeq(q, 1, k))
               b == Data(SubSeq(q, k + 1, Len(q)))
           IN  /\ IsSequence(SubSeq(q, 1, k)) /\ IsSequence(SubSeq(q, k + 1, Len(q)))
               /\ Once(a) /\ Once(b) /\ Nums(a) \intersect Nums(b) = {}
               /\ Nums(a) \subseteq Nums(Data(q)) /\ Nums(b) \subseteq Nums(Data(q))
<1> DEFINE l == Len(q)
           x == SubSeq(q, 1, k)
           y == SubSeq(q, k + 1, l)
           a == Data(x)
           b == Data(y)
           s == Data(q)
<1>1. PICK X : q \in Seq(X)
  BY DEF IsSequence
<1>2. l \in Nat /\ k \in 0..l
  BY <1>1
<1>3. x \in Seq(X) /\ Len(x) = k /\ \A i \in 1..k : x[i] = q[i]
  BY <1>1, <1>2
<1>4. y \in Seq(X) /\ Len(y) = l - k /\ \A i \in 1..(l - k) : y[i] = q[i + k]
  <2>1. y \in Seq(X) /\ Len(y) = l - k
    BY <1>1, <1>2
  <2>2. ASSUME NEW i \in 1..(l - k)
        PROVE  y[i] = q[i + k]
    <3>1. y[i] = q[(k + 1) + i - 1] /\ (k + 1) + i - 1 = i + k
      BY <1>1, <1>2, <2>1
    <3> QED
      BY <3>1
  <2> QED
    BY <2>1, <2>2
<1> HIDE DEF x, y, l
<1>5. IsSequence(x) /\ IsSequence(y)
  BY <1>3, <1>4 DEF IsSequence
<1>6. /\ Len(a) = k /\ \A i \in 1..k : a[i] = [type |-> "data", pdu |-> x[i]]
      /\ Len(b) = l - k /\ \A i \in 1..(l - k) : b[i] = [type |-> "data", pdu |-> y[i]]
      /\ Len(s) = l /\ \A i \in 1..l : s[i] = [type |-> "data", pdu |-> q[i]]
  <2>1. Len(a) = Len(x) /\ \A i \in 1..Len(x) : a[i] = [type |-> "data", pdu |-> x[i]]
    BY <1>5, DataAt
  <2>2. Len(b) = Len(y) /\ \A i \in 1..Len(y) : b[i] = [type |-> "data", pdu |-> y[i]]
    BY <1>5, DataAt
  <2>3. Len(s) = Len(q) /\ \A i \in 1..Len(q) : s[i] = [type |-> "data", pdu |-> q[i]]
    BY DataAt
  <2> HIDE DEF a, b, s
  <2> QED
    BY <1>3, <1>4, <2>1, <2>2, <2>3 DEF l
<1> HIDE DEF a, b, s
<1> DEFINE f == [i \in 1..k |-> i]
           g == [i \in 1..(l - k) |-> i + k]
<1>7. \A i \in 1..Len(a) : f[i] \in 1..Len(s) /\ a[i] = s[f[i]] /\ f[i] <= k
  BY <1>2, <1>3, <1>6
<1>8. \A i \in 1..Len(b) : g[i] \in 1..Len(s) /\ b[i] = s[g[i]] /\ g[i] > k
  <2> SUFFICES ASSUME NEW i \in 1..Len(b)
               PROVE  g[i] \in 1..Len(s) /\ b[i] = s[g[i]] /\ g[i] > k
    OBVIOUS
  <2>1. i \in 1..(l - k) /\ i + k \in 1..l /\ i + k > k
    BY <1>2, <1>6
  <2> QED
    BY <1>4, <1>6, <2>1
<1>9. (\A i, j \in 1..Len(a) : f[i] = f[j] => i = j) /\ (\A i, j \in 1..Len(b) : g[i] = g[j] => i = j)
  BY <1>2, <1>6
<1> HIDE DEF f, g
<1>10. Once(s)
  BY DEF s
<1>11. /\ Once(a) /\ Nums(a) \subseteq Nums(s)
       /\ Once(b) /\ Nums(b) \subseteq Nums(s)
       /\ \A j \in Users(s) : (\A i \in 1..Len(b) : g[i] # j) => s[j].pdu.seq \notin Nums(b)
  <2>1. Selects(s, a, f)
    BY <1>7, <1>9 DEF Selects
  <2>2. Selects(s, b, g)
    BY <1>8, <1>9 DEF Selects
  <2>3. Once(a) /\ Nums(a) \subseteq Nums(s)
    BY <1>10, <2>1, PartOnce
  <2> QED
    BY <1>10, <2>2, <2>3, PartOnce
<1>12. Nums(a) \intersect Nums(b) = {}
  <2> SUFFICES ASSUME NEW i \in Users(a) PROVE a[i].pdu.seq \notin Nums(b)
    BY DEF Nums
  <2>1. i \in 1..Len(a) /\ f[i] \in Users(s) /\ a[i] = s[f[i]] /\ f[i] <= k
    BY <1>7 DEF Users
  <2>2. \A j \in 1..Len(b) : g[j] # f[i]
    <3> SUFFICES ASSUME NEW j \in 1..Len(b), g[j] = f[i] PROVE FALSE
      OBVIOUS
    <3>1. f[i] <= k /\ f[i] > k /\ f[i] \in 1..Len(s)
      BY <1>7, <1>8, <2>1
    <3> QED
      BY <1>2, <1>6, <3>1
  <2> QED
    BY <1>11, <2>1, <2>2
<1> QED
  BY <1>5, <1>11, <1>12 DEF a, b, s, x, y, l

(* A PDU by itself. *)
LEMMA OneOnce ==
    ASSUME NEW d
    PROVE  /\ IsSequence(<<d>>) /\ Once(Data(<<d>>))
           /\ Nums(Data(<<d>>)) = IF d.empty THEN {} ELSE {d.seq}
<1>1. <<d>> \in Seq({d}) /\ Len(<<d>>) = 1 /\ <<d>>[1] = d
  OBVIOUS
<1>2. IsSequence(<<d>>)
  BY <1>1 DEF IsSequence
<1> DEFINE s == Data(<<d>>)
<1>3. Len(s) = 1 /\ s[1] = [type |-> "data", pdu |-> d]
  BY <1>1, <1>2, DataAt
<1> HIDE DEF s
<1>4. 1..Len(s) = {1}
  BY <1>3
<1>5. Users(s) = IF d.empty THEN {} ELSE {1}
  BY <1>3, <1>4 DEF Users, IsUser
<1>6. Once(s)
  BY <1>5 DEF Once
<1>7. Nums(s) = IF d.empty THEN {} ELSE {d.seq}
  BY <1>3, <1>5 DEF Nums
<1> QED
  BY <1>2, <1>6, <1>7 DEF s

(* Nothing, and nothing but control PDUs. *)
LEMMA NothingOnce ==
    /\ Data(<<>>) = <<>> /\ Once(<<>>) /\ Nums(<<>>) = {} /\ IsSequence(<<>>)
<1>1. Data(<<>>) = <<>>
  BY DEF Data
<1>2. Users(<<>>) = {}
  BY DEF Users
<1> QED
  BY <1>1, <1>2, EmptySequence DEF Once, Nums

LEMMA CtrlOnce ==
    ASSUME NEW n, NEW out, IsSequence(out)
    PROVE  IsSequence(Ctrl(n, out)) /\ Once(Ctrl(n, out)) /\ Nums(Ctrl(n, out)) = {}
<1> DEFINE body(i) == [type |-> "ctrl",
                       pdu |-> [seq |-> n + i - 1, kind |-> out[i].kind, ack |-> out[i].ack,
                                rwe |-> out[i].rwe, lwe |-> out[i].lwe]]
           X == {body(i) : i \in 1..Len(out)}
           f == Ctrl(n, out)
<1>1. Len(out) \in Nat /\ DOMAIN out = 1..Len(out)
  BY DEF IsSequence
<1>2. f = [i \in 1..Len(out) |-> body(i)]
  BY <1>1 DEF Ctrl
<1>3. \A i : body(i).type = "ctrl"
  OBVIOUS
<1> HIDE DEF body
<1>4. f \in [1..Len(out) -> X]
  BY <1>2
<1>5. f \in Seq(X)
  BY <1>1, <1>4, FunctionIsSequence
<1>6. Len(f) = Len(out)
  BY <1>1, <1>2, <1>5
<1>7. Users(f) = {}
  BY <1>2, <1>3, <1>6 DEF Users, IsUser
<1> QED
  BY <1>5, <1>7 DEF Once, Nums, IsSequence

(* The sender: what it sends and what waits for the window. *)

(* The numbers of user data that wait for the window. *)
Waits(s) == Nums(Data(s.closedWindowQ))

LEMMA DataJoin ==
    ASSUME NEW x, NEW y, IsSequence(x), IsSequence(y)
    PROVE  Data(x \o y) = Data(x) \o Data(y)
<1> DEFINE z == x \o y
           a == Data(x)
           b == Data(y)
           c == Data(z)
           l == Len(x)
           k == Len(y)
<1>1. /\ IsSequence(z) /\ l \in Nat /\ k \in Nat /\ Len(z) = l + k
      /\ \A i \in 1..l : z[i] = x[i]
      /\ \A i \in (l + 1)..(l + k) : z[i] = y[i - l]
  BY JoinAt, SequenceAt, SequenceJoin
<1>2. /\ IsSequence(a) /\ Len(a) = l
      /\ \A i \in 1..l : a[i] = [type |-> "data", pdu |-> x[i]]
  BY DataAt
<1>3. /\ IsSequence(b) /\ Len(b) = k
      /\ \A i \in 1..k : b[i] = [type |-> "data", pdu |-> y[i]]
  BY DataAt
<1> HIDE DEF z
<1>4. /\ IsSequence(c) /\ Len(c) = l + k
      /\ \A i \in 1..(l + k) : c[i] = [type |-> "data", pdu |-> z[i]]
  <2>1. /\ IsSequence(c) /\ Len(c) = Len(z)
        /\ \A i \in 1..Len(z) : c[i] = [type |-> "data", pdu |-> z[i]]
    BY <1>1, DataAt
  <2> HIDE DEF c
  <2> QED
    BY <1>1, <2>1
<1> HIDE DEF a, b, c, l, k
<1> DEFINE d == a \o b
<1>5. /\ IsSequence(d) /\ Len(d) = l + k
      /\ \A i \in 1..l : d[i] = a[i]
      /\ \A i \in (l + 1)..(l + k) : d[i] = b[i - l]
  <2>1. IsSequence(d)
    BY <1>2, <1>3, SequenceJoin
  <2>2. /\ Len(d) = Len(a) + Len(b)
        /\ \A i \in 1..Len(a) : d[i] = a[i]
        /\ \A i \in (Len(a) + 1)..(Len(a) + Len(b)) : d[i] = b[i - Len(a)]
    BY <1>2, <1>3, JoinAt
  <2> HIDE DEF d
  <2> QED
    BY <1>2, <1>3, <2>1, <2>2
<1> HIDE DEF d
<1>6. \A i \in 1..(l + k) : c[i] = d[i]
  <2> SUFFICES ASSUME NEW i \in 1..(l + k) PROVE c[i] = d[i]
    OBVIOUS
  <2>1. CASE i \in 1..l
    BY <1>1, <1>2, <1>4, <1>5, <2>1
  <2>2. CASE i \in (l + 1)..(l + k)
    <3>1. i - l \in 1..k
      BY <1>1, <2>2
    <3> QED
      BY <1>1, <1>3, <1>4, <1>5, <2>2, <3>1
  <2> QED
    BY <1>1, <2>1, <2>2
<1>7. c = d
  <2>1. PICK X : c \in Seq(X)
    BY <1>4 DEF IsSequence
  <2>2. PICK Y : d \in Seq(Y)
    BY <1>5 DEF IsSequence
  <2>3. c \in Seq(X \union Y) /\ d \in Seq(X \union Y)
    BY <2>1, <2>2, WiderSequence
  <2> QED
    BY <1>4, <1>5, <1>6, <2>3, SameSequence
<1> QED
  BY <1>7 DEF a, b, c, d, z

(* What two queues of PDUs hold, put together.                             *)
LEMMA JoinedWaits ==
    ASSUME NEW x, NEW y, IsSequence(x), IsSequence(y), Once(Data(x)), Once(Data(y)),
           Nums(Data(x)) \intersect Nums(Data(y)) = {}
    PROVE  /\ Once(Data(x \o y))
           /\ Nums(Data(x \o y)) = Nums(Data(x)) \union Nums(Data(y))
<1>1. IsSequence(Data(x)) /\ IsSequence(Data(y))
  BY DataAt
<1> QED
  <2> DEFINE a == Data(x)
             b == Data(y)
             c == Data(x \o y)
  <2>1. c = a \o b
    BY DataJoin
  <2> HIDE DEF a, b, c
  <2>2. Nums(a \o b) = Nums(a) \union Nums(b)
    BY <1>1, JoinOnce DEF a, b
  <2>3. Once(a \o b)
    BY <1>1, JoinOnce DEF a, b
  <2> QED
    BY <2>1, <2>2, <2>3 DEF a, b, c

(* A step leaves what waits, and numbers nothing.                          *)
SameQueues(s, t) ==
    /\ DOMAIN t = SndFields
    /\ t.rxQ = s.rxQ
    /\ t.closedWindowQ = s.closedWindowQ
    /\ t.nextSeqNumToSend = s.nextSeqNumToSend

LEMMA QueuesSame ==
    ASSUME NEW p, NEW s, DOMAIN s = SndFields, NEW n
    PROVE  /\ SameQueues(s, S(p)!UpdateSndLWE(s, n))
           /\ SameQueues(s, S(p)!SendToRMT(s, n))
           /\ SameQueues(s, [s EXCEPT !.sndRtWinEdge = n])
           /\ SameQueues(s, [s EXCEPT !.lastControlSeqNumRcv = n])
BY DEF S!UpdateSndLWE, S!SendToRMT, SameQueues, SndFields

LEMMA QueuesSamePosted ==
    ASSUME ~RxOn, NEW p, NEW s, DOMAIN s = SndFields, NEW tx
    PROVE  SameQueues(s, S(p)!Post(s, tx))
<1> DEFINE t == S(p)!SendToRMT(s, tx)
           u == S(p)!UpdateSndLWE(t, t.lastSeqNumSent)
<1>1. SameQueues(s, t)
  BY QueuesSame
<1> HIDE DEF t
<1>2. SameQueues(t, u)
  BY <1>1, QueuesSame DEF SameQueues
<1> HIDE DEF u
<1>3. S(p)!Post(s, tx) = t \/ S(p)!Post(s, tx) = u
  BY DEF S!Post, t, u
<1> QED
  BY <1>1, <1>2, <1>3 DEF SameQueues

LEMMA QueuesSameAcked ==
    ASSUME NEW p, NEW s, DOMAIN s = SndFields, s.rxQ = {}, NEW a, NEW n
    PROVE  SameQueues(s, S(p)!UpdateSndLWE(S(p)!AckPDU(s, a), n))
<1> DEFINE t == S(p)!AckPDU(s, a)
<1>1. SameQueues(s, t)
  BY DEF S!AckPDU, S!AckedBy, SameQueues, SndFields
<1> HIDE DEF t
<1>2. SameQueues(t, S(p)!UpdateSndLWE(t, n))
  BY <1>1, QueuesSame DEF SameQueues
<1> QED
  BY <1>1, <1>2 DEF SameQueues, t

(* A number is taken. *)
Takes(s, t) ==
    /\ DOMAIN t = SndFields
    /\ t.rxQ = s.rxQ
    /\ t.closedWindowQ = s.closedWindowQ
    /\ t.nextSeqNumToSend = s.nextSeqNumToSend + 1

LEMMA NumberTaken ==
    ASSUME NEW p, NEW s, DOMAIN s = SndFields
    PROVE  Takes(s, S(p)!Numbered(s, 1))
BY DEF S!Numbered, Takes, SndFields

LEMMA EmptyTaken ==
    ASSUME ~RxOn, NEW p, NEW s, DOMAIN s = SndFields
    PROVE  Takes(s, S(p)!SendEmptyDTPDU(s))
<1> DEFINE t == S(p)!Numbered(s, 1)
<1>1. Takes(s, t)
  BY NumberTaken
<1>2. S(p)!SendEmptyDTPDU(s) = S(p)!SendToRMT(t, <<S(p)!EmptyPDU(s)>>)
  BY DEF S!SendEmptyDTPDU
<1> HIDE DEF t
<1>3. SameQueues(t, S(p)!SendToRMT(t, <<S(p)!EmptyPDU(s)>>))
  BY <1>1, QueuesSame DEF Takes
<1> QED
  BY <1>1, <1>2, <1>3 DEF Takes, SameQueues

(* A sender whose waiting numbers are waiting once, and are numbers given  *)
(* out already.                                                            *)
Orderly(s) ==
    /\ DOMAIN s = SndFields
    /\ s.rxQ = {}
    /\ s.nextSeqNumToSend \in Nat
    /\ IsSequence(s.closedWindowQ)
    /\ Once(Data(s.closedWindowQ))
    /\ \A i \in Waits(s) : i \in Nat /\ i < s.nextSeqNumToSend

(* A step that sends msgs takes the numbers from the queue that waits for  *)
(* the window, or anew.                                                    *)
New(s, t) == {i \in Nat : s.nextSeqNumToSend <= i /\ i < t.nextSeqNumToSend}

Spreads(s, t, msgs) ==
    /\ Orderly(t)
    /\ t.nextSeqNumToSend >= s.nextSeqNumToSend
    /\ Once(msgs)
    /\ Nums(msgs) \intersect Waits(t) = {}
    /\ Nums(msgs) \subseteq Waits(s) \union New(s, t)
    /\ Waits(t) \subseteq Waits(s) \union New(s, t)

LEMMA WriteSpreads ==
    ASSUME ~RxOn, NEW p, NEW g \in Nat, NEW s, Sound(s, g), Orderly(s)
    PROVE  LET o == S(p)!TrySendGenerated(S(p)!Numbered(s, 1), S(p)!Generated(s, 1))
           IN  Spreads(s, o.st, Data(o.tx))
<1> DEFINE n == s.nextSeqNumToSend
           t == S(p)!Numbered(s, 1)
           q == S(p)!Generated(s, 1)
           d(i) == [seq |-> n + i - 1, drf |-> s.setDRFFlag /\ i = 1, empty |-> FALSE]
           edge == t.sndRtWinEdge
           k == S(p)!OpenPrefix(q, edge)
           sent == SubSeq(q, 1, k)
           held == SubSeq(q, k + 1, Len(q))
           h == S(p)!Hold(t, k, held)
           o == S(p)!TrySendGenerated(t, q)
<1>1. Takes(s, t) /\ n \in Nat
  BY NumberTaken DEF Orderly
<1>2. q \in Seq(PDUs(n + 1)) /\ edge \in Nat
  <2>1. Sound(t, g)
    BY NumberedSound
  <2>2. q \in Seq(PDUs(n + 1))
    BY GeneratedSound
  <2> QED
    BY <2>1, <2>2 DEF Sound
<1>3. q = <<d(1)>>
  <2>1. q = [i \in 1..1 |-> d(i)]
    BY DEF S!Generated
  <2>2. \A i \in 1..1 : i = 1
    OBVIOUS
  <2> HIDE DEF d, q
  <2> QED
    BY <2>1, <2>2
<1>4. IsSequence(q) /\ Once(Data(q)) /\ Nums(Data(q)) = {n}
  <2>1. d(1).empty = FALSE /\ d(1).seq = n
    BY <1>1
  <2> HIDE DEF d, q
  <2> QED
    BY <1>3, <2>1, OneOnce
<1> HIDE DEF t, q, d
<1>5. Orderly(t) /\ Waits(t) = Waits(s) /\ New(s, t) = {n}
  <2>1. Waits(t) = Waits(s)
    BY <1>1 DEF Takes, Waits
  <2>2. New(s, t) = {n}
    BY <1>1 DEF Takes, New
  <2> QED
    BY <1>1, <2>1, <2>2 DEF Takes, Orderly
<1>6. n \notin Waits(t)
  BY <1>1, <1>5 DEF Orderly
<1>7. CASE ~WindowFcOn
  <2>1. o.st = S(p)!Post(t, q) /\ o.tx = q
    BY <1>7 DEF S!TrySendGenerated, S!Outcome
  <2>2. SameQueues(t, o.st)
    BY <1>1, <2>1, QueuesSamePosted DEF Takes
  <2> HIDE DEF o
  <2>3. Orderly(o.st) /\ Waits(o.st) = Waits(t) /\ New(s, o.st) = New(s, t)
    <3>1. Waits(o.st) = Waits(t)
      BY <2>2 DEF SameQueues, Waits
    <3> QED
      BY <1>5, <2>2, <3>1 DEF SameQueues, Orderly, New
  <2>4. o.st.nextSeqNumToSend >= n
    BY <1>1, <2>2 DEF SameQueues, Takes
  <2>5. Spreads(s, o.st, Data(o.tx))
    BY <1>4, <1>5, <1>6, <2>1, <2>3, <2>4 DEF Spreads
  <2> QED
    BY <2>5 DEF o, t, q
<1>8. CASE WindowFcOn
  <2>1. o.st = S(p)!Post(h, sent) /\ o.tx = sent
    BY <1>8 DEF S!TrySendGenerated, S!Outcome
  <2>2. k \in 0..Len(q)
    <3>1. n + 1 \in Nat
      BY <1>1
    <3> QED
      BY <1>2, <3>1, OpenIsInside
  <2> HIDE DEF k
  <2>3. /\ IsSequence(sent) /\ IsSequence(held)
        /\ Once(Data(sent)) /\ Once(Data(held))
        /\ Nums(Data(sent)) \intersect Nums(Data(held)) = {}
        /\ Nums(Data(sent)) \subseteq {n} /\ Nums(Data(held)) \subseteq {n}
    BY <1>4, <2>2, CutOnce
  <2> HIDE DEF sent, held
  <2>4. /\ DOMAIN h = SndFields /\ h.rxQ = t.rxQ /\ h.nextSeqNumToSend = t.nextSeqNumToSend
        /\ h.closedWindowQ = t.closedWindowQ \o held
    BY <1>1 DEF S!Hold, Takes, SndFields
  <2> HIDE DEF h
  <2>5. SameQueues(h, o.st)
    BY <2>1, <2>4, QueuesSamePosted
  <2> HIDE DEF o
  <2>6. /\ IsSequence(o.st.closedWindowQ) /\ Once(Data(o.st.closedWindowQ))
        /\ Waits(o.st) = Waits(t) \union Nums(Data(held))
    <3>1. o.st.closedWindowQ = t.closedWindowQ \o held
      BY <2>4, <2>5 DEF SameQueues
    <3>2. Nums(Data(t.closedWindowQ)) \intersect Nums(Data(held)) = {}
      BY <1>6, <2>3 DEF Waits
    <3>3. IsSequence(t.closedWindowQ) /\ Once(Data(t.closedWindowQ))
      BY <1>5 DEF Orderly
    <3> DEFINE c == t.closedWindowQ
    <3> HIDE DEF c
    <3>4. /\ Once(Data(c \o held))
          /\ Nums(Data(c \o held)) = Nums(Data(c)) \union Nums(Data(held))
      BY <2>3, <3>2, <3>3, JoinedWaits DEF c
    <3>5. IsSequence(c \o held)
      BY <2>3, <3>3, SequenceJoin DEF c
    <3> QED
      BY <3>1, <3>4, <3>5 DEF c, Waits
  <2>7. o.st.nextSeqNumToSend = n + 1 /\ DOMAIN o.st = SndFields /\ o.st.rxQ = {}
    BY <1>1, <2>4, <2>5 DEF SameQueues, Takes, Orderly
  <2>8. Orderly(o.st) /\ New(s, o.st) = {n} /\ o.st.nextSeqNumToSend >= n
    <3>1. New(s, o.st) = {n} /\ o.st.nextSeqNumToSend >= n /\ o.st.nextSeqNumToSend \in Nat
      BY <1>1, <2>7 DEF New
    <3>2. \A i \in Waits(o.st) : i \in Nat /\ i < o.st.nextSeqNumToSend
      BY <1>1, <1>5, <2>3, <2>6, <2>7 DEF Orderly
    <3> QED
      BY <2>6, <2>7, <3>1, <3>2 DEF Orderly
  <2>9. Spreads(s, o.st, Data(o.tx))
    <3>1. Nums(Data(o.tx)) \intersect Waits(o.st) = {}
      BY <1>6, <2>1, <2>3, <2>6
    <3> QED
      BY <1>5, <2>1, <2>3, <2>6, <2>8, <3>1 DEF Spreads
  <2> QED
    BY <2>9 DEF o, t, q
<1> QED
  BY <1>7, <1>8

(* A step that leaves the queue and takes numbers for empty PDUs at most. *)
Grown(s, t) ==
    /\ Orderly(t)
    /\ Waits(t) = Waits(s)
    /\ s.nextSeqNumToSend \in Nat
    /\ t.nextSeqNumToSend >= s.nextSeqNumToSend

LEMMA SameIsGrown ==
    ASSUME NEW s, Orderly(s), NEW t, SameQueues(s, t)
    PROVE  Grown(s, t)
<1>1. Waits(t) = Waits(s)
  BY DEF SameQueues, Waits
<1> QED
  BY <1>1 DEF SameQueues, Orderly, Grown

LEMMA TakenIsGrown ==
    ASSUME NEW s, Orderly(s), NEW t, Takes(s, t)
    PROVE  Grown(s, t)
<1>1. Waits(t) = Waits(s)
  BY DEF Takes, Waits
<1> QED
  BY <1>1 DEF Takes, Orderly, Grown

LEMMA GrownTwice ==
    ASSUME NEW s, NEW t, Grown(s, t), NEW u, Grown(t, u)
    PROVE  Grown(s, u)
BY DEF Grown, Orderly

LEMMA GrownThenSpreads ==
    ASSUME NEW s, NEW t, Grown(s, t), NEW u, NEW msgs, Spreads(t, u, msgs)
    PROVE  Spreads(s, u, msgs)
<1>1. New(t, u) \subseteq New(s, u)
  BY DEF Grown, Orderly, New
<1>2. u.nextSeqNumToSend >= s.nextSeqNumToSend
  BY DEF Grown, Orderly, Spreads
<1> QED
  BY <1>1, <1>2 DEF Grown, Spreads

LEMMA GrownSpreads ==
    ASSUME NEW s, NEW t, Grown(s, t), NEW msgs, Once(msgs), Nums(msgs) = {}
    PROVE  Spreads(s, t, msgs)
BY DEF Grown, Spreads

LEMMA FlowControlSpreads ==
    ASSUME ~RxOn, NEW p, NEW g \in Nat, NEW s, Sound(s, g), Orderly(s), NEW edge \in Nat
    PROVE  LET o == S(p)!FlowControlled(s, edge)
           IN  Spreads(s, o.st, Data(o.tx))
<1> DEFINE q == s.closedWindowQ
           opened == [s EXCEPT !.sndRtWinEdge = edge]
           n == S(p)!OpenPrefix(q, edge)
           sent == SubSeq(q, 1, n)
           rest == SubSeq(q, n + 1, Len(q))
           r == S(p)!Released(opened, n)
           o == S(p)!FlowControlled(s, edge)
<1>1. SameQueues(s, opened)
  BY QueuesSame DEF Orderly
<1>2. CASE q = <<>>
  <2>1. o.st = opened /\ o.tx = <<>>
    BY <1>2 DEF S!FlowControlled, S!Outcome
  <2> HIDE DEF opened, o
  <2>2. Grown(s, o.st)
    BY <1>1, <2>1, SameIsGrown
  <2> QED
    BY <2>1, <2>2, GrownSpreads, NothingOnce DEF o
<1>3. CASE q # <<>>
  <2>1. o.st = S(p)!Post(r, sent) /\ o.tx = sent
    BY <1>3 DEF S!FlowControlled, S!Outcome
  <2>2. n \in 0..Len(q)
    <3>1. s.nextSeqNumToSend \in Nat /\ q \in Seq(PDUs(s.nextSeqNumToSend))
      BY DEF Sound
    <3> QED
      BY <3>1, OpenIsInside
  <2>3. IsSequence(q) /\ Once(Data(q))
    BY DEF Orderly
  <2> HIDE DEF n
  <2>4. /\ IsSequence(sent) /\ IsSequence(rest)
        /\ Once(Data(sent)) /\ Once(Data(rest))
        /\ Nums(Data(sent)) \intersect Nums(Data(rest)) = {}
        /\ Nums(Data(sent)) \subseteq Nums(Data(q)) /\ Nums(Data(rest)) \subseteq Nums(Data(q))
    <3> HIDE DEF q
    <3> QED
      BY <2>2, <2>3, CutOnce
  <2>5. /\ DOMAIN r = SndFields /\ r.rxQ = s.rxQ /\ r.nextSeqNumToSend = s.nextSeqNumToSend
        /\ r.closedWindowQ = rest
    <3>1. opened.closedWindowQ = q /\ opened.rxQ = s.rxQ /\ DOMAIN opened = SndFields
          /\ opened.nextSeqNumToSend = s.nextSeqNumToSend
      BY <1>1 DEF SameQueues
    <3> HIDE DEF opened
    <3> QED
      BY <3>1 DEF S!Released, SndFields
  <2> HIDE DEF r, sent, rest
  <2>6. SameQueues(r, o.st)
    BY <2>1, <2>5, QueuesSamePosted
  <2> HIDE DEF o
  <2>7. Waits(o.st) = Nums(Data(rest))
    BY <2>5, <2>6 DEF SameQueues, Waits
  <2>8. Orderly(o.st) /\ o.st.nextSeqNumToSend = s.nextSeqNumToSend
    <3>1. Waits(o.st) \subseteq Waits(s)
      BY <2>4, <2>7 DEF Waits
    <3> QED
      BY <2>4, <2>5, <2>6, <3>1 DEF SameQueues, Orderly
  <2>9. s.nextSeqNumToSend \in Nat
    BY DEF Orderly
  <2> QED
    BY <2>1, <2>4, <2>7, <2>8, <2>9 DEF Spreads, Waits, o
<1> QED
  BY <1>2, <1>3

LEMMA NumberingGrows ==
    ASSUME ~RxOn, NEW p, NEW s, Orderly(s), NEW m
    PROVE  Grown(s, S(p)!Numbering(s, m))
<1> DEFINE e == S(p)!SendEmptyDTPDU(s)
           t == S(p)!Numbering(s, m)
<1>1. DOMAIN s = SndFields
  BY DEF Orderly
<1>2. Grown(s, e) /\ DOMAIN e = SndFields
  <2>1. Takes(s, e)
    BY <1>1, EmptyTaken
  <2> HIDE DEF e
  <2> QED
    BY <2>1, TakenIsGrown DEF Takes
<1> HIDE DEF e
<1>3. CASE S(p)!LostControl(s, m)
  <2>1. t = [e EXCEPT !.lastControlSeqNumRcv = m.seq]
    BY <1>3 DEF S!Numbering, e
  <2>2. SameQueues(e, t)
    BY <1>2, <2>1 DEF SameQueues, SndFields
  <2> HIDE DEF t
  <2>3. Grown(e, t)
    BY <1>2, <2>2, SameIsGrown DEF Grown
  <2> QED
    BY <1>2, <2>3, GrownTwice DEF t
<1>4. CASE ~S(p)!LostControl(s, m)
  <2>1. t = [s EXCEPT !.lastControlSeqNumRcv = m.seq]
    BY <1>4 DEF S!Numbering
  <2>2. SameQueues(s, t)
    BY <1>1, <2>1 DEF SameQueues, SndFields
  <2> HIDE DEF t
  <2> QED
    BY <2>2, SameIsGrown DEF t
<1> QED
  BY <1>3, <1>4

(* An empty PDU has no user data. *)
LEMMA EmptyNumbers ==
    ASSUME NEW d, d.empty = TRUE
    PROVE  Once(Data(<<d>>)) /\ Nums(Data(<<d>>)) = {}
BY OneOnce

LEMMA ControlSpreads ==
    ASSUME ~RxOn, NEW p, NEW g \in Nat, NEW s, Sound(s, g), Orderly(s),
           NEW m, Says(m), CreditsFit => m.rwe <= g
    PROVE  LET o == S(p)!HandleControl(s, m)
           IN  /\ Spreads(s, o.st, Data(o.tx))
               /\ Once(Data(o.lead)) /\ Nums(Data(o.lead)) = {}
               /\ IsSequence(o.lead) /\ IsSequence(o.tx)
<1> DEFINE s1 == S(p)!Numbering(s, m)
           lead == IF S(p)!LostControl(s, m) THEN <<S(p)!EmptyPDU(s)>> ELSE <<>>
           a == S(p)!SenderAck(s1, m.ack)
           s2 == IF S(p)!Carries(m.kind).ack THEN a ELSE s1
           fc == S(p)!FlowControlled(s2, m.rwe)
           ca == S(p)!RcvrControlAck(s1, m)
           rp == S(p)!RepeatedEmptyPDU(s1)
           o == S(p)!HandleControl(s, m)
<1>1. IsSequence(o.lead) /\ IsSequence(o.tx)
  <2>1. \E n : Sent(o.lead, n, g) /\ Sent(o.tx, n, g)
    BY ControlSends
  <2> HIDE DEF o
  <2> QED
    BY <2>1 DEF Sent, IsSequence
<1>2. Once(Data(lead)) /\ Nums(Data(lead)) = {}
  <2>1. S(p)!EmptyPDU(s).empty = TRUE
    BY DEF S!EmptyPDU
  <2>2. Once(Data(<<S(p)!EmptyPDU(s)>>)) /\ Nums(Data(<<S(p)!EmptyPDU(s)>>)) = {}
    BY <2>1, EmptyNumbers
  <2> QED
    BY <2>2, NothingOnce
<1>3. Once(Data(<<rp>>)) /\ Nums(Data(<<rp>>)) = {}
  <2>1. rp.empty = TRUE
    BY DEF S!RepeatedEmptyPDU
  <2> HIDE DEF rp
  <2> QED
    BY <2>1, EmptyNumbers
<1>4. Grown(s, s1) /\ Sound(s1, g) /\ Orderly(s1)
  <2>1. Grown(s, s1)
    BY NumberingGrows
  <2>2. Sound(s1, g)
    BY NumberingSends DEF Says
  <2> QED
    BY <2>1, <2>2 DEF Grown
<1>5. Once(Data(<<>>)) /\ Nums(Data(<<>>)) = {}
  BY NothingOnce
<1>6. /\ o = IF S(p)!DuplicateControl(s, m) THEN S(p)!Outcome(s, <<>>, <<>>)
             ELSE IF m.kind = "ctrlAck" THEN S(p)!Outcome(ca, lead, <<rp>>)
             ELSE IF S(p)!Carries(m.kind).fc THEN [fc EXCEPT !.lead = lead]
             ELSE S(p)!Outcome(s2, lead, <<>>)
  BY DEF S!HandleControl
<1> HIDE DEF s1, lead, rp
<1>7. Grown(s1, s2) /\ Sound(s2, g)
  <2>1. SameQueues(s1, a) /\ Sound(a, g)
    <3>1. a = S(p)!UpdateSndLWE(S(p)!AckPDU(s1, m.ack), S(p)!UInt(m.ack + 1))
      BY DEF S!SenderAck
    <3>2. DOMAIN s1 = SndFields /\ s1.rxQ = {}
      BY <1>4 DEF Orderly
    <3> HIDE DEF a
    <3> QED
      BY <1>4, <3>1, <3>2, QueuesSameAcked, AckedSound
  <2>2. SameQueues(s1, s1)
    BY <1>4 DEF SameQueues, Orderly
  <2> HIDE DEF a
  <2> QED
    BY <1>4, <2>1, <2>2, SameIsGrown
<1> HIDE DEF s2, a
<1>8. Grown(s, s2)
  BY <1>4, <1>7, GrownTwice
<1>9. Spreads(s, fc.st, Data(fc.tx)) /\ DOMAIN fc = {"st", "lead", "tx"}
  <2>1. Orderly(s2) /\ m.rwe \in Nat
    BY <1>7 DEF Grown, Says
  <2>2. Spreads(s2, fc.st, Data(fc.tx))
    BY <1>7, <2>1, FlowControlSpreads
  <2>3. DOMAIN fc = {"st", "lead", "tx"}
    BY DEF S!FlowControlled, S!Outcome
  <2> HIDE DEF fc
  <2> QED
    BY <1>8, <2>2, <2>3, GrownThenSpreads
<1> HIDE DEF fc
<1>10. Grown(s, ca)
  <2> DEFINE heard == IF m.lwe > s1.senderLeftWinEdge
                        THEN S(p)!UpdateSndLWE(S(p)!AckPDU(s1, m.lwe - 1), m.lwe) ELSE s1
             w == [heard EXCEPT !.sndRtWinEdge = m.rwe]
  <2>1. SameQueues(s1, heard)
    <3>1. DOMAIN s1 = SndFields /\ s1.rxQ = {}
      BY <1>4 DEF Orderly
    <3>2. SameQueues(s1, S(p)!UpdateSndLWE(S(p)!AckPDU(s1, m.lwe - 1), m.lwe))
      BY <3>1, QueuesSameAcked
    <3> QED
      BY <3>1, <3>2 DEF SameQueues
  <2>2. ca = S(p)!SendToRMT(w, <<S(p)!RepeatedEmptyPDU(s1)>>)
    BY DEF S!RcvrControlAck
  <2> HIDE DEF heard
  <2>3. SameQueues(heard, w)
    BY <2>1, QueuesSame DEF SameQueues
  <2> HIDE DEF w
  <2>4. SameQueues(w, ca)
    BY <2>2, <2>3, QueuesSame DEF SameQueues
  <2>5. SameQueues(s1, ca)
    BY <2>1, <2>3, <2>4 DEF SameQueues
  <2> HIDE DEF ca
  <2> QED
    BY <1>4, <2>5, SameIsGrown, GrownTwice
<1> HIDE DEF ca
<1>11. CASE S(p)!DuplicateControl(s, m)
  <2>1. o.st = s /\ o.lead = <<>> /\ o.tx = <<>>
    BY <1>6, <1>11 DEF S!Outcome
  <2>2. SameQueues(s, s)
    BY DEF SameQueues, Orderly
  <2>3. Spreads(s, s, Data(<<>>))
    BY <1>5, <2>2, SameIsGrown, GrownSpreads
  <2> HIDE DEF o
  <2> QED
    BY <1>1, <1>5, <2>1, <2>3 DEF o
<1>12. CASE ~S(p)!DuplicateControl(s, m) /\ m.kind = "ctrlAck"
  <2>1. o.st = ca /\ o.lead = lead /\ o.tx = <<rp>>
    BY <1>6, <1>12 DEF S!Outcome
  <2>2. Spreads(s, ca, Data(<<rp>>))
    BY <1>3, <1>10, GrownSpreads
  <2> HIDE DEF o
  <2> QED
    BY <1>1, <1>2, <2>1, <2>2 DEF o
<1>13. CASE ~S(p)!DuplicateControl(s, m) /\ m.kind # "ctrlAck" /\ S(p)!Carries(m.kind).fc
  <2>1. o = [fc EXCEPT !.lead = lead]
    BY <1>6, <1>13
  <2>2. o.st = fc.st /\ o.lead = lead /\ o.tx = fc.tx
    <3> HIDE DEF o
    <3> QED
      BY <1>9, <2>1
  <2> HIDE DEF o
  <2> QED
    BY <1>1, <1>2, <1>9, <2>2 DEF o
<1>14. CASE ~S(p)!DuplicateControl(s, m) /\ m.kind # "ctrlAck" /\ ~S(p)!Carries(m.kind).fc
  <2>1. o.st = s2 /\ o.lead = lead /\ o.tx = <<>>
    BY <1>6, <1>14 DEF S!Outcome
  <2>2. Spreads(s, s2, Data(<<>>))
    BY <1>5, <1>8, GrownSpreads
  <2> HIDE DEF o
  <2> QED
    BY <1>1, <1>2, <2>1, <2>2 DEF o
<1> QED
  BY <1>11, <1>12, <1>13, <1>14

(* The receiver: what it queues and what it hands up. *)

(* The numbers of user data in a receiver's queue. *)
UserNums(Q) == SeqNums({d \in Q : ~d.empty})

SameReassembly(r, s) ==
    DOMAIN s = RcvFields /\ s.reassemblyPDUQ = r.reassemblyPDUQ

(* What was queued and what came is split in what is queued and what goes  *)
(* up; no number of user data is in both parts.                            *)
Splits(Q, D, o) ==
    /\ UserNums(o.st.reassemblyPDUQ) \subseteq UserNums(Q) \union D
    /\ UserNums(o.up) \subseteq UserNums(Q) \union D
    /\ UserNums(o.st.reassemblyPDUQ) \intersect UserNums(o.up) = {}

(* The number of user data that d brings. *)
Brings(d) == IF d.empty THEN {} ELSE {d.seq}

LEMMA UserNumsOf ==
    /\ UserNums({}) = {}
    /\ \A d : UserNums({d}) = Brings(d)
    /\ \A P, Q : UserNums(P \union Q) = UserNums(P) \union UserNums(Q)
    /\ \A P, Q : P \subseteq Q => UserNums(P) \subseteq UserNums(Q)
BY DEF UserNums, SeqNums, Brings

LEMMA UserNumsJoin ==
    ASSUME NEW P, NEW d
    PROVE  UserNums(P \union {d}) = UserNums(P) \union Brings(d)
<1>1. UserNums(P \union {d}) = UserNums(P) \union UserNums({d}) /\ UserNums({d}) = Brings(d)
  BY UserNumsOf
<1> QED
  BY <1>1

LEMMA HandedApart ==
    ASSUME NEW p, NEW r
    PROVE  UserNums(r.reassemblyPDUQ \ R(p)!Deliverable(r)) \intersect UserNums(R(p)!Deliverable(r)) = {}
BY DEF UserNums, SeqNums, R!Deliverable

LEMMA DelimitLeaves ==
    ASSUME NEW p, NEW r, DOMAIN r = RcvFields
    PROVE  /\ DOMAIN R(p)!Delimit(r) = RcvFields
           /\ R(p)!Delimit(r).reassemblyPDUQ = r.reassemblyPDUQ \ R(p)!Deliverable(r)
           /\ R(p)!Deliverable(r) \subseteq r.reassemblyPDUQ
BY DEF R!Delimit, RcvFields, R!Deliverable

LEMMA ReassemblySame ==
    ASSUME NEW p, NEW r, DOMAIN r = RcvFields, NEW n
    PROVE  /\ SameReassembly(r, R(p)!UpdateRcvLWE(r))
           /\ SameReassembly(r, R(p)!StartATimer(r, n))
           /\ SameReassembly(r, R(p)!SetMaxSeqNumRcvd(r, n))
BY DEF R!UpdateRcvLWE, R!StartATimer, R!SetMaxSeqNumRcvd, SameReassembly, RcvFields

LEMMA ReassemblySameFields ==
    ASSUME NEW r, DOMAIN r = RcvFields, NEW n
    PROVE  /\ SameReassembly(r, [r EXCEPT !.rcvLeftWinEdge = n])
           /\ SameReassembly(r, [r EXCEPT !.rcvRtWinEdge = @ + 1])
           /\ SameReassembly(r, [r EXCEPT !.maxSeqNumRcvd = @ + 1])
           /\ SameReassembly(r, [r EXCEPT !.aTimers[n] = @ - 1])
BY DEF SameReassembly, RcvFields

LEMMA ReassemblySameUpdated ==
    ASSUME ~RxOn, NEW p, NEW r, DOMAIN r = RcvFields
    PROVE  SameReassembly(r, R(p)!SvUpdate(r))
<1> DEFINE u == R(p)!UpdateRcvLWE(r)
<1>1. SameReassembly(r, u)
  BY ReassemblySame
<1>2. R(p)!SvUpdate(r) = IF WindowFcOn THEN [u EXCEPT !.rcvRtWinEdge = @ + 1] ELSE u
  BY DEF R!SvUpdate, R!Credited
<1> HIDE DEF u
<1>3. SameReassembly(u, [u EXCEPT !.rcvRtWinEdge = @ + 1])
  BY <1>1, ReassemblySameFields DEF SameReassembly
<1> QED
  BY <1>1, <1>2, <1>3 DEF SameReassembly

LEMMA ReassemblyAdds ==
    ASSUME NEW p, NEW r, DOMAIN r = RcvFields, NEW d
    PROVE  /\ DOMAIN R(p)!AddToReassemblyQ(r, d) = RcvFields
           /\ R(p)!AddToReassemblyQ(r, d).reassemblyPDUQ \subseteq r.reassemblyPDUQ \union {d}
BY DEF R!AddToReassemblyQ, RcvFields

(* The end of most handlers. *)
LEMMA HandedSplits ==
    ASSUME NEW p, NEW r, DOMAIN r = RcvFields, NEW Q, NEW d, NEW out,
           r.reassemblyPDUQ \subseteq Q \union {d}
    PROVE  Splits(Q, Brings(d), R(p)!Handed(r, out))
<1> DEFINE o == R(p)!Handed(r, out)
           D == R(p)!Deliverable(r)
<1>1. o.st.reassemblyPDUQ = r.reassemblyPDUQ \ D /\ o.up = D /\ D \subseteq r.reassemblyPDUQ
  BY DelimitLeaves DEF R!Handed, R!Outcome
<1>2. UserNums(r.reassemblyPDUQ \ D) \intersect UserNums(D) = {}
  BY HandedApart
<1> HIDE DEF o, D
<1>3. UserNums(Q \union {d}) = UserNums(Q) \union Brings(d)
  BY UserNumsJoin
<1>4. /\ UserNums(o.st.reassemblyPDUQ) \subseteq UserNums(Q \union {d})
      /\ UserNums(o.up) \subseteq UserNums(Q \union {d})
  <2>1. o.st.reassemblyPDUQ \subseteq Q \union {d} /\ o.up \subseteq Q \union {d}
    BY <1>1
  <2> QED
    BY <2>1, UserNumsOf
<1> QED
  BY <1>1, <1>2, <1>3, <1>4 DEF Splits, o

LEMMA NothingSplits ==
    ASSUME NEW p, NEW r, NEW D, NEW out
    PROVE  Splits(r.reassemblyPDUQ, D, R(p)!Outcome(r, {}, out))
<1>1. R(p)!Outcome(r, {}, out).st = r /\ R(p)!Outcome(r, {}, out).up = {}
  BY DEF R!Outcome
<1> QED
  BY <1>1, UserNumsOf DEF Splits

LEMMA StartSplits ==
    ASSUME ~RxOn, NEW p, NEW r, DOMAIN r = RcvFields, NEW d,
           Brings(d) \intersect UserNums(r.reassemblyPDUQ) = {}
    PROVE  Splits(r.reassemblyPDUQ, Brings(d), R(p)!StartOfRun(r, d))
<1> DEFINE Q == r.reassemblyPDUQ
           b == R(p)!Delimit(r)
           e == [b EXCEPT !.reassemblyPDUQ = {}]
           m == R(p)!SetMaxSeqNumRcvd(e, d.seq)
           f == [m EXCEPT !.rcvLeftWinEdge = d.seq + 1]
           a == R(p)!AddToReassemblyQ(f, d)
           u == IF R(p)!DtcpPresent THEN R(p)!SvUpdate(a) ELSE a
           D == R(p)!Deliverable(r)
           U == R(p)!Deliverable(u)
           o == R(p)!StartOfRun(r, d)
<1>1. DOMAIN b = RcvFields /\ D \subseteq Q
  BY DelimitLeaves
<1>2. o.st = R(p)!Delimit(u) /\ o.up = D \union U
  BY DEF R!StartOfRun, R!Outcome
<1> HIDE DEF b, D, o
<1>3. DOMAIN e = RcvFields /\ e.reassemblyPDUQ = {}
  BY <1>1 DEF RcvFields
<1> HIDE DEF e
<1>4. SameReassembly(e, m)
  BY <1>3, ReassemblySame
<1> HIDE DEF m
<1>5. SameReassembly(m, f)
  BY <1>4, ReassemblySameFields DEF SameReassembly
<1> HIDE DEF f
<1>6. DOMAIN a = RcvFields /\ a.reassemblyPDUQ \subseteq {d}
  <2>1. DOMAIN f = RcvFields /\ f.reassemblyPDUQ = {}
    BY <1>3, <1>4, <1>5 DEF SameReassembly
  <2>2. {} \union {d} = {d}
    OBVIOUS
  <2> QED
    BY <2>1, <2>2, ReassemblyAdds
<1> HIDE DEF a
<1>7. DOMAIN u = RcvFields /\ u.reassemblyPDUQ \subseteq {d}
  <2>1. SameReassembly(a, R(p)!SvUpdate(a))
    BY <1>6, ReassemblySameUpdated
  <2> QED
    BY <1>6, <2>1 DEF SameReassembly
<1> HIDE DEF u
<1>8. /\ R(p)!Delimit(u).reassemblyPDUQ = u.reassemblyPDUQ \ U /\ U \subseteq {d}
      /\ UserNums(u.reassemblyPDUQ \ U) \intersect UserNums(U) = {}
  <2>1. R(p)!Delimit(u).reassemblyPDUQ = u.reassemblyPDUQ \ U /\ U \subseteq u.reassemblyPDUQ
    BY <1>7, DelimitLeaves
  <2> QED
    BY <1>7, <2>1, HandedApart
<1> HIDE DEF U
<1>9. /\ UserNums(u.reassemblyPDUQ \ U) \subseteq Brings(d)
      /\ UserNums(U) \subseteq Brings(d) /\ UserNums(D) \subseteq UserNums(Q)
      /\ UserNums(D \union U) = UserNums(D) \union UserNums(U)
  <2>1. u.reassemblyPDUQ \ U \subseteq {d} /\ U \subseteq {d}
    BY <1>7, <1>8
  <2>2. UserNums({d}) = Brings(d)
    BY UserNumsOf
  <2>3. UserNums(u.reassemblyPDUQ \ U) \subseteq UserNums({d}) /\ UserNums(U) \subseteq UserNums({d})
    BY <2>1, UserNumsOf
  <2>4. UserNums(D) \subseteq UserNums(Q)
    BY <1>1, UserNumsOf
  <2>5. UserNums(D \union U) = UserNums(D) \union UserNums(U)
    BY UserNumsOf
  <2> QED
    BY <2>2, <2>3, <2>4, <2>5
<1> HIDE DEF Q
<1>10. Brings(d) \intersect UserNums(Q) = {}
  BY DEF Q
<1>11. Splits(Q, Brings(d), o)
  BY <1>2, <1>8, <1>9, <1>10 DEF Splits
<1> QED
  BY <1>11 DEF Q, o

LEMMA ReceiveSplits ==
    ASSUME ~RxOn, NEW p, NEW r, DOMAIN r = RcvFields, NEW d,
           Brings(d) \intersect UserNums(r.reassemblyPDUQ) = {}
    PROVE  Splits(r.reassemblyPDUQ, Brings(d), R(p)!Receive(r, d))
<1> DEFINE Q == r.reassemblyPDUQ
           a == R(p)!AddToReassemblyQ(r, d)
           n == [r EXCEPT !.maxSeqNumRcvd = @ + 1]
           b == R(p)!AddToReassemblyQ(n, d)
           g == R(p)!SetMaxSeqNumRcvd(a, d.seq)
           OK(o) == Splits(Q, Brings(d), o)
           Held(x) == DOMAIN x = RcvFields /\ x.reassemblyPDUQ \subseteq Q \union {d}
<1>1. Held(a)
  BY ReassemblyAdds
<1>2. Held(b)
  <2>1. SameReassembly(r, n)
    BY ReassemblySameFields
  <2> HIDE DEF n
  <2> QED
    BY <2>1, ReassemblyAdds DEF SameReassembly
<1>3. Held(g)
  <2> HIDE DEF a
  <2>1. SameReassembly(a, g)
    BY <1>1, ReassemblySame
  <2> QED
    BY <1>1, <2>1 DEF SameReassembly
<1>4. ASSUME NEW x, Held(x)
      PROVE  /\ Held(R(p)!SvUpdate(x))
             /\ \A k : Held([x EXCEPT !.rcvLeftWinEdge = k])
             /\ \A k : Held(R(p)!StartATimer(x, k))
             /\ \A out : OK(R(p)!Handed(x, out))
  <2>1. SameReassembly(x, R(p)!SvUpdate(x))
    BY <1>4, ReassemblySameUpdated
  <2>2. \A k : SameReassembly(x, [x EXCEPT !.rcvLeftWinEdge = k]) /\ SameReassembly(x, R(p)!StartATimer(x, k))
    BY <1>4, ReassemblySame, ReassemblySameFields
  <2>3. \A out : OK(R(p)!Handed(x, out))
    BY <1>4, HandedSplits
  <2> QED
    BY <1>4, <2>1, <2>2, <2>3 DEF SameReassembly
<1>5. \A out : OK(R(p)!Outcome(r, {}, out))
  BY NothingSplits
<1>6. OK(R(p)!StartOfRun(r, d))
  BY StartSplits
<1>7. OK(R(p)!DropDuplicate(r))
  BY <1>5 DEF R!DropDuplicate
<1>8. OK(R(p)!IntoGap(r, d))
  <2>1. \E x, out : Held(x) /\ R(p)!IntoGap(r, d) = R(p)!Handed(x, out)
    <3> HIDE DEF Held
    <3>1. CASE R(p)!DtcpPresent
      BY <1>1, <1>4, <3>1 DEF R!IntoGap
    <3>2. CASE ~R(p)!DtcpPresent
      BY <1>1, <1>4, <3>2 DEF R!IntoGap
    <3> QED
      BY <3>1, <3>2
  <2> HIDE DEF Held, OK
  <2> QED
    BY <1>4, <2>1
<1>9. OK(R(p)!NextInOrder(r, d))
  <2>1. \E x, out : Held(x) /\ R(p)!NextInOrder(r, d) = R(p)!Handed(x, out)
    <3> HIDE DEF Held
    <3>1. CASE R(p)!DtcpPresent
      BY <1>2, <1>4, <3>1 DEF R!NextInOrder
    <3>2. CASE ~R(p)!DtcpPresent
      BY <1>2, <1>4, <3>2 DEF R!NextInOrder
    <3> QED
      BY <3>1, <3>2
  <2> HIDE DEF Held, OK
  <2> QED
    BY <1>4, <2>1
<1>10. OK(R(p)!BeyondGap(r, d))
  <2>1. \E x, out : Held(x) /\ R(p)!BeyondGap(r, d) = R(p)!Handed(x, out)
    <3> HIDE DEF Held
    <3>1. CASE R(p)!DtcpPresent
      BY <1>3, <1>4, <3>1 DEF R!BeyondGap
    <3>2. CASE ~R(p)!DtcpPresent
      BY <1>3, <1>4, <3>2 DEF R!BeyondGap
    <3> QED
      BY <3>1, <3>2
  <2> HIDE DEF Held, OK
  <2> QED
    BY <1>4, <2>1
<1> HIDE DEF OK
<1>11. OK(R(p)!Receive(r, d))
  BY <1>5, <1>6, <1>7, <1>8, <1>9, <1>10 DEF R!Receive
<1> QED
  BY <1>11 DEF OK

LEMMA ATimerSplits ==
    ASSUME ~RxOn, NEW p, NEW r, DOMAIN r = RcvFields, NEW n
    PROVE  Splits(r.reassemblyPDUQ, {}, R(p)!ATimerFired(r, n))
<1> DEFINE f == [r EXCEPT !.aTimers[n] = @ - 1]
           d == [seq |-> 0, drf |-> FALSE, empty |-> TRUE]
           u == R(p)!UpdateRcvLWE(f)
           w == [f EXCEPT !.rcvLeftWinEdge = IF @ > n THEN @ ELSE n]
<1>1. SameReassembly(r, f)
  BY ReassemblySameFields
<1>2. R(p)!ATimerFired(r, n) = IF R(p)!DtcpPresent THEN R(p)!Handed(u, <<>>) ELSE R(p)!Handed(w, <<>>)
  BY DEF R!ATimerFired
<1> HIDE DEF f
<1>3. SameReassembly(f, u)
  BY <1>1, ReassemblySame DEF SameReassembly
<1>4. SameReassembly(f, w)
  BY <1>1 DEF SameReassembly, RcvFields
<1>5. Brings(d) = {}
  BY DEF Brings
<1> HIDE DEF u, w, d
<1>6. /\ DOMAIN u = RcvFields /\ u.reassemblyPDUQ \subseteq r.reassemblyPDUQ \union {d}
      /\ DOMAIN w = RcvFields /\ w.reassemblyPDUQ \subseteq r.reassemblyPDUQ \union {d}
  BY <1>1, <1>3, <1>4 DEF SameReassembly
<1>7. /\ Splits(r.reassemblyPDUQ, Brings(d), R(p)!Handed(u, <<>>))
      /\ Splits(r.reassemblyPDUQ, Brings(d), R(p)!Handed(w, <<>>))
  BY <1>6, HandedSplits
<1> QED
  BY <1>2, <1>5, <1>7

(* The four places. *)

Apart(V, W, X, Y) ==
    /\ V \intersect W = {} /\ V \intersect X = {} /\ V \intersect Y = {}
    /\ W \intersect X = {} /\ W \intersect Y = {} /\ X \intersect Y = {}

(* Of one direction, sender s, channel N, receiver's queue Q and what was  *)
(* handed up: a number of user data is in one of the four places, once.    *)
Separate(s, N, Q, h) ==
    /\ Orderly(s)
    /\ Once(N)
    /\ IsSequence(h) /\ IsInjective(h)
    /\ Apart(Waits(s), Nums(N), UserNums(Q), ToSet(h))
    /\ \A i \in Nums(N) \union UserNums(Q) \union ToSet(h) :
          i \in Nat /\ i < s.nextSeqNumToSend

LEMMA FewerSeparate ==
    ASSUME NEW s, NEW N, NEW Q, NEW h, Separate(s, N, Q, h),
           NEW C, Once(C), Nums(C) \subseteq Nums(N)
    PROVE  Separate(s, C, Q, h)
BY DEF Separate, Apart

LEMMA SentSeparate ==
    ASSUME NEW s, NEW N, NEW Q, NEW h, Separate(s, N, Q, h), IsSequence(N),
           NEW t, NEW msgs, IsSequence(msgs), Spreads(s, t, msgs)
    PROVE  Separate(t, N \o msgs, Q, h)
<1> DEFINE M == N \o msgs
           I == Nums(N) \union UserNums(Q) \union ToSet(h)
<1>1. s.nextSeqNumToSend \in Nat /\ t.nextSeqNumToSend \in Nat
      /\ s.nextSeqNumToSend <= t.nextSeqNumToSend
  BY DEF Spreads, Separate, Orderly
<1>2. New(s, t) \intersect I = {}
  BY <1>1 DEF Separate, New
<1>3. \A i \in Nums(msgs) : i \in Nat /\ i < t.nextSeqNumToSend
  BY <1>1 DEF Spreads, Separate, Orderly, New
<1>4. Waits(s) \intersect I = {}
  BY DEF Separate, Apart
<1>5. Nums(msgs) \intersect I = {} /\ Waits(t) \intersect I = {}
  BY <1>2, <1>4 DEF Spreads
<1>6. Nums(msgs) \intersect Nums(N) = {} /\ Once(msgs) /\ Once(N)
  BY <1>5 DEF Separate, Spreads
<1>7. Nums(M) = Nums(N) \union Nums(msgs) /\ Once(M)
  BY <1>6, JoinOnce
<1> HIDE DEF M
<1>8. \A i \in I : i \in Nat /\ i < t.nextSeqNumToSend
  BY <1>1 DEF Separate
<1>9. Apart(Waits(t), Nums(M), UserNums(Q), ToSet(h))
  BY <1>5, <1>7 DEF Apart, Separate, Spreads
<1>10. \A i \in Nums(M) \union UserNums(Q) \union ToSet(h) : i \in Nat /\ i < t.nextSeqNumToSend
  BY <1>3, <1>7, <1>8
<1> QED
  BY <1>7, <1>9, <1>10 DEF Separate, Spreads, M

LEMMA InjectiveJoin ==
    ASSUME NEW s, NEW t, IsSequence(s), IsSequence(t), IsInjective(s), IsInjective(t),
           ToSet(s) \intersect ToSet(t) = {}
    PROVE  /\ IsSequence(s \o t) /\ IsInjective(s \o t)
           /\ ToSet(s \o t) \subseteq ToSet(s) \union ToSet(t)
<1> DEFINE r == s \o t
           l == Len(s)
           k == Len(t)
<1>1. /\ l \in Nat /\ k \in Nat /\ Len(r) = l + k /\ IsSequence(r)
      /\ \A i \in 1..l : r[i] = s[i]
      /\ \A i \in (l + 1)..(l + k) : r[i] = t[i - l]
  BY JoinAt, SequenceAt, SequenceJoin
<1>2. DOMAIN s = 1..l /\ DOMAIN t = 1..k
  BY DEF IsSequence
<1>3. DOMAIN r = 1..(l + k)
  <2> HIDE DEF r, l, k
  <2> QED
    BY <1>1 DEF IsSequence
<1> HIDE DEF r, l, k
<1>4. \A i \in 1..(l + k) : \/ i \in 1..l /\ r[i] = s[i]
                            \/ i \in (l + 1)..(l + k) /\ i - l \in 1..k /\ r[i] = t[i - l]
  <2> SUFFICES ASSUME NEW i \in 1..(l + k)
               PROVE  \/ i \in 1..l /\ r[i] = s[i]
                      \/ i \in (l + 1)..(l + k) /\ i - l \in 1..k /\ r[i] = t[i - l]
    OBVIOUS
  <2>1. \/ i \in 1..l
        \/ i \in (l + 1)..(l + k) /\ i - l \in 1..k
    BY <1>1
  <2> QED
    BY <1>1, <2>1
<1>5. (\A i \in 1..l : s[i] \in ToSet(s)) /\ (\A i \in 1..k : t[i] \in ToSet(t))
  BY <1>2 DEF ToSet
<1>6. ToSet(r) \subseteq ToSet(s) \union ToSet(t)
  <2> SUFFICES ASSUME NEW i \in 1..(l + k) PROVE r[i] \in ToSet(s) \union ToSet(t)
    BY <1>3 DEF ToSet
  <2> QED
    BY <1>4, <1>5
<1>7. IsInjective(r)
  <2> SUFFICES ASSUME NEW i \in 1..(l + k), NEW j \in 1..(l + k), r[i] = r[j] PROVE i = j
    BY <1>3 DEF IsInjective
  <2>1. CASE i \in 1..l /\ r[i] = s[i] /\ j \in 1..l /\ r[j] = s[j]
    BY <1>2, <2>1 DEF IsInjective
  <2>2. CASE /\ i \in (l + 1)..(l + k) /\ i - l \in 1..k /\ r[i] = t[i - l]
             /\ j \in (l + 1)..(l + k) /\ j - l \in 1..k /\ r[j] = t[j - l]
    <3>1. i - l = j - l
      BY <1>2, <2>2 DEF IsInjective
    <3> QED
      BY <1>1, <3>1
  <2>3. CASE i \in 1..l /\ r[i] = s[i] /\ j - l \in 1..k /\ r[j] = t[j - l]
    BY <1>5, <2>3
  <2>4. CASE j \in 1..l /\ r[j] = s[j] /\ i - l \in 1..k /\ r[i] = t[i - l]
    BY <1>5, <2>4
  <2> QED
    BY <1>4, <2>1, <2>2, <2>3, <2>4
<1> QED
  BY <1>1, <1>6, <1>7 DEF r

LEMMA ReceivedSeparate ==
    ASSUME NEW s, NEW N, NEW Q, NEW h, Separate(s, N, Q, h),
           NEW C, Once(C), Nums(C) \subseteq Nums(N),
           NEW D, D \subseteq Nums(N), D \intersect Nums(C) = {},
           NEW o, Splits(Q, D, o)
    PROVE  Separate(s, C, o.st.reassemblyPDUQ, h \o UserDataSeqs(o.up))
<1> DEFINE U == UserNums(o.up)
           P == o.st.reassemblyPDUQ
           x == UserDataSeqs(o.up)
           n == s.nextSeqNumToSend
<1>1. U \subseteq UserNums(Q) \union D /\ UserNums(P) \subseteq UserNums(Q) \union D
      /\ UserNums(P) \intersect U = {}
  BY DEF Splits
<1>2. n \in Nat /\ \A i \in Nums(N) \union UserNums(Q) \union ToSet(h) : i \in Nat /\ i < n
  BY DEF Separate, Orderly
<1>3. x = Increasing(U)
  BY DEF UserDataSeqs, UserNums
<1> HIDE DEF U, P, x, n
<1>4. U \in SUBSET Nat /\ IsFiniteSet(U)
  <2>1. \A i \in U : i \in Nat /\ i < n
    BY <1>1, <1>2
  <2>2. U \subseteq 0..n
    BY <1>2, <2>1
  <2>3. IsFiniteSet(0..n)
    BY <1>2, FS_Interval
  <2> QED
    BY <2>1, <2>2, <2>3, FS_Subset
<1>5. x \in Seq(U) /\ IsInjective(x)
  BY <1>3, <1>4, IncreasingEnumerates
<1>6. IsSequence(x) /\ ToSet(x) \subseteq U
  BY <1>5 DEF IsSequence, ToSet
<1>7. ToSet(h) \intersect (UserNums(Q) \union D) = {}
  BY DEF Separate, Apart
<1>8. /\ IsSequence(h \o x) /\ IsInjective(h \o x)
      /\ ToSet(h \o x) \subseteq ToSet(h) \union U
  <2>1. ToSet(h) \intersect ToSet(x) = {}
    BY <1>1, <1>6, <1>7
  <2>2. IsSequence(h) /\ IsInjective(h)
    BY DEF Separate
  <2> QED
    BY <1>5, <1>6, <2>1, <2>2, InjectiveJoin
<1>9. Apart(Waits(s), Nums(C), UserNums(P), ToSet(h \o x))
  <2> DEFINE H == ToSet(h \o x)
             V == Waits(s)
             W == Nums(C)
             X == UserNums(P)
  <2>1. V \intersect (Nums(N) \union UserNums(Q) \union ToSet(h)) = {}
        /\ W \intersect (UserNums(Q) \union ToSet(h) \union D) = {}
    BY DEF Separate, Apart
  <2>2. X \intersect ToSet(h) = {}
    BY <1>1, <1>7
  <2>3. /\ X \subseteq Nums(N) \union UserNums(Q)
        /\ H \subseteq Nums(N) \union UserNums(Q) \union ToSet(h)
        /\ X \subseteq UserNums(Q) \union D
        /\ H \subseteq UserNums(Q) \union ToSet(h) \union D
    BY <1>1, <1>8
  <2>4. X \intersect H = {}
    BY <1>1, <1>8, <2>2
  <2>5. V \intersect W = {}
    BY <2>1
  <2> HIDE DEF H, V, W, X
  <2>6. Apart(V, W, X, H)
    BY <2>1, <2>3, <2>4, <2>5 DEF Apart
  <2> QED
    BY <2>6 DEF H, V, W, X
<1>10. \A i \in Nums(C) \union UserNums(P) \union ToSet(h \o x) : i \in Nat /\ i < n
  BY <1>1, <1>2, <1>8
<1> QED
  BY <1>8, <1>9, <1>10 DEF Separate, P, x, n

(* Both directions, and each action. *)

Direction(p) ==
    Separate(snd[p], net[Peer(p)], rcv[Peer(p)].reassemblyPDUQ, handedUp[Peer(p)])

(* The inductive invariant: in each direction a number of user data is in  *)
(* one place.                                                              *)
AllSeparate ==
    /\ DOMAIN handedUp = Peers
    /\ \A p \in Peers : Direction(p)

(* m is taken from N, and C is left. *)
Gone(N, C, m) ==
    /\ Once(C) /\ Nums(C) \subseteq Nums(N)
    /\ IsUser(m) => m.pdu.seq \in Nums(N) \ Nums(C)

(* channel is what is under way but for m, which p consumed. *)
Consumed(p, channel, m) ==
    /\ DOMAIN channel = Peers
    /\ channel[Peer(p)] = net[Peer(p)]
    /\ Gone(net[p], channel[p], m)

LEMMA BothDirections ==
    ASSUME NEW p \in Peers, Direction(p)', Direction(Peer(p))', DOMAIN handedUp' = Peers
    PROVE  AllSeparate'
BY TwoPeers DEF AllSeparate

LEMMA NothingNewSpreads ==
    ASSUME NEW s, Orderly(s), NEW msgs, Once(msgs), Nums(msgs) = {}
    PROVE  Spreads(s, s, msgs)
<1>1. SameQueues(s, s)
  BY DEF SameQueues, Orderly
<1> QED
  BY <1>1, SameIsGrown, GrownSpreads

LEMMA SentOnPath ==
    ASSUME Agreed, NEW p \in Peers, NEW channel, DOMAIN channel = Peers,
           channel[Peer(p)] = net[Peer(p)], NEW msgs, NEW k, Sends(p, channel, msgs, k)
    PROVE  net'[p] = channel[p] /\ net'[Peer(p)] = net[Peer(p)] \o msgs
BY TwoPeers DEF Sends

LEMMA DataSeparate ==
    ASSUME ~RxOn, Agreed, AllSeparate, NEW p \in Peers, NEW msg, msg.type = "data",
           NEW channel, Consumed(p, channel, msg), HandleData(p, msg.pdu, channel)
    PROVE  AllSeparate'
<1> DEFINE q == Peer(p)
           d == msg.pdu
           r == rcv[p]
           o == R(p)!Receive(r, d)
           msgs == Ctrl(nextCtrl[p], o.out)
           D == Brings(d)
<1>1. q \in Peers /\ q # p /\ Peer(q) = p
  BY TwoPeers
<1>2. /\ DOMAIN rcv = Peers /\ DOMAIN handedUp = Peers /\ Grants(r) /\ DOMAIN r = RcvFields
      /\ IsSequence(net[q])
  BY <1>1 DEF Agreed, AllSeparate, Grants
<1>3. /\ rcv' = [rcv EXCEPT ![p] = o.st] /\ snd' = snd
      /\ handedUp' = [handedUp EXCEPT ![p] = @ \o UserDataSeqs(o.up)]
      /\ Sends(p, channel, msgs, Len(o.out))
  BY DEF HandleData
<1>4. /\ Separate(snd[q], net[p], r.reassemblyPDUQ, handedUp[p])
      /\ Separate(snd[p], net[q], rcv[q].reassemblyPDUQ, handedUp[q])
  BY <1>1 DEF AllSeparate, Direction
<1>5. D \subseteq Nums(net[p]) /\ D \intersect Nums(channel[p]) = {}
  BY DEF Consumed, Gone, IsUser, Brings
<1>6. IsSequence(o.out)
  BY <1>2, ReceiveGrants DEF Answers, Bodies
<1>7. Splits(r.reassemblyPDUQ, D, o)
  <2>1. D \intersect UserNums(r.reassemblyPDUQ) = {}
    BY <1>4, <1>5 DEF Separate, Apart
  <2> QED
    BY <1>2, <2>1, ReceiveSplits
<1> HIDE DEF o
<1>8. IsSequence(msgs) /\ Once(msgs) /\ Nums(msgs) = {}
  BY <1>6, CtrlOnce
<1> HIDE DEF msgs, D
<1>9. net'[p] = channel[p] /\ net'[q] = net[q] \o msgs
  BY <1>3, SentOnPath DEF Consumed
<1>10. Direction(q)'
  <2>1. Once(channel[p]) /\ Nums(channel[p]) \subseteq Nums(net[p])
    BY DEF Consumed, Gone
  <2>2. Separate(snd[q], channel[p], o.st.reassemblyPDUQ, handedUp[p] \o UserDataSeqs(o.up))
    <3> DEFINE s == snd[q]
               N == net[p]
               C == channel[p]
               Q == r.reassemblyPDUQ
               h == handedUp[p]
    <3> HIDE DEF s, N, C, Q, h
    <3>1. Separate(s, N, Q, h) /\ Once(C) /\ Nums(C) \subseteq Nums(N)
          /\ D \subseteq Nums(N) /\ D \intersect Nums(C) = {} /\ Splits(Q, D, o)
      BY <1>4, <1>5, <1>7, <2>1 DEF s, N, C, Q, h
    <3>2. Separate(s, C, o.st.reassemblyPDUQ, h \o UserDataSeqs(o.up))
      BY <3>1, ReceivedSeparate
    <3> QED
      BY <3>2 DEF s, C, h
  <2>3. /\ snd'[q] = snd[q] /\ rcv'[p] = o.st
        /\ handedUp'[p] = handedUp[p] \o UserDataSeqs(o.up)
    BY <1>2, <1>3
  <2> QED
    BY <1>1, <1>9, <2>2, <2>3 DEF Direction
<1>11. Direction(p)'
  <2>1. Spreads(snd[p], snd[p], msgs)
    BY <1>4, <1>8, NothingNewSpreads DEF Separate
  <2>2. Separate(snd[p], net[q] \o msgs, rcv[q].reassemblyPDUQ, handedUp[q])
    BY <1>2, <1>4, <1>8, <2>1, SentSeparate
  <2>3. snd'[p] = snd[p] /\ rcv'[q] = rcv[q] /\ handedUp'[q] = handedUp[q]
    BY <1>1, <1>2, <1>3
  <2> QED
    BY <1>9, <2>2, <2>3 DEF Direction
<1>12. DOMAIN handedUp' = Peers
  BY <1>2, <1>3
<1> QED
  BY <1>10, <1>11, <1>12, BothDirections

LEMMA ControlSeparate ==
    ASSUME ~RxOn, Agreed, AllSeparate, NEW p \in Peers,
           NEW msg \in Elems(net[p]), msg.type = "ctrl",
           NEW channel, Consumed(p, channel, msg), HandleControl(p, msg.pdu, channel)
    PROVE  AllSeparate'
<1> DEFINE q == Peer(p)
           s == snd[p]
           r == rcv[p]
           m == msg.pdu
           g == rcv[q].rcvRtWinEdge
           n == nextCtrl[p]
           o == S(p)!HandleControl(s, m)
           heard == ~S(p)!DuplicateControl(s, m)
           first == IF S(p)!LostControl(s, m) THEN <<ControlAck(r)>> ELSE <<>>
           second == IF heard /\ m.kind = "ctrlAck"
                       THEN R(p)!AckFlow(r, R(p)!BelowLeftEdge(r)) ELSE <<>>
           a == Ctrl(n, first)
           b == Data(o.lead)
           c == Ctrl(n + Len(first), second)
           e == Data(o.tx)
           msgs == a \o b \o c \o e
<1>1. q \in Peers /\ q # p /\ Peer(q) = p
  BY TwoPeers
<1>2. /\ DOMAIN snd = Peers /\ DOMAIN handedUp = Peers /\ Grants(r)
      /\ IsSequence(net[q]) /\ Sound(s, g) /\ g \in Nat
      /\ CtrlFits(msg, nextCtrl[q], g)
  BY <1>1 DEF Agreed, AllSeparate, Grants
<1>3. /\ snd' = [snd EXCEPT ![p] = o.st] /\ rcv' = rcv /\ handedUp' = handedUp
      /\ Sends(p, channel, msgs, Len(first) + Len(second))
  BY DEF HandleControl
<1>4. /\ Separate(snd[q], net[p], r.reassemblyPDUQ, handedUp[p])
      /\ Separate(s, net[q], rcv[q].reassemblyPDUQ, handedUp[q])
  BY <1>1 DEF AllSeparate, Direction
<1>5. /\ Spreads(s, o.st, e)
      /\ Once(b) /\ Nums(b) = {}
      /\ IsSequence(o.lead) /\ IsSequence(o.tx)
  <2>1. Says(m) /\ m.rwe <= g
    BY <1>2 DEF CtrlFits
  <2>2. Orderly(s)
    BY <1>4 DEF Separate
  <2> HIDE DEF s, g, m
  <2> QED
    BY <1>2, <2>1, <2>2, ControlSpreads
<1>6. IsSequence(first) /\ IsSequence(second)
  <2>1. IsSequence(<<ControlAck(r)>>)
    BY OneOnce
  <2>2. IsSequence(R(p)!AckFlow(r, R(p)!BelowLeftEdge(r)))
    BY <1>2, AckFlowGrants DEF Bodies
  <2>3. IsSequence(<<>>)
    BY EmptySequence
  <2> QED
    BY <2>1, <2>2, <2>3
<1> HIDE DEF o, first, second
<1>7. /\ IsSequence(a) /\ Once(a) /\ Nums(a) = {}
      /\ IsSequence(c) /\ Once(c) /\ Nums(c) = {}
  BY <1>6, CtrlOnce
<1>8. IsSequence(b) /\ IsSequence(e)
  BY <1>5, DataAt
<1> HIDE DEF a, b, c, e
<1>9. IsSequence(a \o b) /\ Once(a \o b) /\ Nums(a \o b) = {}
  BY <1>5, <1>7, <1>8, JoinOnce, SequenceJoin
<1> DEFINE ab == a \o b
<1> HIDE DEF ab
<1>10. IsSequence(ab \o c) /\ Once(ab \o c) /\ Nums(ab \o c) = {}
  <2>1. IsSequence(ab) /\ Once(ab) /\ Nums(ab) = {}
    BY <1>9 DEF ab
  <2> QED
    BY <1>7, <2>1, JoinOnce, SequenceJoin
<1> DEFINE abc == ab \o c
<1> HIDE DEF abc
<1>11. IsSequence(msgs) /\ Once(msgs) /\ Nums(msgs) = Nums(e)
  <2>1. IsSequence(abc) /\ Once(abc) /\ Nums(abc) = {}
    BY <1>10 DEF abc
  <2>2. Once(e)
    BY <1>5 DEF Spreads
  <2>3. IsSequence(abc \o e) /\ Once(abc \o e) /\ Nums(abc \o e) = Nums(e)
    BY <1>8, <2>1, <2>2, JoinOnce, SequenceJoin
  <2> QED
    BY <2>3 DEF abc, ab
<1> HIDE DEF msgs
<1>12. Spreads(s, o.st, msgs)
  BY <1>5, <1>11 DEF Spreads
<1>13. net'[p] = channel[p] /\ net'[q] = net[q] \o msgs
  BY <1>3, SentOnPath DEF Consumed
<1>14. Direction(q)'
  <2>1. Once(channel[p]) /\ Nums(channel[p]) \subseteq Nums(net[p])
    BY DEF Consumed, Gone
  <2>2. Separate(snd[q], channel[p], r.reassemblyPDUQ, handedUp[p])
    BY <1>4, <2>1, FewerSeparate
  <2>3. snd'[q] = snd[q]
    BY <1>1, <1>2, <1>3
  <2> QED
    BY <1>1, <1>3, <1>13, <2>2, <2>3 DEF Direction
<1>15. Direction(p)'
  <2>1. Separate(o.st, net[q] \o msgs, rcv[q].reassemblyPDUQ, handedUp[q])
    <3> HIDE DEF s
    <3> QED
      BY <1>2, <1>4, <1>11, <1>12, SentSeparate
  <2>2. snd'[p] = o.st
    BY <1>2, <1>3
  <2> QED
    BY <1>3, <1>13, <2>1, <2>2 DEF Direction
<1> QED
  BY <1>2, <1>3, <1>14, <1>15, BothDirections

LEMMA HandledSeparate ==
    ASSUME ~RxOn, Agreed, AllSeparate, NEW p \in Peers, NEW msg \in Elems(net[p]),
           NEW channel, Consumed(p, channel, msg), Handle(p, msg, channel)
    PROVE  AllSeparate'
<1>1. CASE msg.type = "data" /\ HandleData(p, msg.pdu, channel)
  BY <1>1, DataSeparate
<1>2. CASE msg.type = "ctrl" /\ HandleControl(p, msg.pdu, channel)
  BY <1>2, ControlSeparate
<1> QED
  BY <1>1, <1>2 DEF Handle

LEMMA NetOnce ==
    ASSUME Agreed, AllSeparate, NEW p \in Peers
    PROVE  IsSequence(net[p]) /\ Once(net[p])
<1>1. Peer(p) \in Peers /\ Peer(Peer(p)) = p
  BY TwoPeers
<1>2. Direction(Peer(p))
  BY <1>1 DEF AllSeparate
<1> QED
  BY <1>1, <1>2 DEF Agreed, Direction, Separate

LEMMA ArrivalSeparate ==
    ASSUME ~RxOn, Agreed, AllSeparate, NEW p \in Peers, Arrive(p)
    PROVE  AllSeparate'
<1> DEFINE channel == [net EXCEPT ![p] = Tail(@)]
           msg == Head(net[p])
<1>1. net[p] # <<>> /\ Handle(p, msg, channel)
  BY DEF Arrive
<1>2. msg \in Elems(net[p])
  BY <1>1, ArrivalRemains
<1>3. Gone(net[p], Tail(net[p]), msg)
  BY <1>1, NetOnce, TailOnce DEF Gone
<1>4. Consumed(p, channel, msg)
  <2>1. DOMAIN net = Peers /\ Peer(p) # p /\ Peer(p) \in Peers
    BY TwoPeers DEF Agreed
  <2>2. DOMAIN channel = Peers /\ channel[Peer(p)] = net[Peer(p)] /\ channel[p] = Tail(net[p])
    BY <2>1
  <2> HIDE DEF channel, msg
  <2> QED
    BY <1>3, <2>2 DEF Consumed
<1> HIDE DEF channel, msg
<1> QED
  BY <1>1, <1>2, <1>4, HandledSeparate

LEMMA OvertakingSeparate ==
    ASSUME ~RxOn, Agreed, AllSeparate, NEW p \in Peers, NEW i \in 1..Len(net[p]),
           ArriveOvertaking(p, i)
    PROVE  AllSeparate'
<1> DEFINE channel == [net EXCEPT ![p] = RemoveAt(@, i)]
           msg == net[p][i]
<1>1. Handle(p, msg, channel)
  BY DEF ArriveOvertaking
<1>2. msg \in Elems(net[p])
  BY DEF Elems
<1>3. Gone(net[p], RemoveAt(net[p], i), msg)
  BY NetOnce, WithoutOnce DEF Gone
<1>4. Consumed(p, channel, msg)
  <2>1. DOMAIN net = Peers /\ Peer(p) # p /\ Peer(p) \in Peers
    BY TwoPeers DEF Agreed
  <2>2. DOMAIN channel = Peers /\ channel[Peer(p)] = net[Peer(p)] /\ channel[p] = RemoveAt(net[p], i)
    BY <2>1
  <2> HIDE DEF channel, msg
  <2> QED
    BY <1>3, <2>2 DEF Consumed
<1> HIDE DEF channel, msg
<1> QED
  BY <1>1, <1>2, <1>4, HandledSeparate

LEMMA LossSeparate ==
    ASSUME Agreed, AllSeparate, NEW p \in Peers, NEW i \in 1..Len(net[p]), Lose(p, i)
    PROVE  AllSeparate'
<1> DEFINE q == Peer(p)
           C == RemoveAt(net[p], i)
<1>1. q \in Peers /\ q # p /\ Peer(q) = p
  BY TwoPeers
<1>2. Once(C) /\ Nums(C) \subseteq Nums(net[p])
  BY NetOnce, WithoutOnce
<1>3. /\ Separate(snd[q], net[p], rcv[p].reassemblyPDUQ, handedUp[p])
      /\ Separate(snd[p], net[q], rcv[q].reassemblyPDUQ, handedUp[q])
  BY <1>1 DEF AllSeparate, Direction
<1>4. /\ net' = [net EXCEPT ![p] = C]
      /\ snd' = snd /\ rcv' = rcv /\ handedUp' = handedUp
  BY DEF Lose
<1>5. net'[p] = C /\ net'[q] = net[q]
  BY <1>1, <1>4 DEF Agreed
<1> HIDE DEF C
<1>6. Separate(snd[q], C, rcv[p].reassemblyPDUQ, handedUp[p])
  BY <1>2, <1>3, FewerSeparate
<1>7. Direction(p)' /\ Direction(q)'
  BY <1>1, <1>3, <1>4, <1>5, <1>6 DEF Direction
<1> QED
  BY <1>4, <1>7, BothDirections DEF AllSeparate

LEMMA WriteSeparate ==
    ASSUME ~RxOn, Agreed, AllSeparate, NEW p \in Peers, WriteSDU(p)
    PROVE  AllSeparate'
<1> DEFINE q == Peer(p)
           s == snd[p]
           g == rcv[q].rcvRtWinEdge
           o == S(p)!TrySendGenerated(S(p)!Numbered(s, 1), S(p)!Generated(s, 1))
           msgs == Data(o.tx)
<1>1. q \in Peers /\ q # p /\ Peer(q) = p
  BY TwoPeers
<1>2. /\ DOMAIN snd = Peers /\ DOMAIN net = Peers /\ Sound(s, g) /\ g \in Nat
      /\ IsSequence(net[q])
  BY <1>1 DEF Agreed, Grants
<1>3. /\ Separate(snd[q], net[p], rcv[p].reassemblyPDUQ, handedUp[p])
      /\ Separate(s, net[q], rcv[q].reassemblyPDUQ, handedUp[q])
  BY <1>1 DEF AllSeparate, Direction
<1>4. /\ snd' = [snd EXCEPT ![p] = o.st] /\ rcv' = rcv /\ handedUp' = handedUp
      /\ Sends(p, net, msgs, 0)
  BY DEF WriteSDU
<1>5. Spreads(s, o.st, msgs) /\ IsSequence(msgs)
  <2>1. Orderly(s)
    BY <1>3 DEF Separate
  <2> HIDE DEF s, g
  <2>2. Spreads(s, o.st, msgs)
    BY <1>2, <2>1, WriteSpreads
  <2>3. Sent(o.tx, s.nextSeqNumToSend + 1, g)
    BY <1>2, WriteSends
  <2>4. IsSequence(o.tx)
    <3> HIDE DEF o
    <3> QED
      BY <2>3 DEF Sent, IsSequence
  <2> QED
    BY <2>2, <2>4, DataAt
<1> HIDE DEF o, msgs
<1>6. net'[p] = net[p] /\ net'[q] = net[q] \o msgs
  BY <1>2, <1>4, SentOnPath
<1>7. Separate(o.st, net[q] \o msgs, rcv[q].reassemblyPDUQ, handedUp[q])
  <2> HIDE DEF s
  <2> QED
    BY <1>2, <1>3, <1>5, SentSeparate
<1>8. snd'[p] = o.st /\ snd'[q] = snd[q]
  BY <1>1, <1>2, <1>4
<1>9. Direction(p)' /\ Direction(q)'
  BY <1>1, <1>3, <1>4, <1>6, <1>7, <1>8 DEF Direction
<1> QED
  BY <1>4, <1>9, BothDirections DEF AllSeparate

LEMMA ATimerSeparate ==
    ASSUME ~RxOn, Agreed, AllSeparate, NEW p \in Peers, NEW n, ATimerExpires(p, n)
    PROVE  AllSeparate'
<1> DEFINE q == Peer(p)
           r == rcv[p]
           o == R(p)!ATimerFired(r, n)
<1>1. q \in Peers /\ q # p /\ Peer(q) = p
  BY TwoPeers
<1>2. DOMAIN rcv = Peers /\ DOMAIN handedUp = Peers /\ DOMAIN r = RcvFields
  BY DEF Agreed, AllSeparate, Grants
<1>3. /\ rcv' = [rcv EXCEPT ![p] = o.st] /\ snd' = snd /\ net' = net
      /\ handedUp' = [handedUp EXCEPT ![p] = @ \o UserDataSeqs(o.up)]
  BY DEF ATimerExpires
<1>4. /\ Separate(snd[q], net[p], r.reassemblyPDUQ, handedUp[p])
      /\ Separate(snd[p], net[q], rcv[q].reassemblyPDUQ, handedUp[q])
  BY <1>1 DEF AllSeparate, Direction
<1>5. Splits(r.reassemblyPDUQ, {}, o)
  BY <1>2, ATimerSplits
<1> HIDE DEF o
<1>6. Separate(snd[q], net[p], o.st.reassemblyPDUQ, handedUp[p] \o UserDataSeqs(o.up))
  <2> DEFINE D == {}
             Q == r.reassemblyPDUQ
             N == net[p]
             s == snd[q]
             h == handedUp[p]
  <2>1. Once(N) /\ Nums(N) \subseteq Nums(N) /\ D \subseteq Nums(N) /\ D \intersect Nums(N) = {}
    BY NetOnce
  <2>2. Separate(s, N, Q, h) /\ Splits(Q, D, o)
    BY <1>4, <1>5
  <2> HIDE DEF D, Q, N, s, h
  <2>3. Separate(s, N, o.st.reassemblyPDUQ, h \o UserDataSeqs(o.up))
    BY <2>1, <2>2, ReceivedSeparate
  <2> QED
    BY <2>3 DEF N, s, h
<1>7. /\ rcv'[p] = o.st /\ rcv'[q] = rcv[q]
      /\ handedUp'[p] = handedUp[p] \o UserDataSeqs(o.up) /\ handedUp'[q] = handedUp[q]
      /\ DOMAIN handedUp' = Peers
  BY <1>1, <1>2, <1>3
<1>8. Direction(p)' /\ Direction(q)'
  BY <1>1, <1>3, <1>4, <1>6, <1>7 DEF Direction
<1> QED
  BY <1>7, <1>8, BothDirections

LEMMA SeparateInitially ==
    ASSUME Init
    PROVE  AllSeparate
<1>1. ASSUME NEW p \in Peers
      PROVE  Direction(p)
  <2> DEFINE q == Peer(p)
             s == snd[p]
  <2>1. q \in Peers
    BY TwoPeers
  <2>2. /\ s = S(p)!InitSnd /\ net[q] = <<>> /\ handedUp[q] = <<>>
        /\ rcv[q] = R(q)!InitRcv
    BY <2>1 DEF Init
  <2>3. rcv[q].reassemblyPDUQ = {}
    BY <2>2 DEF R!InitRcv
  <2>4. /\ DOMAIN s = SndFields /\ s.rxQ = {} /\ s.closedWindowQ = <<>>
        /\ s.nextSeqNumToSend \in Nat
    BY <2>2 DEF S!InitSnd, SndFields
  <2>5. /\ Data(<<>>) = <<>> /\ Once(<<>>) /\ Nums(<<>>) = {} /\ IsSequence(<<>>)
    BY NothingOnce
  <2>6. Orderly(s) /\ Waits(s) = {}
    BY <2>4, <2>5 DEF Orderly, Waits
  <2>7. IsInjective(<<>>) /\ ToSet(<<>>) = {}
    <3>1. DOMAIN <<>> = {}
      OBVIOUS
    <3> QED
      BY <3>1 DEF IsInjective, ToSet
  <2>8. Separate(s, <<>>, {}, <<>>)
    BY <2>5, <2>6, <2>7, UserNumsOf DEF Separate, Apart
  <2> QED
    BY <2>2, <2>3, <2>8 DEF Direction
<1>2. DOMAIN handedUp = Peers
  BY DEF Init
<1> QED
  BY <1>1, <1>2 DEF AllSeparate

LEMMA StepSeparate ==
    ASSUME ~RxOn, Agreed, AllSeparate, [Next]_vars
    PROVE  AllSeparate'
<1>1. ASSUME NEW p \in Writers, WriteSDU(p)
      PROVE  AllSeparate'
  BY <1>1, WriteSeparate, ConnectionAssumption DEF Peers
<1>2. ASSUME NEW p \in Peers, Arrive(p)
      PROVE  AllSeparate'
  BY <1>2, ArrivalSeparate
<1>3. ASSUME NEW p \in Peers, NEW i \in 2..Len(net[p]), ArriveOvertaking(p, i)
      PROVE  AllSeparate'
  <2>1. i \in 1..Len(net[p])
    BY DEF Agreed, IsSequence
  <2> QED
    BY <1>3, <2>1, OvertakingSeparate
<1>4. ASSUME NEW p \in Peers, NEW i \in 1..Len(net[p]), Lose(p, i)
      PROVE  AllSeparate'
  BY <1>4, LossSeparate
<1>5. ASSUME NEW p \in Peers, NEW e \in snd[p].rxQ, RxTimerExpires(p, e)
      PROVE  AllSeparate'
  BY DEF AllSeparate, Direction, Separate, Orderly
<1>6. ASSUME NEW p \in Peers, NEW n \in SeqNum, ATimerExpires(p, n)
      PROVE  AllSeparate'
  BY <1>6, ATimerSeparate
<1>7. ASSUME UNCHANGED vars
      PROVE  AllSeparate'
  BY <1>7 DEF vars, AllSeparate, Direction
<1> QED
  BY <1>1, <1>2, <1>3, <1>4, <1>5, <1>6, <1>7 DEF Next

(* Without retransmission a number of user data is in one place at a time, *)
(* whatever is lost or overtaken.                                          *)
THEOREM AlwaysSeparate == ASSUME ~RxOn PROVE Spec => []AllSeparate
<1>1. Init => Agreed /\ AllSeparate
  BY AgreedInitially, SeparateInitially
<1>2. Agreed /\ AllSeparate /\ [Next]_vars => (Agreed /\ AllSeparate)'
  BY StepAgreed, StepSeparate
<1> QED
  BY <1>1, <1>2, PTL DEF Spec

(* Without retransmission no SDU is handed up twice.                       *)
THEOREM NothingHandedUpTwice == ASSUME ~RxOn PROVE Spec => []HandedUpOnce
<1>1. AllSeparate => HandedUpOnce
  <2> SUFFICES ASSUME AllSeparate, NEW p \in Peers PROVE IsInjective(handedUp[p])
    BY DEF HandedUpOnce
  <2>1. Peer(p) \in Peers /\ Peer(Peer(p)) = p
    BY TwoPeers
  <2>2. Direction(Peer(p))
    BY <2>1 DEF AllSeparate
  <2> QED
    BY <2>1, <2>2 DEF Direction, Separate
<1> QED
  BY <1>1, AlwaysSeparate, PTL
=============================================================================
