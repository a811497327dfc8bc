----------------------------- MODULE DTCPSender -----------------------------
(***************************************************************************)
(* The sending half of an EFCP instance: what DTP::handleMsgFromDelimiting,*)
(* the control-PDU part of DTP::handleMsgFromRMT, the retransmission timer *)
(* and the policies they call do to DTPState and DTCPState.                *)
(*                                                                         *)
(* As in DTPReceiver the state is one record and each step of a handler an *)
(* operator on it. The outcome of a handler is [st, lead, tx]: the new     *)
(* state, the data PDUs sent by the lost-control policy before the control *)
(* PDU itself is looked at, and those sent after. The vector of retrans-   *)
(* mission timers is a set of entries; "turn" is an entry's place in it.   *)
(* The specification closes this half with an environment that writes SDUs *)
(* and delivers any control PDU.                                           *)
(***************************************************************************)
EXTENDS EFCPDefs, Sequences

CONSTANTS
    SndCredit,           \* DTCPState::sndCredit
    MaxClosedWinQueLen,  \* DTCPState::maxClosedWinQueLen
    DataReXmitMax,       \* DTCPState::dataReXmitMax
    MaxFragments,        \* bound: PDUs made of one SDU by DTP::delimit
    MaxCtrl,             \* bound: sequence numbers of control PDUs
    PeerAcks, PeerRWEs, PeerLWEs   \* bounds: what a peer's control PDU says

ASSUME SenderAssumption ==
    /\ {SndCredit, DataReXmitMax, MaxCtrl} \subseteq Nat
    /\ MaxClosedWinQueLen \in Nat /\ MaxClosedWinQueLen < Modulus
    /\ MaxFragments \in Nat \ {0}
    /\ PeerAcks \subseteq 0..(Modulus - 1)
    /\ PeerRWEs \subseteq 0..(Modulus - 1)
    /\ PeerLWEs \subseteq 0..(Modulus - 1)

VARIABLES
    snd,          \* the sender's part of DTPState and DTCPState
    acked,        \* history: numbers that left the retransmission queue by an ack
    abandoned,    \* history: numbers that left it by expiring too often
    controlAcked  \* history: a ControlAck PDU was processed

vars == <<snd, acked, abandoned, controlAcked>>

RxEntry == [pdu : DataPDU, expiryCount : Nat, turn : Nat]

SndState ==
    [nextSeqNumToSend : 1..(MaxSeq + 1),
     setDRFFlag : BOOLEAN,
     lastSeqNumSent : SeqNum,
     closedWindowQ : Seq(DataPDU),
     closedWindow : BOOLEAN,
     blockingPort : BOOLEAN,
     sndRtWinEdge : Nat,
     senderLeftWinEdge : 0..(Modulus - 1),
     rxQ : SUBSET RxEntry,
     rxTurn : Nat,                    \* the turn of the next entry of rxQ
     lastControlSeqNumRcv : Nat]

InitSnd ==
    [nextSeqNumToSend |-> 1,
     setDRFFlag |-> TRUE,
     lastSeqNumSent |-> 0,
     closedWindowQ |-> <<>>,
     closedWindow |-> FALSE,
     blockingPort |-> FALSE,
     sndRtWinEdge |-> SndCredit,
     senderLeftWinEdge |-> 0,
     rxQ |-> {},
     rxTurn |-> 1,
     lastControlSeqNumRcv |-> 0]

Outcome(s, lead, tx) == [st |-> s, lead |-> lead, tx |-> tx]

-----------------------------------------------------------------------------
(* The steps handlers are made of. *)

Outstanding(s) == {e.pdu.seq : e \in s.rxQ}

(* DTCPState::updateSndLWE: the front of the queue, else the given number. *)
UpdateSndLWE(s, n) ==
    [s EXCEPT !.senderLeftWinEdge =
        IF s.rxQ = {} THEN n
        ELSE (CHOOSE e \in s.rxQ : \A f \in s.rxQ : e.turn <= f.turn).pdu.seq]

PushBackToRxQ(s, pdus) ==
    [s EXCEPT !.rxQ = @ \union {[pdu |-> pdus[i], expiryCount |-> 0,
                                 turn |-> s.rxTurn + i - 1] : i \in 1..Len(pdus)},
              !.rxTurn = @ + Len(pdus)]

SendToRMT(s, pdus) ==
    IF pdus = <<>> THEN s ELSE [s EXCEPT !.lastSeqNumSent = pdus[Len(pdus)].seq]

(* The end of trySendGenPDUs: the postable PDUs are sent, with a copy kept *)
(* when the connection retransmits.                                        *)
Post(s, pdus) ==
    IF ~DtcpPresent THEN SendToRMT(s, pdus)
    ELSE LET sent == SendToRMT(IF RxOn THEN PushBackToRxQ(s, pdus) ELSE s, pdus)
         IN  UpdateSndLWE(sent, sent.lastSeqNumSent)

(* Variant: DRF on every PDU. *)
GeneratedAllDRF(s, k) ==
    [i \in 1..k |-> [seq |-> s.nextSeqNumToSend + i - 1, drf |-> TRUE, empty |-> FALSE]]

(* DTP::delimit and generatePDUsnew for an SDU that takes k PDUs. *)
Generated(s, k) ==
    [i \in 1..k |-> [seq |-> s.nextSeqNumToSend + i - 1,
                     drf |-> s.setDRFFlag /\ i = 1,
                     empty |-> FALSE]]

Numbered(s, k) ==
    [s EXCEPT !.nextSeqNumToSend = @ + k, !.setDRFFlag = FALSE]

(* Variants: the window one too narrow, one too wide. *)
OpenPrefixNarrow(q, edge) ==
    Min({j \in 0..Len(q) : j < Len(q) => q[j + 1].seq >= edge})
OpenPrefixWide(q, edge) ==
    Min({j \in 0..Len(q) : j < Len(q) => q[j + 1].seq > edge + 1})

(* How many PDUs at the front of a queue the window lets out. *)
OpenPrefix(q, edge) ==
    Min({j \in 0..Len(q) : j < Len(q) => q[j + 1].seq > edge})

(* FCOverrunPolicy runs instead of a plain push once the queue has all but *)
(* one of its places taken; the comparison is unsigned.                    *)
Overruns(len) == len >= UInt(MaxClosedWinQueLen - 1)

(* DTP::trySendGenPDUs on freshly generated PDUs, the window deciding      *)
(* between the postable PDUs and the closed window queue.                  *)
Hold(s, n, held) ==
    [s EXCEPT !.closedWindowQ = @ \o held,
              !.closedWindow = \/ @
                               \/ held # <<>>
                               \/ n > 0 /\ Len(s.closedWindowQ) >= MaxClosedWinQueLen,
              !.blockingPort = \/ @
                               \/ /\ held # <<>>
                                  /\ Overruns(Len(s.closedWindowQ) + Len(held) - 1)]

TrySendGenerated(s, pdus) ==
    LET n    == OpenPrefix(pdus, s.sndRtWinEdge)
        sent == SubSeq(pdus, 1, n)
    IN  IF ~WindowFcOn
          THEN Outcome(Post(s, pdus), <<>>, pdus)
          ELSE Outcome(Post(Hold(s, n, SubSeq(pdus, n + 1, Len(pdus))), sent), <<>>, sent)

(* Variants: the port always or never unblocked; the last PDU sent stays   *)
(* in the queue.                                                           *)
ReleasedUnblocking(s, n) ==
    LET rest == SubSeq(s.closedWindowQ, n + 1, Len(s.closedWindowQ))
    IN  [s EXCEPT !.closedWindowQ = rest,
                  !.closedWindow = rest # <<>>,
                  !.blockingPort = FALSE]
ReleasedBlocked(s, n) ==
    LET rest == SubSeq(s.closedWindowQ, n + 1, Len(s.closedWindowQ))
    IN  [s EXCEPT !.closedWindowQ = rest,
                  !.closedWindow = rest # <<>>]
ReleasedButLast(s, n) ==
    LET rest == SubSeq(s.closedWindowQ, IF n = 0 THEN 1 ELSE n, Len(s.closedWindowQ))
    IN  [s EXCEPT !.closedWindowQ = rest,
                  !.closedWindow = rest # <<>>,
                  !.blockingPort = @ /\ Len(rest) >= MaxClosedWinQueLen]

(* DTP::trySendGenPDUs on the closed window queue, then the unblocking of  *)
(* the port; both happen only when the queue is not empty.                 *)
Released(s, n) ==
    LET rest == SubSeq(s.closedWindowQ, n + 1, Len(s.closedWindowQ))
    IN  [s EXCEPT !.closedWindowQ = rest,
                  !.closedWindow = rest # <<>> \/ (n > 0 /\ MaxClosedWinQueLen = 0),
                  !.blockingPort = @ /\ Len(rest) >= MaxClosedWinQueLen]

(* Variant: the closed window queue is not served. *)
FlowControlledOnly(s, edge) == Outcome([s EXCEPT !.sndRtWinEdge = edge], <<>>, <<>>)

FlowControlled(s, edge) ==
    LET opened == [s EXCEPT !.sndRtWinEdge = edge]
        n      == OpenPrefix(s.closedWindowQ, edge)
        sent   == SubSeq(s.closedWindowQ, 1, n)
    IN  IF s.closedWindowQ = <<>>
          THEN Outcome(opened, <<>>, <<>>)
          ELSE Outcome(Post(Released(opened, n), sent), <<>>, sent)

(* Variants: one too many, one too few. *)
AckedByMore(s, n) == {e \in s.rxQ : e.pdu.seq <= UInt(n + MaxAllowGap + 1)}
AckedByLess(s, n) == {e \in s.rxQ : e.pdu.seq < UInt(n + MaxAllowGap)}

(* DTCP::ackPDU called with one number. *)
AckedBy(s, n) == {e \in s.rxQ : e.pdu.seq <= UInt(n + MaxAllowGap)}

AckPDU(s, n) == [s EXCEPT !.rxQ = @ \ AckedBy(s, n)]

(* SenderAckPolicyBase. *)
SenderAck(s, n) == UpdateSndLWE(AckPDU(s, n), UInt(n + 1))

(* DTP::sendEmptyDTPDU: takes the next number and goes out at once, past   *)
(* the window and past whatever waits on the closed window queue.          *)
EmptyPDU(s) == [seq |-> s.nextSeqNumToSend, drf |-> s.setDRFFlag, empty |-> TRUE]

SendEmptyDTPDU(s) ==
    LET tx  == <<EmptyPDU(s)>>
        num == Numbered(s, 1)
    IN  SendToRMT(IF RxOn THEN PushBackToRxQ(num, tx) ELSE num, tx)

-----------------------------------------------------------------------------
(* DTP::commonRcvControl and the control part of DTP::handleMsgFromRMT. A  *)
(* control PDU m is a ControlBody with its own sequence number.            *)

(* Variant: only the last number is recognised as a duplicate. *)
DuplicateControlLast(s, m) == m.seq = s.lastControlSeqNumRcv

DuplicateControl(s, m) == m.seq <= s.lastControlSeqNumRcv
LostControl(s, m) == m.seq > s.lastControlSeqNumRcv + 1

Numbering(s, m) ==
    [(IF LostControl(s, m) THEN SendEmptyDTPDU(s) ELSE s)
        EXCEPT !.lastControlSeqNumRcv = m.seq]

(* RcvrControlAckPolicyBase: the peer's left edge may serve as an ack, its *)
(* right edge is taken over, and an empty PDU repeating the last number is *)
(* sent without being kept for retransmission.                             *)
RepeatedEmptyPDU(s) ==
    [seq |-> s.nextSeqNumToSend - 1, drf |-> FALSE, empty |-> TRUE]

RcvrControlAck(s, m) ==
    LET heard == IF m.lwe > s.senderLeftWinEdge
                   THEN UpdateSndLWE(AckPDU(s, m.lwe - 1), m.lwe) ELSE s
    IN  SendToRMT([heard EXCEPT !.sndRtWinEdge = m.rwe], <<RepeatedEmptyPDU(s)>>)

HandleControl(s, m) ==
    LET s1   == Numbering(s, m)
        lead == IF LostControl(s, m) THEN <<EmptyPDU(s)>> ELSE <<>>
        s2   == IF Carries(m.kind).ack THEN SenderAck(s1, m.ack) ELSE s1
        fc   == FlowControlled(s2, m.rwe)
    IN  IF DuplicateControl(s, m) THEN Outcome(s, <<>>, <<>>)
        ELSE IF m.kind = "ctrlAck"
               THEN Outcome(RcvrControlAck(s1, m), lead, <<RepeatedEmptyPDU(s1)>>)
        ELSE IF Carries(m.kind).fc
               THEN [fc EXCEPT !.lead = lead]
               ELSE Outcome(s2, lead, <<>>)

(* Variant: expiries are not counted. *)
RxTimerExpiryUncounted(s, e) ==
    IF e.expiryCount = DataReXmitMax + 1
      THEN Outcome([s EXCEPT !.rxQ = @ \ {e}], <<>>, <<>>)
      ELSE Outcome(SendToRMT(s, <<e.pdu>>), <<>>, <<e.pdu>>)

(* DTCP::handleDTCPRxExpiryTimer and RxTimerExpiryPolicyBase: the entry    *)
(* whose timer fired is the only unscheduled one of the queue.             *)
RxTimerExpiry(s, e) ==
    IF e.expiryCount = DataReXmitMax + 1
      THEN Outcome([s EXCEPT !.rxQ = @ \ {e}], <<>>, <<>>)
      ELSE Outcome(SendToRMT([s EXCEPT !.rxQ =
                        (@ \ {e}) \union {[e EXCEPT !.expiryCount = @ + 1]}],
                        <<e.pdu>>),
                   <<>>, <<e.pdu>>)

-----------------------------------------------------------------------------
(* The component on its own. *)

(* What may be said by a peer of the same QoS cube. *)
PeerKinds ==
    {"ctrlAck"} \union
    (IF RxOn /\ WindowFcOn THEN {"ackFlow"} ELSE IF RxOn THEN {"ackOnly"} ELSE {"fcOnly"})

Init ==
    /\ snd = InitSnd
    /\ acked = {}
    /\ abandoned = {}
    /\ controlAcked = FALSE

(* DTP::handleMsgFromDelimiting. *)
WriteSDU(k) ==
    /\ snd.nextSeqNumToSend + k <= MaxSeq + 1
    /\ snd' = TrySendGenerated(Numbered(snd, k), Generated(snd, k)).st
    /\ UNCHANGED <<acked, abandoned, controlAcked>>

ReceiveControl(m) ==
    /\ LostControl(snd, m) => snd.nextSeqNumToSend <= MaxSeq
    /\ snd' = HandleControl(snd, m).st
    /\ acked' = acked \union (Outstanding(Numbering(snd, m)) \ Outstanding(snd'))
    /\ controlAcked' = (controlAcked \/ (m.kind = "ctrlAck" /\ ~DuplicateControl(snd, m)))
    /\ UNCHANGED abandoned

RxTimerExpires(e) ==
    /\ snd' = RxTimerExpiry(snd, e).st
    /\ abandoned' = abandoned \union (Outstanding(snd) \ Outstanding(snd'))
    /\ UNCHANGED <<acked, controlAcked>>

Next ==
    \/ \E k \in 1..MaxFragments : WriteSDU(k)
    \/ DtcpPresent /\ \E n \in 1..MaxCtrl, kind \in PeerKinds,
                         ack \in PeerAcks, rwe \in PeerRWEs, lwe \in PeerLWEs :
           ReceiveControl([seq |-> n, kind |-> kind, ack |-> ack, rwe |-> rwe, lwe |-> lwe])
    \/ \E e \in snd.rxQ : RxTimerExpires(e)

Spec == Init /\ [][Next]_vars

-----------------------------------------------------------------------------
(* Properties. *)

Held(s) == {s.closedWindowQ[i].seq : i \in 1..Len(s.closedWindowQ)}

(* Every field stays in the range of its C++ member. *)
TypeOK ==
    /\ snd \in SndState
    /\ {acked, abandoned} \subseteq SUBSET SeqNum
    /\ controlAcked \in BOOLEAN

(* notifyStopSending and notifyStartSending pair up: the port is blocked   *)
(* exactly while the closed window queue is full, so a writer is never     *)
(* left blocked on a queue that has room, nor let on at a full one.        *)
PortBlockedIffQueueFull ==
    MaxClosedWinQueLen > 0 =>
        (snd.blockingPort <=> Len(snd.closedWindowQ) >= MaxClosedWinQueLen)

(* The closedWindow flag is set exactly while PDUs wait for the window,    *)
(* although five places write it.                                          *)
ClosedWindowIffHeld ==
    MaxClosedWinQueLen > 0 => (snd.closedWindow <=> snd.closedWindowQ # <<>>)

(* With retransmission no PDU is forgotten: every number given out is      *)
(* waiting for the window, or kept for retransmission, or acknowledged, or *)
(* given up after too many expiries.                                       *)
NumbersAccountedFor ==
    RxOn => 1..(snd.nextSeqNumToSend - 1)
              = Held(snd) \union Outstanding(snd) \union acked \union abandoned

(* A number is in one place only: a PDU that waits for the window was not  *)
(* sent, and one that is kept for retransmission was not acknowledged.     *)
OnePlaceOnly ==
    /\ Held(snd) \intersect (Outstanding(snd) \union acked \union abandoned) = {}
    /\ Outstanding(snd) \intersect (acked \union abandoned) = {}
    /\ \A e, f \in snd.rxQ : e.pdu.seq = f.pdu.seq => e = f

(* PDUs that wait for the window wait in sequence order. *)
HeldInOrder ==
    \A i, j \in 1..Len(snd.closedWindowQ) :
        i < j => snd.closedWindowQ[i].seq < snd.closedWindowQ[j].seq

(* Until a ControlAck moves the right edge behind the queue's back, no PDU *)
(* the window admits is kept waiting.                                      *)
NothingSendableHeld ==
    ~controlAcked /\ snd.closedWindowQ # <<>> =>
        Head(snd.closedWindowQ).seq > snd.sndRtWinEdge

(* Until then, too, PDUs with user data are first sent in sequence order:  *)
(* a freshly written SDU does not overtake one that waits.                 *)
FirstSentInOrder ==
    ~controlAcked =>
        \A e, f \in snd.rxQ :
            e.turn < f.turn /\ ~e.pdu.empty /\ ~f.pdu.empty => e.pdu.seq < f.pdu.seq

(* The sender's two queues and its books agree after every call, timer and *)
(* control PDU: no PDU is forgotten, kept in two places, or out of order.  *)
QueuesAgree ==
    /\ TypeOK
    /\ ClosedWindowIffHeld
    /\ NumbersAccountedFor
    /\ OnePlaceOnly
    /\ HeldInOrder
    /\ FirstSentInOrder
=============================================================================
