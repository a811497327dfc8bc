---------------------------- MODULE DTPReceiver -----------------------------
(***************************************************************************)
(* The receiving half of an EFCP instance: what DTP::handleDataTransfer-   *)
(* PDUFromRMT, the A-timer and the policies they call do to DTPState and   *)
(* to the receiver's fields of DTCPState.                                  *)
(*                                                                         *)
(* The state is one record, the fields named as in the C++ classes, and    *)
(* each step of a handler is an operator on that record; a whole handler   *)
(* gives an outcome [st, up, out]: the new state, the PDUs whose SDUs went *)
(* to Delimiting (in sequence order), and the control PDUs handed to RMT.  *)
(* The specification at the end of the module closes this half with an     *)
(* environment that may deliver any PDU a peer can have sent, in any order *)
(* and any number of times.                                                *)
(***************************************************************************)
EXTENDS EFCPDefs, Sequences

CONSTANTS
    Immediate,     \* DTCPState::isImmediate: the DTCPState aTime is 0
    RcvCredit,     \* DTCPState::rcvCredit
    MaxRWE,        \* bound: the receiver's right window edge
    MaxATimers     \* bound: A-timers pending for one sequence number

ASSUME ReceiverAssumption ==
    /\ Immediate \in BOOLEAN
    /\ RcvCredit \in Nat
    /\ MaxRWE \in Nat
    /\ MaxATimers \in Nat

VARIABLES
    rcv,          \* the receiver's part of DTPState and DTCPState
    delivered,    \* history: sequence numbers handed up in the current run
    newRun,       \* history: the last step processed a PDU with the DRF flag
    repeated      \* history: some PDU was handed up twice in one run

vars == <<rcv, delivered, newRun, repeated>>

RcvState ==
    [rcvLeftWinEdge : 0..(MaxSeq + 1),
     maxSeqNumRcvd  : SeqNum,
     reassemblyPDUQ : SUBSET DataPDU,
     lastSDUDelivered : {0, SduSeqNum},
     rcvRtWinEdge : Nat,
     aTimers : [SeqNum -> Nat],
     thrown : BOOLEAN]         \* addPDUToReassemblyQ threw cRuntimeError

InitRcv ==
    [rcvLeftWinEdge |-> 0,
     maxSeqNumRcvd |-> 0,
     reassemblyPDUQ |-> {},
     lastSDUDelivered |-> 0,
     rcvRtWinEdge |-> RcvCredit,
     aTimers |-> [n \in SeqNum |-> 0],
     thrown |-> FALSE]

-----------------------------------------------------------------------------
(* The steps handlers are made of. *)

(* The queue is kept in sequence order and refuses a number twice. *)
AddToReassemblyQ(r, d) ==
    IF d.seq \in SeqNums(r.reassemblyPDUQ)
      THEN [r EXCEPT !.thrown = TRUE]
      ELSE [r EXCEPT !.reassemblyPDUQ = @ \union {d}]

(* The least number from n on that is not queued. *)
NextMissing(Q, n) == Min({m \in n..(MaxSeq + 1) : m \notin SeqNums(Q)})

(* The left edge moves over the PDUs that continue it. If the queue starts *)
(* beyond the edge, the edge moves to that first PDU when its SDU number   *)
(* is within the allowed gap of the last SDU delivered.                    *)
LeftEdgeAfter(r) ==
    LET Q == r.reassemblyPDUQ
        n == r.rcvLeftWinEdge
    IN  IF \E d \in Q : d.seq <= n
          THEN NextMissing(Q, n)
          ELSE IF \E d \in Q : /\ \A e \in Q : d.seq <= e.seq
                               /\ SDUSeqNumOf(d) <= r.lastSDUDelivered + MaxAllowGap
                 THEN Min(SeqNums(Q))
                 ELSE n

UpdateRcvLWE(r) == [r EXCEPT !.rcvLeftWinEdge = LeftEdgeAfter(r)]

StartATimer(r, n) == [r EXCEPT !.aTimers[n] = @ + 1]


SetMaxSeqNumRcvd(r, n) ==
    [r EXCEPT !.maxSeqNumRcvd = IF @ > n THEN @ ELSE n]

(* Variant: the edge is not looked at. *)
DeliverableAny(r) == r.reassemblyPDUQ

(* DTP::delimitFromRMT: from the front of the queue, up to the first PDU   *)
(* at or beyond the left edge when order is forced.                        *)
Deliverable(r) ==
    IF ForceOrder
      THEN {d \in r.reassemblyPDUQ : d.seq < r.rcvLeftWinEdge}
      ELSE r.reassemblyPDUQ

(* Variant: the erase is forgotten. *)
DelimitKeeping(r) ==
    [r EXCEPT !.lastSDUDelivered =
                  IF \E d \in Deliverable(r) : ~d.empty THEN SduSeqNum ELSE @]

Delimit(r) ==
    [r EXCEPT !.reassemblyPDUQ = @ \ Deliverable(r),
              !.lastSDUDelivered =
                  IF \E d \in Deliverable(r) : ~d.empty THEN SduSeqNum ELSE @]


(* DTP::sendAckFlowPDU: what is sent depends on what the connection uses. *)
AckFlow(r, n) ==
    IF ~DtcpPresent THEN <<>>
    ELSE << [kind |-> IF ~RxOn THEN "fcOnly"
                      ELSE IF WindowFcOn THEN "ackFlow" ELSE "ackOnly",
             ack |-> IF RxOn THEN n ELSE 0,
             rwe |-> IF WindowFcOn THEN r.rcvRtWinEdge ELSE 0,
             lwe |-> 0] >>

(* The default argument of sendAckFlowPDU: an unsigned subtraction. *)
BelowLeftEdge(r) == UInt(r.rcvLeftWinEdge - 1)

(* Variant: the left edge itself is acknowledged. *)
RcvrAckNumEdge(r) == r.rcvLeftWinEdge

(* RcvrAckPolicyBase guards the subtraction that sendAckFlowPDU does not. *)
RcvrAckNum(r) == IF r.rcvLeftWinEdge = 0 THEN 0 ELSE r.rcvLeftWinEdge - 1


(* DTP::svUpdate with the default policies: the left edge, the window      *)
(* credit, then either an ack computed before the edge is updated once     *)
(* more, or an A-timer, or (without retransmission) a flow control PDU.    *)
Credited(r) ==
    LET r1 == UpdateRcvLWE(r)
    IN  IF WindowFcOn THEN [r1 EXCEPT !.rcvRtWinEdge = @ + 1] ELSE r1

(* Variant: the ack policy does not update the edge again. *)
SvUpdateOnce(r) ==
    LET r1 == Credited(r)
    IN  IF RxOn /\ ~Immediate THEN StartATimer(r1, RcvrAckNum(r1)) ELSE r1

SvUpdate(r) ==
    LET r1 == Credited(r)
    IN  IF ~RxOn THEN r1
        ELSE IF Immediate THEN UpdateRcvLWE(r1)
                          ELSE StartATimer(r1, RcvrAckNum(r1))

SvUpdateOut(r) ==
    IF RxOn /\ ~Immediate THEN <<>>
    ELSE AckFlow(SvUpdate(r), RcvrAckNum(Credited(r)))

Outcome(r, up, out) == [st |-> r, up |-> up, out |-> out]

(* The end of most handlers: whatever the new left edge releases goes up. *)
Handed(r, out) == Outcome(Delimit(r), Deliverable(r), out)

-----------------------------------------------------------------------------
(* DTP::handleDataTransferPDUFromRMT, one operator per case of its code. *)

BehindLeftEdge(r, d) == ~d.drf /\ d.seq < r.rcvLeftWinEdge

AmongGaps(r, d) ==
    ~d.drf /\ r.rcvLeftWinEdge < d.seq /\ d.seq <= r.maxSeqNumRcvd

(* Variant: only the front of the queue is looked at. *)
QueuedInFront(r, d) ==
    \E e \in r.reassemblyPDUQ :
        e.seq = d.seq /\ \A f \in r.reassemblyPDUQ : e.seq <= f.seq

Queued(r, d) == d.seq \in SeqNums(r.reassemblyPDUQ)

InOrder(r, d) ==
    ~d.drf /\ r.rcvLeftWinEdge <= d.seq /\ d.seq = r.maxSeqNumRcvd + 1

OutOfOrder(r, d) ==
    ~d.drf /\ r.rcvLeftWinEdge <= d.seq /\ d.seq > r.maxSeqNumRcvd + 1

(* Case 1: first PDU of a run. What is deliverable goes up, the rest of    *)
(* the queue is flushed, and the left edge restarts behind this PDU.       *)
StartOfRun(r, d) ==
    LET before  == Delimit(r)
        flushed == [SetMaxSeqNumRcvd([before EXCEPT !.reassemblyPDUQ = {}], d.seq)
                      EXCEPT !.rcvLeftWinEdge = d.seq + 1]
        added   == AddToReassemblyQ(flushed, d)
        updated == IF DtcpPresent THEN SvUpdate(added) ELSE added
    IN  Outcome(Delimit(updated),
                Deliverable(r) \union Deliverable(updated),
                IF DtcpPresent THEN SvUpdateOut(added) ELSE <<>>)

(* Cases 2 and 3: a duplicate is answered with the current window. *)
DropDuplicate(r) == Outcome(r, {}, AckFlow(r, BelowLeftEdge(r)))

(* Case 3: fills a gap. *)
IntoGap(r, d) ==
    LET added == AddToReassemblyQ(r, d)
    IN  IF DtcpPresent
          THEN Handed(SvUpdate(added), SvUpdateOut(added))
          ELSE Handed([added EXCEPT !.rcvLeftWinEdge = r.maxSeqNumRcvd], <<>>)

(* Variant: the edge stops at the PDU instead of behind it. *)
NextInOrderShort(r, d) ==
    LET added == AddToReassemblyQ([r EXCEPT !.maxSeqNumRcvd = @ + 1], d)
    IN  IF DtcpPresent
          THEN Handed(SvUpdate(added), SvUpdateOut(added))
          ELSE Handed(StartATimer(
                        [added EXCEPT !.rcvLeftWinEdge = d.seq], d.seq), <<>>)

(* Case 4: the next one after the highest received so far. *)
NextInOrder(r, d) ==
    LET added == AddToReassemblyQ([r EXCEPT !.maxSeqNumRcvd = @ + 1], d)
    IN  IF DtcpPresent
          THEN Handed(SvUpdate(added), SvUpdateOut(added))
          ELSE Handed(StartATimer(
                        [added EXCEPT !.rcvLeftWinEdge = d.seq + 1], d.seq), <<>>)

(* Case 5: opens a gap. *)
BeyondGap(r, d) ==
    LET added == SetMaxSeqNumRcvd(AddToReassemblyQ(r, d), d.seq)
    IN  IF DtcpPresent
          THEN Handed(SvUpdate(added), SvUpdateOut(added))
          ELSE Handed(StartATimer(added, d.seq), <<>>)

(* A PDU that fits no case (its number is the left edge, and not beyond    *)
(* the highest received) is deleted without an answer.                     *)
Receive(r, d) ==
    CASE d.drf -> StartOfRun(r, d)
      [] BehindLeftEdge(r, d) -> DropDuplicate(r)
      [] AmongGaps(r, d) /\ Queued(r, d) -> DropDuplicate(r)
      [] AmongGaps(r, d) /\ ~Queued(r, d) -> IntoGap(r, d)
      [] InOrder(r, d) -> NextInOrder(r, d)
      [] OutOfOrder(r, d) -> BeyondGap(r, d)
      [] OTHER -> Outcome(r, {}, <<>>)

(* Variant: the edge is set to the timer's number unconditionally. *)
ATimerFiredBack(r, n) ==
    LET fired == [r EXCEPT !.aTimers[n] = @ - 1]
    IN  IF DtcpPresent THEN Handed(UpdateRcvLWE(fired), <<>>)
        ELSE Handed([fired EXCEPT !.rcvLeftWinEdge = n], <<>>)

(* DTP::handleDTPATimer and SendingAckPolicyBase. *)
ATimerFired(r, n) ==
    LET fired == [r EXCEPT !.aTimers[n] = @ - 1]
    IN  IF DtcpPresent THEN Handed(UpdateRcvLWE(fired), <<>>)
        ELSE Handed([fired EXCEPT !.rcvLeftWinEdge = IF @ > n THEN @ ELSE n], <<>>)

-----------------------------------------------------------------------------
(* The component on its own. *)

(* The peer numbers its PDUs from 1 and sets DRF on the first one only. A  *)
(* control ack is followed by an empty PDU that repeats the last number    *)
(* used (0 before the first), never with DRF.                              *)
Sendable == {d \in DataPDU : d.drf => d.seq = 1}

Init ==
    /\ rcv = InitRcv
    /\ delivered = {}
    /\ newRun = FALSE
    /\ repeated = FALSE

(* DRF starts the record of what was handed up afresh. *)
Becomes(o, drf) ==
    /\ rcv' = o.st
    /\ newRun' = drf
    /\ delivered' = (IF drf THEN {} ELSE delivered) \union SeqNums(o.up)
    /\ repeated' = (repeated \/ (~drf /\ SeqNums(o.up) \intersect delivered # {}))

ReceiveData(d) ==
    /\ ~rcv.thrown
    /\ rcv.rcvRtWinEdge < MaxRWE
    /\ \A n \in SeqNum : rcv.aTimers[n] < MaxATimers
    /\ Becomes(Receive(rcv, d), d.drf)

ATimerExpires(n) ==
    /\ ~rcv.thrown
    /\ rcv.aTimers[n] > 0
    /\ Becomes(ATimerFired(rcv, n), FALSE)

Next ==
    \/ \E d \in Sendable : ReceiveData(d)
    \/ \E n \in SeqNum : ATimerExpires(n)

Spec == Init /\ [][Next]_vars

-----------------------------------------------------------------------------
(* Properties. *)

(* Every field stays in the range of its C++ member and the left edge      *)
(* within one of the highest number a peer can send.                       *)
TypeOK ==
    /\ rcv \in RcvState
    /\ delivered \subseteq SeqNum
    /\ newRun \in BOOLEAN
    /\ repeated \in BOOLEAN

(* The exception of addPDUToReassemblyQ ("SHOULD not ever happen") never   *)
(* is thrown: whichever way PDUs arrive, no handler inserts a sequence     *)
(* number that is already queued.                                          *)
NeverThrown == ~rcv.thrown

(* Between two events every queued PDU is at or beyond the left edge       *)
(* (nothing that could go up was left behind when the edge moved) and no   *)
(* higher than the highest number received.                                *)
QueueWithinEdges ==
    ForceOrder =>
        \A d \in rcv.reassemblyPDUQ :
            rcv.rcvLeftWinEdge <= d.seq /\ d.seq <= rcv.maxSeqNumRcvd

(* Within a run (from one PDU with the DRF flag to the next) an ordered    *)
(* flow hands up no PDU twice, however often it is retransmitted.          *)
NoRepeatInRun == ForceOrder => ~repeated

(* Within a run an ordered flow hands up increasing sequence numbers:      *)
(* what goes up in a step comes behind everything that went up before.     *)
InOrderInRun ==
    [][ForceOrder /\ ~newRun' =>
         \A n \in delivered' \ delivered : \A m \in delivered : m < n]_vars

(* The left edge, which acks are computed from, never moves back within a  *)
(* run: an acknowledgement once given is never withdrawn.                  *)
EdgeMonotone ==
    [][~newRun' => rcv'.rcvLeftWinEdge >= rcv.rcvLeftWinEdge]_vars

(* With retransmission and immediate acks the PDU at the left edge is not  *)
(* left in the queue after an edge jumped over a gap: the update made by   *)
(* the ack policy, after the one of svUpdate, sees to it.                  *)
HeadNotStranded ==
    RxOn /\ Immediate => rcv.rcvLeftWinEdge \notin SeqNums(rcv.reassemblyPDUQ)

(* What handlers rely on between two events. Nothing queued is higher than *)
(* the highest number received; nothing queued is behind the left edge of  *)
(* an ordered flow, and everything handed up is.                           *)
Bounded(r) == \A d \in r.reassemblyPDUQ : d.seq <= r.maxSeqNumRcvd

AtOrBeyond(r, n) == ForceOrder => \A d \in r.reassemblyPDUQ : n <= d.seq

Settled(r) ==
    /\ r \in RcvState
    /\ ~r.thrown
    /\ Bounded(r)
    /\ AtOrBeyond(r, r.rcvLeftWinEdge)

Within(numbers, n) == \A m \in numbers : m < n

(* The inductive invariant of the proofs: the receiver is settled, and the *)
(* left edge of an ordered flow separates what went up in this run from    *)
(* what is queued, so that neither an arrival nor a timer can hand up      *)
(* anything again or out of order.                                         *)
IInv ==
    /\ Settled(rcv)
    /\ delivered \subseteq SeqNum
    /\ newRun \in BOOLEAN
    /\ repeated \in BOOLEAN
    /\ ForceOrder => Within(delivered, rcv.rcvLeftWinEdge) /\ ~repeated
=============================================================================
