--------------------------- MODULE EFCPConnection ----------------------------
(***************************************************************************)
(* An EFCP connection: two EFCP instances, each with the sending half of   *)
(* DTCPSender and the receiving half of DTPReceiver, and the path between  *)
(* them. A PDU that arrives runs the whole of DTP::handleMsgFromRMT, which *)
(* is where the halves meet: data is answered with control PDUs, a gap in  *)
(* the numbers of control PDUs with a ControlAck and an empty data PDU,    *)
(* and a ControlAck with both.                                             *)
(*                                                                         *)
(* The path is first-in first-out until a fault budget is spent: RMT       *)
(* queues drop PDUs, a change of route lets one overtake another, and a    *)
(* path slower than the configured rtt makes a retransmission timer fire   *)
(* while copies are still under way.                                       *)
(***************************************************************************)
EXTENDS EFCPDefs, SequencesExt

CONSTANTS
    A, B,                        \* the two EFCP instances
    Writers,                     \* those whose user writes SDUs
    MaxSDUs,                     \* bound: SDUs written at each of them
    MaxLoss, MaxReorder, MaxEarly,  \* bounds: faults of each kind
    Immediate, RcvCredit, MaxRWE, MaxATimers,
    SndCredit, MaxClosedWinQueLen, DataReXmitMax, MaxFragments,
    MaxCtrl, PeerAcks, PeerRWEs, PeerLWEs

ASSUME ConnectionAssumption ==
    /\ A # B
    /\ Writers \subseteq {A, B}
    /\ {MaxSDUs, MaxLoss, MaxReorder, MaxEarly} \subseteq Nat
    /\ {RcvCredit, SndCredit, MaxRWE, MaxATimers} \subseteq Nat
    /\ Immediate \in BOOLEAN

VARIABLES
    snd, rcv,     \* the two halves of each instance
    nextCtrl,     \* DTCPState::nextSenderControlSeqNum of each instance
    net,          \* net[p]: the PDUs under way to p, oldest first
    faults,       \* how many faults of each kind there were
    written,      \* history: numbers of the PDUs whose SDUs p's user wrote
    handedUp,     \* history: numbers of the PDUs whose SDUs went up at p
    acked,        \* history: numbers that p's peer acknowledged
    run           \* history: what DTPReceiver records about p's current run

vars == <<snd, rcv, nextCtrl, net, faults, written, handedUp, acked, run>>

R(p) == INSTANCE DTPReceiver WITH
          rcv <- rcv[p], delivered <- run[p].delivered,
          newRun <- run[p].newRun, repeated <- run[p].repeated

S(p) == INSTANCE DTCPSender WITH
          snd <- snd[p], acked <- acked[p], abandoned <- {}, controlAcked <- FALSE

Peers == {A, B}
Peer(p) == IF p = A THEN B ELSE A

-----------------------------------------------------------------------------
(* PDUs on the path. *)

Data(pdus) == [i \in DOMAIN pdus |-> [type |-> "data", pdu |-> pdus[i]]]

(* Control PDUs take consecutive numbers of their own. *)
Ctrl(n, bodies) ==
    [i \in DOMAIN bodies |->
        [type |-> "ctrl",
         pdu |-> [seq |-> n + i - 1, kind |-> bodies[i].kind, ack |-> bodies[i].ack,
                  rwe |-> bodies[i].rwe, lwe |-> bodies[i].lwe]]]

(* DTP::sendControlAckPDU. *)
ControlAck(r) ==
    [kind |-> "ctrlAck", ack |-> 0, rwe |-> r.rcvRtWinEdge, lwe |-> r.rcvLeftWinEdge]

(* p sends msgs while channel, net without what p consumed, is what else   *)
(* is under way; ctrls of the messages are control PDUs.                   *)
Sends(p, channel, msgs, ctrls) ==
    /\ net' = [channel EXCEPT ![Peer(p)] = @ \o msgs]
    /\ nextCtrl' = [nextCtrl EXCEPT ![p] = @ + ctrls]

(* Numbers in increasing order, each at the place of its rank.             *)
Rank(nums, n) == Cardinality({m \in nums : m <= n})
Increasing(nums) ==
    [i \in 1..Cardinality(nums) |-> CHOOSE n \in nums : Rank(nums, n) = i]

UserDataSeqs(up) == Increasing(SeqNums({d \in up : ~d.empty}))

-----------------------------------------------------------------------------
(* A PDU handed up by RMT. *)

RecordRun(p, o, drf) ==
    LET before == IF drf THEN {} ELSE run[p].delivered
    IN  run' = [run EXCEPT ![p] =
            [delivered |-> before \union SeqNums(o.up),
             newRun |-> drf,
             repeated |-> \/ @.repeated
                          \/ SeqNums(o.up) \intersect before # {}]]

HandleData(p, d, channel) ==
    LET o == R(p)!Receive(rcv[p], d)
    IN  /\ ~rcv[p].thrown
        /\ rcv' = [rcv EXCEPT ![p] = o.st]
        /\ handedUp' = [handedUp EXCEPT ![p] = @ \o UserDataSeqs(o.up)]
        /\ RecordRun(p, o, d.drf)
        /\ Sends(p, channel, Ctrl(nextCtrl[p], o.out), Len(o.out))
        /\ UNCHANGED <<snd, written, acked>>

HandleControl(p, m, channel) ==
    LET o      == S(p)!HandleControl(snd[p], m)
        heard  == ~S(p)!DuplicateControl(snd[p], m)
        first  == IF S(p)!LostControl(snd[p], m) THEN <<ControlAck(rcv[p])>> ELSE <<>>
        second == IF heard /\ m.kind = "ctrlAck"
                    THEN R(p)!AckFlow(rcv[p], R(p)!BelowLeftEdge(rcv[p])) ELSE <<>>
        n      == nextCtrl[p]
    IN  /\ snd' = [snd EXCEPT ![p] = o.st]
        /\ acked' = [acked EXCEPT ![p] = @ \union
              (S(p)!Outstanding(S(p)!Numbering(snd[p], m)) \ S(p)!Outstanding(o.st))]
        /\ Sends(p, channel,
                 Ctrl(n, first) \o Data(o.lead) \o Ctrl(n + Len(first), second) \o Data(o.tx),
                 Len(first) + Len(second))
        /\ UNCHANGED <<rcv, written, handedUp, run>>

Handle(p, msg, channel) ==
    \/ msg.type = "data" /\ HandleData(p, msg.pdu, channel)
    \/ msg.type = "ctrl" /\ HandleControl(p, msg.pdu, channel)

Arrive(p) ==
    /\ net[p] # <<>>
    /\ Handle(p, Head(net[p]), [net EXCEPT ![p] = Tail(@)])
    /\ UNCHANGED faults

Fault(kind, max) ==
    /\ faults[kind] < max
    /\ faults' = [faults EXCEPT ![kind] = @ + 1]

ArriveOvertaking(p, i) ==
    /\ Fault("reorder", MaxReorder)
    /\ Handle(p, net[p][i], [net EXCEPT ![p] = RemoveAt(@, i)])

Lose(p, i) ==
    /\ Fault("loss", MaxLoss)
    /\ net' = [net EXCEPT ![p] = RemoveAt(@, i)]
    /\ UNCHANGED <<snd, rcv, nextCtrl, written, handedUp, acked, run>>

-----------------------------------------------------------------------------
(* The user and the timers. *)

WriteSDU(p) ==
    /\ Len(written[p]) < MaxSDUs
    /\ LET o == S(p)!TrySendGenerated(S(p)!Numbered(snd[p], 1), S(p)!Generated(snd[p], 1))
       IN  /\ snd' = [snd EXCEPT ![p] = o.st]
           /\ Sends(p, net, Data(o.tx), 0)
    /\ written' = [written EXCEPT ![p] = Append(@, snd[p].nextSeqNumToSend)]
    /\ UNCHANGED <<rcv, faults, handedUp, acked, run>>

Quiet == \A p \in Peers : net[p] = <<>>

RxTimerExpires(p, e) ==
    /\ IF Quiet THEN UNCHANGED faults ELSE Fault("early", MaxEarly)
    /\ LET o == S(p)!RxTimerExpiry(snd[p], e)
       IN  /\ snd' = [snd EXCEPT ![p] = o.st]
           /\ Sends(p, net, Data(o.tx), 0)
    /\ UNCHANGED <<rcv, written, handedUp, acked, run>>

ATimerExpires(p, n) ==
    /\ ~rcv[p].thrown
    /\ rcv[p].aTimers[n] > 0
    /\ LET o == R(p)!ATimerFired(rcv[p], n)
       IN  /\ rcv' = [rcv EXCEPT ![p] = o.st]
           /\ handedUp' = [handedUp EXCEPT ![p] = @ \o UserDataSeqs(o.up)]
           /\ RecordRun(p, o, FALSE)
    /\ UNCHANGED <<snd, nextCtrl, net, faults, written, acked>>

-----------------------------------------------------------------------------
Init ==
    /\ snd = [p \in Peers |-> S(p)!InitSnd]
    /\ rcv = [p \in Peers |-> R(p)!InitRcv]
    /\ nextCtrl = [p \in Peers |-> 1]
    /\ net = [p \in Peers |-> <<>>]
    /\ faults = [k \in {"loss", "reorder", "early"} |-> 0]
    /\ written = [p \in Peers |-> <<>>]
    /\ handedUp = [p \in Peers |-> <<>>]
    /\ acked = [p \in Peers |-> {}]
    /\ run = [p \in Peers |-> [delivered |-> {}, newRun |-> FALSE, repeated |-> FALSE]]

Next ==
    \/ \E p \in Writers : WriteSDU(p)
    \/ \E p \in Peers : Arrive(p)
    \/ \E p \in Peers : \E i \in 2..Len(net[p]) : ArriveOvertaking(p, i)
    \/ \E p \in Peers : \E i \in 1..Len(net[p]) : Lose(p, i)
    \/ \E p \in Peers : \E e \in snd[p].rxQ : RxTimerExpires(p, e)
    \/ \E p \in Peers : \E n \in SeqNum : ATimerExpires(p, n)

Spec == Init /\ [][Next]_vars

(* The simulator delivers every event it has scheduled: a PDU under way    *)
(* arrives, a timer that is not cancelled fires. Nothing is assumed of the *)
(* user, nor of the order of events, nor that faults happen. The first two *)
(* conjuncts are weak fairness too, with the condition under which their   *)
(* action is enabled written out: TLC evaluates ENABLED of them too slowly. *)
SomeRxTimerExpires(p) == Quiet /\ \E e \in snd[p].rxQ : RxTimerExpires(p, e)
SomeATimerExpires(p) == \E n \in SeqNum : ATimerExpires(p, n)

Fairness ==
    \A p \in Peers :
        /\ []<>(net[p] = <<>>) \/ []<><<Arrive(p)>>_vars
        /\ []<>(snd[p].rxQ = {} \/ ~Quiet) \/ []<><<SomeRxTimerExpires(p)>>_vars
        /\ WF_vars(SomeATimerExpires(p))

FairSpec == Spec /\ Fairness

-----------------------------------------------------------------------------
(* Properties. *)

Messages(p) == {net[p][i] : i \in 1..Len(net[p])}

CtrlPDUs(p) == {msg.pdu : msg \in {m \in Messages(p) : m.type = "ctrl"}}
DataPDUs(p) == {msg.pdu : msg \in {m \in Messages(p) : m.type = "data"}}

(* Both halves of both instances keep the ranges of their C++ members, and *)
(* what is under way are PDUs an instance can send.                        *)
TypeOK ==
    \A p \in Peers :
        /\ snd[p] \in S(p)!SndState
        /\ rcv[p] \in R(p)!RcvState
        /\ nextCtrl[p] \in Nat \ {0}
        /\ DataPDUs(p) \subseteq DataPDU
        /\ \A m \in CtrlPDUs(p) : m.seq < nextCtrl[Peer(p)]
        /\ ~rcv[p].thrown

(* The sender never believes in more credit than its peer has granted,     *)
(* whatever was lost, overtaken or repeated on the way.                    *)
CreditWasGranted ==
    SndCredit <= RcvCredit =>
        \A p \in Peers : snd[p].sndRtWinEdge <= rcv[Peer(p)].rcvRtWinEdge

(* A data PDU with user data that is under way is inside the window its    *)
(* receiver has granted.                                                   *)
SentWithinGrant ==
    WindowFcOn /\ SndCredit <= RcvCredit =>
        \A p \in Peers : \A d \in DataPDUs(p) :
            ~d.empty => d.seq <= rcv[p].rcvRtWinEdge

(* The two ends agree on the credit, the one sending within what the other *)
(* has granted.                                                            *)
GrantsRespected == CreditWasGranted /\ SentWithinGrant

(* A window edge once granted is not taken back by a control PDU that      *)
(* arrives late: the numbers of control PDUs see to it.                    *)
WindowNeverShrinks ==
    [][SndCredit <= RcvCredit =>
         \A p \in Peers : snd'[p].sndRtWinEdge >= snd[p].sndRtWinEdge]_vars

(* A PDU leaves the retransmission queue by an ack only when the peer's    *)
(* left edge has passed it.                                                *)
AckedWerePassed ==
    \A p \in Peers : \A n \in acked[p] : n < rcv[Peer(p)].rcvLeftWinEdge + MaxAllowGap

(* The window between a receiver's edges has the size of its credit when   *)
(* nothing is under way.                                                   *)
LeftmostFree(r) == IF r.rcvLeftWinEdge = 0 THEN 1 ELSE r.rcvLeftWinEdge

WindowIsCredit ==
    WindowFcOn /\ Quiet =>
        \A p \in Peers : rcv[p].rcvRtWinEdge - LeftmostFree(rcv[p]) + 1 = RcvCredit

(* Nothing is acknowledged that was never handed up.                       *)
AckedWereHandedUp ==
    \A p \in Peers : \A n \in acked[p] \intersect ToSet(written[p]) :
        n \in ToSet(handedUp[Peer(p)])

(* The two ends agree on what was sent, acknowledged, handed up and granted *)
(* in either direction, whatever each is in the middle of.                 *)
EndsAgree ==
    /\ TypeOK
    /\ AckedWerePassed
    /\ AckedWereHandedUp
    /\ WindowIsCredit

(* No SDU is handed up twice.                                              *)
HandedUpOnce == \A p \in Peers : IsInjective(handedUp[p])

(* As long as nothing on the path is lost or overtaken, whatever a user    *)
(* writes is handed up in the end; the timers, which fire at any moment    *)
(* after the PDU that started them, do not get in the way.                 *)
UndisturbedAreHandedUp ==
    \A p \in Peers : \A n \in SeqNum :
        n \in ToSet(written[p]) ~>
            \/ n \in ToSet(handedUp[Peer(p)])
            \/ faults["loss"] + faults["reorder"] > 0

(* The receiving half takes no step here that DTPReceiver does not allow,  *)
(* so what holds there for any environment holds in a connection.          *)
ReceiverA == INSTANCE DTPReceiver WITH
    rcv <- rcv[A], delivered <- run[A].delivered,
    newRun <- run[A].newRun, repeated <- run[A].repeated
ReceiverB == INSTANCE DTPReceiver WITH
    rcv <- rcv[B], delivered <- run[B].delivered,
    newRun <- run[B].newRun, repeated <- run[B].repeated

ReceivesAsSpecified == ReceiverA!Spec /\ ReceiverB!Spec

(* In neither end's queue a PDU that can go up is left behind: after a PDU *)
(* was lost and the edge has jumped over it, no later event need come.     *)
HeadsNotStranded == ReceiverA!HeadNotStranded /\ ReceiverB!HeadNotStranded

(* No exchange of acks feeds itself: once the users are done and the       *)
(* faults are spent, the path falls silent.                                *)
FallsSilent == <>[]Quiet

(* Each direction behaves as OrderedDelivery: a user gets what the other   *)
(* one wrote, all of it, once, in order.                                   *)
FromA == INSTANCE OrderedDelivery WITH
    SDU <- SeqNum, written <- written[A], handedUp <- handedUp[B]
FromB == INSTANCE OrderedDelivery WITH
    SDU <- SeqNum, written <- written[B], handedUp <- handedUp[A]

DeliversInOrder == FromA!Spec /\ FromB!Spec

(* Every PDU with user data is acknowledged in the end.                    *)
WrittenAreAcked ==
    \A p \in Peers : \A n \in SeqNum : n \in ToSet(written[p]) ~> n \in acked[p]

(* A port that was blocked because the closed window queue is full is      *)
(* unblocked again.                                                        *)
PortReopens == \A p \in Peers : snd[p].blockingPort ~> ~snd[p].blockingPort
=============================================================================
