------------------------------ MODULE EFCPDefs ------------------------------
(***************************************************************************)
(* Vocabulary shared by the two halves of an EFCP instance: the parameters *)
(* of the QoS cube a connection was created with, the PDUs the two         *)
(* instances of a connection exchange, and the C++ unsigned arithmetic     *)
(* their sequence numbers are computed with.                               *)
(***************************************************************************)
EXTENDS Integers, FiniteSetsExt

CONSTANTS
    RxOn,          \* QoSCube::isRxOn: retransmission control
    WindowFcOn,    \* QoSCube::isWindowFcOn: window-based flow control
    ForceOrder,    \* QoSCube::isForceOrder: SDUs handed up in order
    MaxAllowGap,   \* QoSCube::getMaxAllowGap
    MaxSeq,        \* bound: the highest data sequence number of a model
    Modulus        \* 2^32 in the program: the range of an unsigned int

ASSUME QoSAssumption ==
    /\ {RxOn, WindowFcOn, ForceOrder} \subseteq BOOLEAN
    /\ MaxAllowGap \in Nat
    /\ MaxSeq \in Nat \ {0}
    /\ Modulus \in Nat /\ Modulus > MaxSeq + MaxAllowGap + 2

(* DTPState::initialize with rate-based flow control off. *)
DtcpPresent == RxOn \/ WindowFcOn

UInt(n) == (n + Modulus) % Modulus

SeqNum == 0..MaxSeq

(* A data PDU. Two things are told apart about its user data: whether it   *)
(* has any, and nothing else, because Delimiting numbers every SDU 1.      *)
DataPDU == [seq : SeqNum, drf : BOOLEAN, empty : BOOLEAN]

(* The number Delimiting stamps on every SDU: seqNum is set once, to 1. *)
SduSeqNum == 1

SDUSeqNumOf(d) == IF d.empty THEN 0 ELSE SduSeqNum

SeqNums(Q) == {d.seq : d \in Q}

(* A control PDU before it is numbered. Fields that a kind does not carry  *)
(* or that its receiver never reads are 0.                                 *)
ControlKinds == {"ackFlow", "ackOnly", "fcOnly", "ctrlAck"}

Carries(kind) ==
    [ack |-> kind \in {"ackFlow", "ackOnly"},
     fc  |-> kind \in {"ackFlow", "fcOnly"}]

ControlBody == [kind : ControlKinds, ack : Nat, rwe : Nat, lwe : Nat]
=============================================================================
