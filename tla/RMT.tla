-------------------------------- MODULE RMT ---------------------------------
(***************************************************************************)
(* The relaying and multiplexing task (RMT) of one IPC process: its ports, *)
(* the input and output queues of each, the scheduling, monitoring and     *)
(* maximal-queue policies called as PDUs enter and leave a queue, the      *)
(* forwarding table and the gates to EFCP instances. The resource          *)
(* allocator opens the ports and blocks their output.                      *)
(*                                                                         *)
(* Modules pass PDUs to each other as messages that take no time, so a PDU *)
(* on its way is in a sequence of its own; what one handler does in calls  *)
(* is one step. One direction of a port is a record, and each call is an   *)
(* operator that takes it and returns the new one.                         *)
(***************************************************************************)
EXTENDS Integers, SequencesExt, FiniteSetsExt

CONSTANTS
    Ports,          \* the (N-1)-ports
    Interface,      \* the port to the medium, if the process is on wire
    Efcp,           \* the EFCP instances of the process, as a source of PDUs
    QueueIds,       \* QueuePerNQoS: queue ids are QoS ids, in order of creation
    MgmtQoS, AnyQoS,\* VAL_MGMTQOSID and SimpleTable's ANY_QOS
    Here, Remote,   \* the address of this process and those of others
    Ceps,           \* CEP ids
    Traffics,       \* what the sources may send: each maps a source to PDUs
    Routes,         \* <<address, QoS, port>>: changes of the table to consider
    MaxQLength, ThreshQLength,
    MaxQPolicies,   \* the maximal-queue policies to consider
    Scheduler,      \* "LongestQFirst", or "DumbSch" with BEMonitor
    MaxChanges      \* bound: routes changed, outputs blocked and EFCP
                    \* instances created, in all

QoS == Range(QueueIds)
Sources == Ports \union {Efcp}
Addresses == Remote \union {Here}

(* A PDU, and whether an ECN marker set its congestion flag. *)
PDU == [id : Nat, src : Sources, dst : Addresses, qos : STRING, cep : Ceps]
FlaggedPDU == [pdu : PDU, ecn : BOOLEAN]
Marked(u) == [pdu |-> u, ecn |-> TRUE]
Unmarked(u) == [pdu |-> u, ecn |-> FALSE]

ASSUME PortAssumption ==
    /\ Interface \in Ports
    /\ Efcp \notin Ports
    /\ Here \notin Remote
    /\ Ports \intersect Ceps = {}

ASSUME QueueAssumption ==
    /\ QueueIds \in Seq(STRING) /\ QueueIds # <<>>
    /\ MaxQLength \in Nat \ {0} /\ ThreshQLength \in Nat
    /\ MaxQPolicies \subseteq {"TailDrop", "ECNMarker", "UpstreamNotifier", "PortMaxQ"}
    /\ Scheduler \in {"LongestQFirst", "DumbSch"}

(* A source numbers its PDUs: src and id stand for which PDU it is. *)
ASSUME TrafficAssumption ==
    /\ Traffics \subseteq [Sources -> Seq(PDU)]
    /\ \A traffic \in Traffics, s \in Sources : \A i \in DOMAIN traffic[s] :
          /\ traffic[s][i].src = s
          /\ \A j \in DOMAIN traffic[s] : i < j => traffic[s][i].id < traffic[s][j].id
    /\ Routes \subseteq Remote \X (QoS \union {AnyQoS}) \X (Ports \union {"none"})
    /\ MaxChanges \in Nat

VARIABLES
    node,       \* onWire, relayOn, the maximal-queue policy and what the
                \* sources send, which do not change
    dir,        \* dir[p]["in"], dir[p]["out"]: the directions of port p
    busy,       \* busy[p]: portTransmitEnd events scheduled
    open,       \* open[p]: the (N-1)-flow of the port is CON_ESTABLISHED
    onLine,     \* onLine[p]: PDUs on their way from the RMT to output queues
    fromEfcp,   \* PDUs on their way from EFCP instances to the RMT
    table,      \* SimpleTable: table[a] maps QoS ids to ports
    gate,       \* efcpiOut: "none" (no key), "null" (a NULL entry) or "made"
    ahead,      \* what the sources have not sent yet
    sent,       \* sent[p], sent[c]: PDUs sent south by p, passed to EFCPI c
    away,       \* PDUs that went no further, and why
    changes     \* how many of them there were

vars == <<node, dir, busy, open, onLine, fromEfcp, table, gate, ahead, sent, away, changes>>

Present == IF node.onWire THEN {Interface} ELSE Ports

-----------------------------------------------------------------------------
(* One direction of a port (RMTPort, its RMTQueues and the monitor's list). *)

Types == {"in", "out"}

Direction ==
    [type : Types,
     ready : BOOLEAN,              \* inputReady, outputReady
     blocked : BOOLEAN,            \* blockedInput, blockedOutput
     waiting : Int,                \* waitingOnInput, waitingOnOutput
     queue : [QoS -> Seq(FlaggedPDU)],
     link : Seq(FlaggedPDU),       \* released, still on their way
     wakeups : Nat,                \* readyForRead, readyToServe scheduled
     smart : Seq(QoS),             \* BEMonitor::inQ, BEMonitor::outQ
     dropped : SUBSET PDU,
     slowed : SUBSET PDU]          \* PDUs whose sender is to slow down

InitDirection(type) ==
    [type |-> type, ready |-> FALSE, blocked |-> FALSE, waiting |-> 0,
     queue |-> [q \in QoS |-> <<>>], link |-> <<>>, wakeups |-> 0,
     smart |-> <<>>, dropped |-> {}, slowed |-> {}]

(* RMTQueue::dropLast. *)
DropLast(d, q) ==
    [d EXCEPT !.queue[q] = Front(@), !.dropped = @ \union {Last(d.queue[q]).pdu}]

(* Variant: an output port stays ready until the PDU reaches it. *)
PostQueueDepartureReady(d) ==
    IF d.type = "in"
    THEN [d EXCEPT !.waiting = @ - 1, !.ready = FALSE, !.wakeups = @ + 1]
    ELSE [d EXCEPT !.waiting = @ - 1]

(* RMT::postQueueDeparture: an input port schedules its next read, an      *)
(* output port is busy.                                                    *)
PostQueueDeparture(d) ==
    [d EXCEPT !.waiting = @ - 1,
              !.ready = FALSE,
              !.wakeups = IF d.type = "in" THEN @ + 1 ELSE @]

(* Variant: the youngest PDU of the queue goes first. *)
ReleasePDULast(d, q) ==
    IF d.queue[q] = <<>> THEN d
    ELSE PostQueueDeparture([d EXCEPT !.queue[q] = Front(@),
                                      !.link = Append(@, Last(d.queue[q]))])

(* RMTQueue::releasePDU. *)
ReleasePDU(d, q) ==
    IF d.queue[q] = <<>> THEN d
    ELSE PostQueueDeparture([d EXCEPT !.queue[q] = Tail(@),
                                      !.link = Append(@, Head(d.queue[q]))])

(* RMTPort::getLongestQueue: the first of the longest. *)
LongestQueue(d) ==
    LET Longest(i) == \A j \in DOMAIN QueueIds :
                         Len(d.queue[QueueIds[j]]) <= Len(d.queue[QueueIds[i]])
    IN  QueueIds[Min({i \in DOMAIN QueueIds : Longest(i)})]

(* LongestQFirst::processQueues; DumbSch::processQueues with               *)
(* BEMonitor::getNextInput or getNextOutput.                               *)
ProcessQueues(d) ==
    IF ~d.ready \/ d.waiting = 0 THEN d
    ELSE IF Scheduler = "LongestQFirst" THEN ReleasePDU(d, LongestQueue(d))
    ELSE IF d.smart = <<>> THEN d
    ELSE ReleasePDU([d EXCEPT !.smart = Tail(@)], Head(d.smart))

(* Variant: a port that gets ready does not look at its queues. *)
SetReadyOnly(d) == IF d.blocked THEN d ELSE [d EXCEPT !.ready = TRUE]

(* RMTPort::setOutputReady and setInputReady, the signal they emit and     *)
(* RMT::writeToPort and readFromPort, which handle it.                     *)
SetReady(d) ==
    IF d.blocked THEN d ELSE ProcessQueues([d EXCEPT !.ready = TRUE])

(* RMTQMonitorBase::postPDUInsertion, which no BEMonitor overrides.        *)
PostPDUInsertion(d, q) == d

(* BEMonitor::onMessageDrop. *)
OnMessageDrop(d, q) ==
    IF Scheduler = "DumbSch" /\ d.smart # <<>> THEN [d EXCEPT !.smart = Front(@)] ELSE d

AtMax(d, q) == Len(d.queue[q]) >= MaxQLength

(* Variant: the queue may be one PDU longer. *)
DropsLater(d, q) ==
    node.maxQ \in {"TailDrop", "ECNMarker"} /\ Len(d.queue[q]) > MaxQLength

(* Which maximal-queue policies drop the PDU just queued. BEMonitor's      *)
(* counts are the lengths of its lists.                                    *)
Drops(d, q) ==
    \/ node.maxQ \in {"TailDrop", "ECNMarker"} /\ AtMax(d, q)
    \/ node.maxQ = "PortMaxQ" /\ Len(d.smart) > MaxQLength

(* RMTQueue::markCongestionOnLast. *)
MarkCongestionOnLast(d, q) ==
    [d EXCEPT !.queue[q] = Append(Front(@), Marked(Last(@).pdu))]

(* RMTMaxQBase::notifySenderOfCongestion. *)
NotifySenderOfCongestion(d, q) ==
    [d EXCEPT !.slowed = @ \union {Last(d.queue[q]).pdu}]

(* What a policy does to a PDU it does not drop. *)
RunMaxQ(d, q) ==
    CASE node.maxQ = "ECNMarker" -> MarkCongestionOnLast(d, q)
      [] node.maxQ = "UpstreamNotifier" /\ d.type = "out" /\ AtMax(d, q) ->
            NotifySenderOfCongestion(d, q)
      [] OTHER -> d

(* Variant: the scheduler is not called. *)
PostQueueArrivalQuiet(d, q, error) ==
    IF error THEN DropLast(d, q)
    ELSE [PostPDUInsertion(d, q) EXCEPT !.waiting = @ + 1]

(* RMT::postQueueArrival: a PDU with a bit error goes, then the policies   *)
(* have their say, then the scheduler is called.                           *)
PostQueueArrival(d, q, error) ==
    LET seen == PostPDUInsertion(d, q)
        full == Len(seen.queue[q]) >= ThreshQLength
    IN  IF error THEN DropLast(d, q)
        ELSE IF full /\ Drops(seen, q) THEN OnMessageDrop(DropLast(seen, q), q)
        ELSE ProcessQueues([(IF full THEN RunMaxQ(seen, q) ELSE seen) EXCEPT !.waiting = @ + 1])

(* RMTQueue::enqueuePDU. *)
EnqueuePDU(d, e, error) ==
    LET q == e.pdu.qos
    IN  PostQueueArrival([d EXCEPT !.queue[q] = Append(@, e)], q, error)

-----------------------------------------------------------------------------
(* Forwarding. *)

Entry == [QoS \union {AnyQoS} -> Ports \union {"none"}]
NoEntry == [q \in QoS \union {AnyQoS} |-> "none"]

(* SimpleTable::lookup: the entry of the QoS, any entry for management,    *)
(* else the entry for any QoS. Of several for management the first by name *)
(* is taken, here any.                                                     *)
Lookup(dst, qos) ==
    LET t == table[dst]
        hit == IF qos \in QoS THEN {t[qos]} \ {"none"} ELSE {}
    IN  IF hit # {} THEN hit
        ELSE IF qos = MgmtQoS THEN Range(t) \ {"none"}
        ELSE {t[AnyQoS]} \ {"none"}

(* RMT::fwTableLookup. *)
FwTableLookup(u) == IF node.onWire THEN {Interface} ELSE Lookup(u.dst, u.qos)

Away(u, why) == away' = [away EXCEPT ![why] = @ \union {u}]

(* RMT::relayPDUToPort. A PDU without a queue of its id is not freed and   *)
(* not kept: it is gone.                                                   *)
RelayPDUToPort(e) ==
    LET ports == FwTableLookup(e.pdu)
    IN  /\ \/ ports = {} /\ Away(e.pdu, "invalid") /\ UNCHANGED onLine
           \/ /\ ports # {} /\ e.pdu.qos \notin QoS
              /\ Away(e.pdu, "noQueue")
              /\ UNCHANGED onLine
           \/ /\ e.pdu.qos \in QoS
              /\ \E p \in ports : onLine' = [onLine EXCEPT ![p] = Append(@, e)]
              /\ UNCHANGED away
        /\ UNCHANGED <<gate, sent>>

(* RMT::relayPDUToEFCPI. Looking a CEP id up in the map inserts it. *)
RelayPDUToEFCPI(e) ==
    LET c == e.pdu.cep
    IN  /\ IF gate[c] = "made"
           THEN /\ sent' = [sent EXCEPT ![c] = Append(@, e.pdu)]
                /\ UNCHANGED <<gate, away>>
           ELSE /\ gate' = [gate EXCEPT ![c] = "null"]
                /\ Away(e.pdu, "invalid")
                /\ UNCHANGED sent
        /\ UNCHANGED onLine

(* RMT::processMessage: only a PDU from a port needs the process to relay. *)
ProcessMessage(e, fromPort) ==
    \/ e.pdu.dst = Here /\ RelayPDUToEFCPI(e)
    \/ e.pdu.dst # Here /\ (fromPort => node.relayOn) /\ RelayPDUToPort(e)
    \/ /\ e.pdu.dst # Here /\ fromPort /\ ~node.relayOn
       /\ Away(e.pdu, "held")
       /\ UNCHANGED <<onLine, gate, sent>>

-----------------------------------------------------------------------------
(* A bottom process has the interface port only, ready at once             *)
(* (RA::setRMTMode, RA::bindMediumToRMT); the ports of another wait for    *)
(* their (N-1)-flows.                                                      *)
Nodes == [onWire : BOOLEAN, relayOn : BOOLEAN, maxQ : MaxQPolicies, traffic : Traffics]

Whys == {"invalid", "noQueue", "held"}

Init ==
    /\ node \in Nodes
    /\ node.onWire => ~node.relayOn
    /\ open = [p \in Ports |-> node.onWire /\ p = Interface]
    /\ dir = [p \in Ports |-> [t \in Types |->
                [InitDirection(t) EXCEPT !.ready = open[p]]]]
    /\ busy = [p \in Ports |-> 0]
    /\ onLine = [p \in Ports |-> <<>>]
    /\ fromEfcp = <<>>
    /\ table = [a \in Remote |-> NoEntry]
    /\ gate = [c \in Ceps |-> "none"]
    /\ ahead = [s \in Sources |-> IF s \in Present \union {Efcp} THEN node.traffic[s] ELSE <<>>]
    /\ sent = [x \in Ports \union Ceps |-> <<>>]
    /\ away = [w \in Whys |-> {}]
    /\ changes = 0

-----------------------------------------------------------------------------
(* Events. *)

(* RMTPort::handleMessage and RMTQueue::handleMessage, a PDU from south;   *)
(* the medium may damage it. There may be no queue for it.                 *)
ReceiveFromSouth(p) ==
    /\ ahead[p] # <<>>
    /\ LET u == Head(ahead[p])
       IN  IF u.qos \in QoS
           THEN /\ \E error \in (IF node.onWire THEN BOOLEAN ELSE {FALSE}) :
                      dir' = [dir EXCEPT ![p]["in"] = EnqueuePDU(@, Unmarked(u), error)]
                /\ UNCHANGED away
           ELSE Away(u, "noQueue") /\ UNCHANGED dir
    /\ ahead' = [ahead EXCEPT ![p] = Tail(@)]
    /\ UNCHANGED <<node, busy, open, onLine, fromEfcp, table, gate, sent, changes>>

(* An EFCP instance sends. *)
ReceiveFromEfcp ==
    /\ ahead[Efcp] # <<>>
    /\ fromEfcp' = Append(fromEfcp, Unmarked(Head(ahead[Efcp])))
    /\ ahead' = [ahead EXCEPT ![Efcp] = Tail(@)]
    /\ UNCHANGED <<node, dir, busy, open, onLine, table, gate, sent, away, changes>>

(* RMT::handleMessage, a PDU from an input queue. *)
RelayFromPort(p) ==
    /\ dir[p]["in"].link # <<>>
    /\ ProcessMessage(Head(dir[p]["in"].link), TRUE)
    /\ dir' = [dir EXCEPT ![p]["in"].link = Tail(@)]
    /\ UNCHANGED <<node, busy, open, fromEfcp, table, ahead, changes>>

(* RMT::handleMessage, a PDU from an EFCP instance. *)
RelayFromEfcp ==
    /\ fromEfcp # <<>>
    /\ ProcessMessage(Head(fromEfcp), FALSE)
    /\ fromEfcp' = Tail(fromEfcp)
    /\ UNCHANGED <<node, dir, busy, open, table, ahead, changes>>

(* RMTQueue::handleMessage, a PDU from the RMT. *)
EnqueueOutput(p) ==
    /\ onLine[p] # <<>>
    /\ dir' = [dir EXCEPT ![p]["out"] = EnqueuePDU(@, Head(onLine[p]), FALSE)]
    /\ onLine' = [onLine EXCEPT ![p] = Tail(@)]
    /\ UNCHANGED <<node, busy, open, fromEfcp, table, gate, ahead, sent, away, changes>>

(* RMTPort::handleMessage, a PDU from an output queue. A transmission on   *)
(* the medium takes time or none; without a channel it takes none.         *)
SendSouth(p) ==
    LET d == dir[p]["out"]
        gone == [d EXCEPT !.link = Tail(@), !.ready = FALSE]
    IN  /\ d.link # <<>>
        /\ sent' = [sent EXCEPT ![p] = Append(@, Head(d.link).pdu)]
        /\ \/ /\ node.onWire
              /\ busy' = [busy EXCEPT ![p] = @ + 1]
              /\ dir' = [dir EXCEPT ![p]["out"] = gone]
           \/ /\ dir' = [dir EXCEPT ![p]["out"] = ProcessQueues([gone EXCEPT !.wakeups = @ + 1])]
              /\ UNCHANGED busy
        /\ UNCHANGED <<node, open, onLine, fromEfcp, table, gate, ahead, away, changes>>

(* RMTPort::handleMessage, portTransmitEnd. *)
TransmitEnd(p) ==
    /\ busy[p] > 0
    /\ busy' = [busy EXCEPT ![p] = @ - 1]
    /\ dir' = [dir EXCEPT ![p]["out"].wakeups = @ + 1]
    /\ UNCHANGED <<node, open, onLine, fromEfcp, table, gate, ahead, sent, away, changes>>

(* RMTPort::handleMessage, readyToServe and readyForRead. *)
Wakeup(p, t) ==
    LET woken(d) == [d EXCEPT !.wakeups = @ - 1]
    IN  /\ dir[p][t].wakeups > 0
        /\ dir' = [dir EXCEPT ![p][t] = SetReady(woken(@))]
        /\ UNCHANGED <<node, busy, open, onLine, fromEfcp, table, gate, ahead, sent, away, changes>>

(* RA::postNM1FlowAllocation, RA::createNM1FlowWithoutAllocate. *)
OpenPort(p) ==
    /\ p \in Present /\ ~open[p]
    /\ open' = [open EXCEPT ![p] = TRUE]
    /\ dir' = [dir EXCEPT ![p] = [t \in Types |-> SetReady(@[t])]]
    /\ UNCHANGED <<node, busy, onLine, fromEfcp, table, gate, ahead, sent, away, changes>>

OneChange == changes < MaxChanges /\ changes' = changes + 1

(* LisEFCPStopSending: the queue of the (N-1)-flow is full. *)
BlockOutput(p) ==
    /\ ~node.onWire /\ open[p] /\ ~dir[p]["out"].blocked
    /\ OneChange
    /\ dir' = [dir EXCEPT ![p]["out"] = [@ EXCEPT !.blocked = TRUE, !.ready = FALSE]]
    /\ UNCHANGED <<node, busy, open, onLine, fromEfcp, table, gate, ahead, sent, away>>

(* Variant: the port waits for its next event. *)
UnblockOutputOnly(p) ==
    /\ dir[p]["out"].blocked
    /\ dir' = [dir EXCEPT ![p]["out"].blocked = FALSE]
    /\ UNCHANGED <<node, busy, open, onLine, fromEfcp, table, gate, ahead, sent, away, changes>>

(* LisEFCPStartSending. *)
UnblockOutput(p) ==
    /\ dir[p]["out"].blocked
    /\ dir' = [dir EXCEPT ![p]["out"] = SetReady([@ EXCEPT !.blocked = FALSE])]
    /\ UNCHANGED <<node, busy, open, onLine, fromEfcp, table, gate, ahead, sent, away, changes>>

(* SimpleTable::insert and SimpleTable::remove, called by the PDUFG policy *)
(* when flows or routes change; "none" removes.                            *)
ChangeRoute(a, q, p) ==
    /\ ~node.onWire /\ table[a][q] # p
    /\ OneChange
    /\ table' = [table EXCEPT ![a][q] = p]
    /\ UNCHANGED <<node, dir, busy, open, onLine, fromEfcp, gate, ahead, sent, away>>

(* RMT::createEfcpiGate, which takes a NULL entry for a gate it made. *)
CreateEfcpiGate(c) ==
    /\ gate[c] # "made"
    /\ OneChange
    /\ gate' = [gate EXCEPT ![c] = IF @ = "none" THEN "made" ELSE @]
    /\ UNCHANGED <<node, dir, busy, open, onLine, fromEfcp, table, ahead, sent, away>>

(* RMT::deleteEfcpiGate. *)
DeleteEfcpiGate(c) ==
    /\ gate[c] = "made"
    /\ gate' = [gate EXCEPT ![c] = "none"]
    /\ UNCHANGED <<node, dir, busy, open, onLine, fromEfcp, table, ahead, sent, away, changes>>

Event ==
    \/ \E p \in Ports :
          \/ ReceiveFromSouth(p) \/ RelayFromPort(p) \/ EnqueueOutput(p)
          \/ SendSouth(p) \/ TransmitEnd(p)
          \/ \E t \in Types : Wakeup(p, t)
    \/ ReceiveFromEfcp \/ RelayFromEfcp

Next ==
    \/ Event
    \/ \E p \in Ports : OpenPort(p) \/ BlockOutput(p) \/ UnblockOutput(p)
    \/ \E r \in Routes : ChangeRoute(r[1], r[2], r[3])
    \/ \E c \in Ceps : CreateEfcpiGate(c) \/ DeleteEfcpiGate(c)

Spec == Init /\ [][Next]_vars

(* The simulator executes every scheduled event. Whether an (N-1)-flow is   *)
(* established, blocked or unblocked is up to the DIF below.               *)
FairSpec == Spec /\ WF_vars(Event)

-----------------------------------------------------------------------------
(* Properties. *)

AllTraffic == UNION {Range(node.traffic[s]) : s \in Present \union {Efcp}}

(* What waits in a queue, or is on its way to one, has that queue's QoS. *)
TypeOK ==
    /\ node \in Nodes
    /\ dir \in [Ports -> [Types -> Direction]]
    /\ \A p \in Ports, t \in Types :
          /\ dir[p][t].type = t
          /\ \A q \in QoS : \A i \in DOMAIN dir[p][t].queue[q] : dir[p][t].queue[q][i].pdu.qos = q
    /\ busy \in [Ports -> Nat]
    /\ open \in [Ports -> BOOLEAN]
    /\ onLine \in [Ports -> Seq({e \in FlaggedPDU : e.pdu.qos \in QoS})]
    /\ fromEfcp \in Seq(FlaggedPDU)
    /\ table \in [Remote -> Entry]
    /\ gate \in [Ceps -> {"none", "null", "made"}]
    /\ ahead \in [Sources -> Seq(PDU)]
    /\ sent \in [Ports \union Ceps -> Seq(PDU)]
    /\ away \in [Whys -> SUBSET PDU]
    /\ changes \in Nat

(* RMTPort::getWaiting, by which the scheduler is stopped, is the number   *)
(* of PDUs queued: getLongestQueue would return NULL if it were more, and  *)
(* PDUs would stay for good if it were less.                               *)
Queued(d) == UNION {{q} \X DOMAIN d.queue[q] : q \in QoS}
WaitingAreQueued ==
    \A p \in Ports, t \in Types : dir[p][t].waiting = Cardinality(Queued(dir[p][t]))

(* A port that is ready has nothing to serve: the arrival of a PDU and the *)
(* port's getting ready, in whatever order, start its transfer at once.    *)
ReadyHasNoneWaiting ==
    \A p \in Ports, t \in Types : dir[p][t].ready => dir[p][t].waiting = 0

(* On the medium at most one PDU is past its output queue and not fully    *)
(* sent, so RMTPort never sends while its channel transmits.               *)
OneTransmission ==
    node.onWire => \A p \in Ports :
       LET d == dir[p]["out"]
       IN  Len(d.link) + busy[p] + d.wakeups + (IF d.ready THEN 1 ELSE 0) <= 1

(* An open port that is not ready and not blocked gets ready again: an     *)
(* event that leads to it is scheduled.                                    *)
BusyWakesUp ==
    \A p \in Ports : open[p] =>
       /\ dir[p]["in"].ready \/ dir[p]["in"].wakeups > 0
       /\ LET d == dir[p]["out"]
          IN  d.ready \/ d.blocked \/ d.link # <<>> \/ busy[p] > 0 \/ d.wakeups > 0

(* A queue that has reached a limit did what its policy promises: those    *)
(* that drop keep it below maxQLength (or the threshold, where it is       *)
(* higher), ECNMarker has marked what came in above the threshold, and     *)
(* UpstreamNotifier has asked the sender of the last PDU to slow down.     *)
CongestionIsActedOn ==
    \A p \in Ports, t \in Types, q \in QoS :
       LET d == dir[p][t]
           length == Len(d.queue[q])
       IN  /\ node.maxQ \in {"TailDrop", "ECNMarker"} =>
                 length < Max({MaxQLength, ThreshQLength, 1})
           /\ node.maxQ = "ECNMarker" /\ length >= Max({ThreshQLength, 1}) =>
                 Last(d.queue[q]).ecn
           /\ node.maxQ = "UpstreamNotifier" /\ t = "out" /\ length >= Max({MaxQLength, ThreshQLength}) =>
                 Last(d.queue[q]).pdu \in d.slowed

(* Every PDU is in one place: at its source, on its way between two        *)
(* modules, in one queue, sent, passed to an EFCP instance, dropped, or    *)
(* left somewhere in the RMT; and it is there once.                        *)
PdusOf(s) == [i \in DOMAIN s |-> s[i].pdu]
Places ==
    ({"ahead"} \X Sources) \union ({"queue"} \X Ports \X Types \X QoS)
    \union ({"link"} \X Ports \X Types) \union ({"onLine"} \X Ports)
    \union {<<"fromEfcp">>} \union ({"sent"} \X (Ports \union Ceps))
At(k) ==
    CASE k[1] = "ahead"    -> ahead[k[2]]
      [] k[1] = "queue"    -> PdusOf(dir[k[2]][k[3]].queue[k[4]])
      [] k[1] = "link"     -> PdusOf(dir[k[2]][k[3]].link)
      [] k[1] = "onLine"   -> PdusOf(onLine[k[2]])
      [] k[1] = "fromEfcp" -> PdusOf(fromEfcp)
      [] k[1] = "sent"     -> sent[k[2]]
LeftBehind == UNION {away[w] : w \in Whys}
Dropped == UNION {dir[p][t].dropped : p \in Ports, t \in Types}
EachInOnePlace ==
    /\ \A k \in Places : \A i \in DOMAIN At(k) :
          /\ \A l \in Places : \A j \in DOMAIN At(l) : At(k)[i] = At(l)[j] => k = l /\ i = j
          /\ At(k)[i] \notin LeftBehind \union Dropped
    /\ LeftBehind \intersect Dropped = {}
    /\ LeftBehind \union Dropped \union UNION {Range(At(k)) : k \in Places} = AllTraffic

(* The RMT's books agree: the counters with the queues, the queues with    *)
(* the ports' readiness, and no PDU is forgotten or in two places.         *)
QueuesAccount == TypeOK /\ WaitingAreQueued /\ ReadyHasNoneWaiting /\ EachInOnePlace

(* PDUs of one source and one QoS are sent by a port, or passed to an EFCP *)
(* instance, in the order in which they came, whatever route changes,      *)
(* blocked ports and drops happen on the way.                              *)
InFlowOrder ==
    \A x \in Ports \union Ceps : \A i, j \in DOMAIN sent[x] :
       LET u == sent[x][i]
           v == sent[x][j]
       IN  i < j /\ u.src = v.src /\ u.qos = v.qos => u.id < v.id

(* Every open port ends up with empty queues, unless its output stays      *)
(* blocked.                                                                *)
QueuesEmpty ==
    \A p \in Ports : <>[](open[p] =>
       /\ dir[p]["in"].waiting = 0
       /\ dir[p]["out"].blocked \/ dir[p]["out"].waiting = 0)

=============================================================================
