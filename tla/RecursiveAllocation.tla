------------------------- MODULE RecursiveAllocation --------------------------
(***************************************************************************)
(* Flows of a DIF whose IPC processes reach one another over flows of the  *)
(* DIF below, the (N-1)-flows. Before a process sends an M_CREATE on, its  *)
(* resource allocator (RA) binds the flow to an (N-1)-flow to the next     *)
(* neighbour, and has one allocated if there is none: the process waits,   *)
(* at the caller (FAI) as at every relay on the way (FA), until that flow  *)
(* has come up, and other flows that want it wait as well.                 *)
(*                                                                         *)
(* A handler is an operator on an outcome [st, out]: the record of its     *)
(* process and what the process has sent to each neighbour so far. The     *)
(* DIF below is seen from above: it carries requests for (N-1)-flows and   *)
(* their answers, and what RMT ports send, in order between neighbours.    *)
(* The N management flow that data flows wait for is part of               *)
(* FlowAllocation; no route here is as long as VAL_MAXHOPCOUNT.            *)
(***************************************************************************)
EXTENDS Naturals, SequencesExt, FiniteSetsExt

CONSTANTS
    Nodes,          \* the IPC processes of the DIF
    NextHop,        \* NextHop[n][d]: the neighbour of n on the way to d
    Flows,          \* flows that applications may ask for
    Caller, Callee, \* the ends of each
    QoS,            \* QoS[f]: the cube of f, which goes by one name in both DIFs
    Configurations  \* what is preallocated, refused, and which port is used

Cubes == Range(QoS) \union {"mgmt"}

ASSUME AllocationAssumption ==
    /\ IsFiniteSet(Nodes) /\ IsFiniteSet(Flows)
    /\ NextHop \in [Nodes -> [Nodes -> Nodes]]
    /\ {Caller, Callee} \subseteq [Flows -> Nodes]
    /\ \A f \in Flows : Caller[f] # Callee[f]
    /\ DOMAIN QoS = Flows
    /\ \A c \in Configurations :
          /\ c.preallocated \subseteq Nodes \X Nodes \X Cubes /\ IsFiniteSet(c.preallocated)
          /\ c.port \in {"first", "last"}

VARIABLES
    config,  \* the configuration of this behaviour
    proc,    \* proc[n]: the allocators of n
    wire     \* wire[n][m]: what is under way from n to m, oldest first

vars == <<config, proc, wire>>

Message ==
    [kind : {"nm1create", "nm1created", "nm1refused"}, qos : Cubes]
    \union [kind : {"M_CREATE", "M_CREATE_R"}, flow : Flows, to : Nodes]

(* NM1FlowTableItem, with the output queue of its RMT port. *)
Item ==
    [to : Nodes, qos : Cubes,
     own : BOOLEAN,          \* asked for by this end
     established : BOOLEAN,  \* CON_ESTABLISHED
     ready : BOOLEAN,        \* the port is ready for output
     queue : Seq(Message)]

Allocators ==
    [table : Seq(Item),                                          \* NM1FlowTable
     status : [Flows -> {"none", "ALLOC_PEND", "TRANSFER"}],     \* flows that end here
     entered : [Flows -> Nat],                                   \* times it was entered
     forwards : Seq([flow : Flows, to : Nodes, status : {"FORWARDING", "FORWARDED"}]),
     refused : SUBSET Flows]                      \* AllocateResponseNegative signalled

-----------------------------------------------------------------------------
(* The resource allocator: (N-1)-flows and what is sent over them. *)

Post(o, m, msg) == [o EXCEPT !.out[m] = Append(@, msg)]

(* Variant: any (N-1)-flow to the neighbour will do. *)
FindFlowByDst(table, m, q) ==
    SelectInSeq(table, LAMBDA i : i.to = m)

(* NM1FlowTable::findFlowByDstApni: the first item that fits, or 0. *)
FindFlowByDstApni(table, m, q) ==
    SelectInSeq(table, LAMBDA i : i.to = m /\ i.qos = q)

(* The port forwarding leads to; policies differ when there are several. *)
PortTo(table, m) ==
    LET toM(i) == i.to = m
    IN  IF config.port = "first" THEN SelectInSeq(table, toM) ELSE SelectLastInSeq(table, toM)

(* A PDU waits in the queue of its port until the port is ready. *)
SendPDU(o, m, msg) ==
    LET p == PortTo(o.st.table, m)
    IN  IF p = 0 THEN o
        ELSE IF o.st.table[p].ready THEN Post(o, m, msg)
        ELSE [o EXCEPT !.st.table[p].queue = Append(@, msg)]

SetOutputReady(o, p) ==
    LET i == o.st.table[p]
    IN  [o EXCEPT !.st.table[p] = [i EXCEPT !.ready = TRUE, !.queue = <<>>],
                  !.out[i.to] = @ \o i.queue]

NewItem(m, q, own) ==
    [to |-> m, qos |-> q, own |-> own, established |-> FALSE, ready |-> FALSE, queue |-> <<>>]

CreateNM1Flow(o, m, q) ==
    Post([o EXCEPT !.st.table = Append(@, NewItem(m, q, TRUE))],
         m, [kind |-> "nm1create", qos |-> q])

(* RA::bindNFlowToNM1Flow: what it does, and what it returns. *)
BindNFlowToNM1Flow(o, m, q) ==
    IF FindFlowByDstApni(o.st.table, m, q) = 0 THEN CreateNM1Flow(o, m, q) ELSE o

IsBound(o, m, q) ==
    LET p == FindFlowByDstApni(o.st.table, m, q) IN p # 0 /\ o.st.table[p].established

(* RA::createNM1FlowWithoutAllocate: the port of the new item gets ready,  *)
(* the first item that fits, which may be another one, is established.     *)
CreateNM1FlowWithoutAllocate(o, m, q) ==
    LET added == Post([o EXCEPT !.st.table = Append(@, NewItem(m, q, FALSE))],
                      m, [kind |-> "nm1created", qos |-> q])
        p == FindFlowByDstApni(added.st.table, m, q)
    IN  SetOutputReady([added EXCEPT !.st.table[p].established = TRUE],
                       Len(added.st.table))

(* LisRACreResPosi and RA::postNM1FlowAllocation. *)
PostNM1FlowAllocation(o, m, q) ==
    LET p == FindFlowByDstApni(o.st.table, m, q)
    IN  IF p = 0 THEN o ELSE SetOutputReady([o EXCEPT !.st.table[p].established = TRUE], p)

-----------------------------------------------------------------------------
(* The flow allocator and its instances. *)

OtherEnd(n, f) == IF n = Caller[f] THEN Callee[f] ELSE Caller[f]

(* RIBd::sendCreateRequestFlow for the FAI of f at n: to the neighbour. *)
SignalizeCreateFlowRequest(o, n, f) ==
    LET d == OtherEnd(n, f)
    IN  SendPDU(o, NextHop[n][d], [kind |-> "M_CREATE", flow |-> f, to |-> d])

(* RIBd::sendCreateResponsePostive: to the other end, by way of neighbours.*)
SendCreateResponse(o, n, f) ==
    LET d == OtherEnd(n, f)
    IN  SendPDU(o, NextHop[n][d], [kind |-> "M_CREATE_R", flow |-> f, to |-> d])

(* FA::receiveAllocateRequest and FAI::receiveAllocateRequest. *)
ReceiveAllocateRequest(o, n, f) ==
    LET m     == NextHop[n][Callee[f]]
        bound == BindNFlowToNM1Flow([o EXCEPT !.st.status[f] = "ALLOC_PEND",
                                              !.st.entered[f] = @ + 1], m, QoS[f])
    IN  IF IsBound(o, m, QoS[f]) THEN SignalizeCreateFlowRequest(bound, n, f) ELSE bound

(* Variant: whether there is an entry is not looked at. *)
IsDuplicateNever(o, f) == FALSE

(* The M_CREATE of a flow that has an entry, found by its invoke id. *)
IsDuplicate(o, f) == o.st.status[f] # "none"

(* FA::receiveCreateFlowRequestFromRibd at the end: the AE accepts, then   *)
(* FAI::receiveAllocateResponsePositive answers, but only if the RA has an *)
(* (N-1)-flow of this cube already.                                        *)
EnterFlow(o, n, f) ==
    LET m     == NextHop[n][Caller[f]]
        bound == BindNFlowToNM1Flow([o EXCEPT !.st.status[f] = "TRANSFER",
                                              !.st.entered[f] = @ + 1], m, QoS[f])
    IN  IF IsBound(o, m, QoS[f]) THEN SendCreateResponse(bound, n, f) ELSE bound

(* FA::receiveNM1FlowCreated for the i-th entry. *)
ReceiveNM1FlowCreated(o, n, i) ==
    LET e == o.st.forwards[i]
    IN  SendPDU([o EXCEPT !.st.forwards[i].status = "FORWARDED"],
                NextHop[n][e.to], [kind |-> "M_CREATE", flow |-> e.flow, to |-> e.to])

(* FA::receiveCreateFlowRequestFromRibd on the way: no entry is sought, a  *)
(* request that comes again is entered and forwarded again.                *)
ForwardFlow(o, n, msg) ==
    LET m     == NextHop[n][msg.to]
        entry == [flow |-> msg.flow, to |-> msg.to, status |-> "FORWARDING"]
        bound == BindNFlowToNM1Flow([o EXCEPT !.st.forwards = Append(@, entry)],
                                    m, QoS[msg.flow])
    IN  IF IsBound(o, m, QoS[msg.flow])
          THEN ReceiveNM1FlowCreated(bound, n, Len(bound.st.forwards)) ELSE bound

ReceiveCreate(o, n, msg) ==
    IF msg.to # n THEN ForwardFlow(o, n, msg)
    ELSE IF IsDuplicate(o, msg.flow) THEN o
    ELSE EnterFlow(o, n, msg.flow)

(* The RMT relays a response, the FAI of its flow receives it. *)
ReceiveResponse(o, n, msg) ==
    IF msg.to # n THEN SendPDU(o, NextHop[n][msg.to], msg)
    ELSE [o EXCEPT !.st.status[msg.flow] = "TRANSFER"]

FlowsAt(o, q) == {f \in Flows : o.st.status[f] # "none" /\ QoS[f] = q}

(* LisFAICreResPosiNminusOne: any FAI of this cube, in whatever state and  *)
(* toward whatever neighbour, has its M_CREATE sent (once more).           *)
WakeFAIs(o, n, q) ==
    LET flows == SetToSeq(FlowsAt(o, q))
        woken[k \in 0 .. Len(flows)] ==
            IF k = 0 THEN o ELSE SignalizeCreateFlowRequest(woken[k - 1], n, flows[k])
    IN  woken[Len(flows)]

(* Variant: only the first entry that waits for the neighbour goes on. *)
WakeForwardsFirst(o, n, m) ==
    LET i == SelectInSeq(o.st.forwards,
                         LAMBDA e : NextHop[n][e.to] = m /\ e.status = "FORWARDING")
    IN  IF i = 0 THEN o ELSE ReceiveNM1FlowCreated(o, n, i)

(* LisFACreFloPosi: all that wait for this neighbour, of whatever cube. *)
WakeForwards(o, n, m) ==
    LET waits(i) == /\ NextHop[n][o.st.forwards[i].to] = m
                    /\ o.st.forwards[i].status = "FORWARDING"
        woken[i \in 0 .. Len(o.st.forwards)] ==
            IF i = 0 THEN o
            ELSE IF waits(i) THEN ReceiveNM1FlowCreated(woken[i - 1], n, i) ELSE woken[i - 1]
    IN  woken[Len(o.st.forwards)]

NM1FlowCreated(o, n, m, q) ==
    WakeForwards(WakeFAIs(PostNM1FlowAllocation(o, m, q), n, q), n, m)

(* LisFAICreResNegaNminusOne: every FAI of the process gives up, nobody    *)
(* tells the RA or the flows that are being forwarded.                     *)
NM1FlowRefused(o) ==
    [o EXCEPT !.st.refused = @ \union {f \in Flows : o.st.status[f] # "none"}]

(* The DIF below asks this end whether an (N-1)-flow may come up. *)
NM1FlowAsked(o, n, m, q) ==
    IF <<m, n, q>> \in config.refused
      THEN Post(o, m, [kind |-> "nm1refused", qos |-> q])
      ELSE CreateNM1FlowWithoutAllocate(o, m, q)

Handled(o, n, m, msg) ==
    CASE msg.kind = "nm1create"  -> NM1FlowAsked(o, n, m, msg.qos)
      [] msg.kind = "nm1created" -> NM1FlowCreated(o, n, m, msg.qos)
      [] msg.kind = "nm1refused" -> NM1FlowRefused(o)
      [] msg.kind = "M_CREATE"   -> ReceiveCreate(o, n, msg)
      [] msg.kind = "M_CREATE_R" -> ReceiveResponse(o, n, msg)

-----------------------------------------------------------------------------
Nothing == [n \in Nodes |-> <<>>]

InitAllocators ==
    [table |-> <<>>, status |-> [f \in Flows |-> "none"], entered |-> [f \in Flows |-> 0],
     forwards |-> <<>>, refused |-> {}]

(* RA::handleMessage at time 0: the (N-1)-flows of the preallocation, for  *)
(* data (createNM1Flow) or below a management flow (createNFlow).          *)
Preallocated(n) ==
    LET flows == SetToSeq({t \in config.preallocated : t[1] = n})
        asked[k \in 0 .. Len(flows)] ==
            IF k = 0 THEN [st |-> InitAllocators, out |-> Nothing]
            ELSE CreateNM1Flow(asked[k - 1], flows[k][2], flows[k][3])
    IN  asked[Len(flows)]

Init ==
    /\ config \in Configurations
    /\ proc = [n \in Nodes |-> Preallocated(n).st]
    /\ wire = [n \in Nodes |-> Preallocated(n).out]

Becomes(n, o, channel) ==
    /\ proc' = [proc EXCEPT ![n] = o.st]
    /\ wire' = [channel EXCEPT ![n] = [m \in Nodes |-> @[m] \o o.out[m]]]
    /\ UNCHANGED config

AllocateRequest(f) ==
    LET n == Caller[f]
    IN  /\ proc[n].status[f] = "none"
        /\ Becomes(n, ReceiveAllocateRequest([st |-> proc[n], out |-> Nothing], n, f), wire)

Arrive(m, n) ==
    /\ wire[m][n] # <<>>
    /\ Becomes(n, Handled([st |-> proc[n], out |-> Nothing], n, m, Head(wire[m][n])),
               [wire EXCEPT ![m][n] = Tail(@)])

Next ==
    \/ \E f \in Flows : AllocateRequest(f)
    \/ \E m, n \in Nodes : Arrive(m, n)

Spec == Init /\ [][Next]_vars

-----------------------------------------------------------------------------
TypeOK ==
    /\ config \in Configurations
    /\ proc \in [Nodes -> Allocators]
    /\ wire \in [Nodes -> [Nodes -> Seq(Message)]]

(* An allocator asks for an (N-1)-flow to a neighbour once per cube,       *)
(* however many flows want it at a time.                                   *)
AskedOnce ==
    \A n \in Nodes :
        LET table == proc[n].table
        IN  \A i, j \in DOMAIN table :
                (table[i].own /\ table[j].own /\ table[i].to = table[j].to
                    /\ table[i].qos = table[j].qos) => i = j

(* However often its request comes, a flow is entered once at each end.    *)
EnteredOnce == \A n \in Nodes, f \in Flows : proc[n].entered[f] <= 1

(* The allocators' tables agree with what was asked (RA, FA, FAITable).    *)
ItemsAgree == TypeOK /\ AskedOnce /\ EnteredOnce

(* Where a request for f is after each number of hops, and how many it     *)
(* takes to the callee.                                                    *)
Way ==
    [f \in Flows |->
        LET at[k \in 0 .. Cardinality(Nodes)] ==
                IF k = 0 THEN Caller[f] ELSE NextHop[at[k - 1]][Callee[f]]
        IN  at]

Length(f) == Min({k \in 0 .. Cardinality(Nodes) : Way[f][k] = Callee[f]})

HopsOf(f) == {<<Way[f][k - 1], Way[f][k]>> : k \in 1 .. Length(f)}

(* Routes lead to the callee and come back the same way: what whole paths  *)
(* are promised under. What is true of the processes one by one needs no   *)
(* such condition.                                                         *)
RoutesAgree ==
    \A f \in Flows :
        /\ \E k \in 0 .. Cardinality(Nodes) : Way[f][k] = Callee[f]
        /\ \A k \in 1 .. Length(f) : NextHop[Way[f][k]][Caller[f]] = Way[f][k - 1]

HasReadyPort(n, m, q) ==
    \E i \in Range(proc[n].table) : i.to = m /\ i.qos = q /\ i.ready

IsRefused(n, m, q) == <<n, m, q>> \in config.refused

(* Data can be sent when the caller learns that its flow is up: on every   *)
(* hop, both ways, there is an (N-1)-flow of its cube with a ready port    *)
(* (FAI::receiveCreateResponsePositive after RA::bindNFlowToNM1Flow at     *)
(* each process on the way). Only a process before the callee may be       *)
(* without: its request was refused, and the M_CREATE went on when an      *)
(* (N-1)-flow of another cube came up.                                     *)
PathIsReady ==
    \A f \in Flows :
        proc[Caller[f]].status[f] = "TRANSFER" =>
            \A h \in HopsOf(f) :
                ~IsRefused(h[1], h[2], QoS[f]) \/ h[2] = Callee[f] =>
                    /\ HasReadyPort(h[1], h[2], QoS[f])
                    /\ HasReadyPort(h[2], h[1], QoS[f])

(* The port of an (N-1)-flow that was refused stays and never gets ready:  *)
(* forwarding may lead there for good.                                     *)
MayBeStuck(n, m) == \E t \in config.refused : {t[1], t[2]} = {n, m}

Quiet == \A m, n \in Nodes : wire[m][n] = <<>>

(* What is left when nothing is under way any more: every (N-1)-flow that  *)
(* was not refused has a ready port, and where none may be stuck, every    *)
(* flow asked for is up at both ends, no port holds PDUs back and nobody   *)
(* waits to forward a request, whichever flows waited for the same         *)
(* (N-1)-flow (LisRACreResPosi, LisFAICreResPosiNminusOne, LisFACreFloPosi *)
(* all react to the one signal that it is there).                          *)
NothingIsStranded ==
    Quiet =>
        /\ \A f \in Flows :
              (proc[Caller[f]].status[f] # "none"
                  /\ \A h \in HopsOf(f) : ~MayBeStuck(h[1], h[2]))
              => \A n \in {Caller[f], Callee[f]} : proc[n].status[f] = "TRANSFER"
        /\ \A n \in Nodes :
              /\ \A i \in Range(proc[n].table) :
                    /\ i.ready \/ IsRefused(n, i.to, i.qos)
                    /\ i.queue = <<>> \/ MayBeStuck(n, i.to)
              /\ \A e \in Range(proc[n].forwards) :
                    e.status = "FORWARDED" \/ IsRefused(n, NextHop[n][e.to], QoS[e.flow])
=============================================================================
