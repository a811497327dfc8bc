--------------------------- MODULE FlowAllocation ----------------------------
(***************************************************************************)
(* The flow allocators (FA) of two IPC processes of one DIF and the flow   *)
(* allocator instances (FAI) they keep for each flow, from the request of  *)
(* an application to the end of the flow; and the application entities     *)
(* (AE) over them, which the IPC resource manager (IRM) connects to the    *)
(* IPC process. The two are neighbours in a DIF right on the medium, so    *)
(* RA::bindNFlowToNM1Flow succeeds at once.                                *)
(*                                                                         *)
(* An allocator is one record. Each call a handler makes is an operator on *)
(* an outcome [st, out], the record and the CDAP messages sent so far, so  *)
(* that a handler reads like its code. A message carries a flow and, as in *)
(* the code, not a copy of it but a pointer: what the sender learns of the *)
(* flow while the message is under way is read from it at its arrival.     *)
(***************************************************************************)
EXTENDS Integers, SequencesExt

CONSTANTS
    A, B,              \* the two IPC processes
    DataOfA, DataOfB,  \* data flows that applications at A and at B ask for
    MgmtOfA, MgmtOfB,  \* the management flow each allocates when it needs one
    Infeasible,        \* flows the NewFlowRequest policy finds no QoS cube for
    Rejected,          \* flows refused by the policy or the AE at the other end
    MaxRetries,        \* Flow::maxCreateFlowRetries
    MaxLoss            \* bound: messages lost

ASSUME FlowAssumption ==
    /\ A # B
    /\ MgmtOfA # MgmtOfB
    /\ {MgmtOfA, MgmtOfB} \intersect (DataOfA \union DataOfB) = {}
    /\ DataOfA \intersect DataOfB = {}
    /\ Infeasible \union Rejected \subseteq DataOfA \union DataOfB
    /\ MaxRetries \in Nat /\ MaxLoss \in Nat

VARIABLES
    fa,           \* fa[p]: the allocator of p
    net,          \* net[p]: messages under way to p, oldest first
    lost          \* how many messages were lost

vars == <<fa, net, lost>>

Ipcps == {A, B}
Peer(p) == IF p = A THEN B ELSE A

DataOf(p) == IF p = A THEN DataOfA ELSE DataOfB
MgmtOf(p) == IF p = A THEN MgmtOfA ELSE MgmtOfB

Data == DataOfA \union DataOfB
Mgmt == {MgmtOfA, MgmtOfB}
Flow == Data \union Mgmt

Caller(f) == IF f \in DataOfA \union {MgmtOfA} THEN A ELSE B
Callee(f) == Peer(Caller(f))

(* FAITableEntry::EAllocateStatus, as far as these flows go; "none" is a   *)
(* flow without an entry in the table.                                     *)
Status == {"none", "ALLOC_PEND", "ALLOC_NEGA", "TRANSFER", "DEALLOC_PEND", "DEALLOCATED"}

MessageTypes == {"M_CREATE", "M_CREATE_R+", "M_CREATE_R-", "M_DELETE", "M_DELETE_R"}
Message == [type : MessageTypes, flow : Flow]

(* An AE with its entry in the ConnectionTable of the IRM. *)
Entity ==
    [con : {"NIL", "FLOW_PENDING", "CONNECTION_PENDING"},
     entry : {"none", "CON_FLOWPENDING", "CON_CONNECTPENDING", "CON_ERROR"},
     north : BOOLEAN,    \* gates between AE and IRM connected
     south : BOOLEAN]    \* gates between IRM and IPC process connected

Allocator ==
    [table : Seq(Flow),              \* FAITable, in order of insertion
     status : [Flow -> Status],
     efcpTable : SUBSET Flow,        \* flows with an entry in EFCPTable
     efcpis : [Flow -> Nat],         \* EFCP instances in the entry
     made : [Flow -> Nat],           \* bindings made for the flow
     deleted : [Flow -> Nat],        \* and deleted
     knowsPeer : [Flow -> BOOLEAN],  \* the FAI has the remote port and CEP ids
     retries : [Flow -> Nat],        \* Flow::createFlowRetries
     pendingFlows : Seq(Flow),       \* FA::PendingFlows
     wakeups : Nat,                  \* TIM_FAPENDFLOWS scheduled
     ae : [Data -> Entity]]          \* the applications' ends of data flows

InitFA ==
    [table |-> <<>>,
     status |-> [f \in Flow |-> "none"],
     efcpTable |-> {},
     efcpis |-> [f \in Flow |-> 0],
     made |-> [f \in Flow |-> 0],
     deleted |-> [f \in Flow |-> 0],
     knowsPeer |-> [f \in Flow |-> FALSE],
     retries |-> [f \in Flow |-> 0],
     pendingFlows |-> <<>>,
     wakeups |-> 0,
     ae |-> [f \in Data |->
                [con |-> "NIL", entry |-> "none", north |-> FALSE, south |-> FALSE]]]

-----------------------------------------------------------------------------
(* The steps handlers are made of. *)

Outcome(st, out) == [st |-> st, out |-> out]

SetStatus(o, f, s) == [o EXCEPT !.st.status[f] = s]

Send(o, type, f) == [o EXCEPT !.out = Append(@, [type |-> type, flow |-> f])]

(* AE::createBindings and AE::deleteBindings, then those of the IRM. *)
CreateNorthBindings(e) == [e EXCEPT !.north = TRUE]
DeleteNorthBindings(e) == [e EXCEPT !.north = FALSE]
CreateSouthBindings(e) == [e EXCEPT !.south = TRUE]
DeleteSouthBindings(e) == [e EXCEPT !.south = FALSE]

(* AE::insertFlow, which has the IRM insert an entry in the table. *)
InsertFlow(e) == CreateNorthBindings([e EXCEPT !.entry = "CON_FLOWPENDING"])

(* AE::receiveAllocationResponsePositive. *)
AllocationPositive(e) ==
    [CreateSouthBindings(e) EXCEPT
        !.entry = "CON_CONNECTPENDING", !.con = "CONNECTION_PENDING"]

(* AE::receiveAllocationRequestFromFAI when it accepts. *)
AllocationAccepted(e) == AllocationPositive(InsertFlow(e))

(* AE::receiveAllocationResponseNegative. *)
AllocationNegative(e) ==
    DeleteNorthBindings([e EXCEPT !.entry = "CON_ERROR", !.con = "NIL"])

(* AE::receiveDeallocationRequestFromFAI. *)
Deallocation(e) == DeleteSouthBindings(DeleteNorthBindings(e))

(* What a signal of the FAI makes of an AE; RIBd has the management flows. *)
Notified(e, signal) ==
    CASE signal = "AllocateRequest"  -> AllocationAccepted(e)
      [] signal = "AllocateResPosi"  -> AllocationPositive(e)
      [] signal = "AllocateResNega"  -> AllocationNegative(e)
      [] signal = "DeallocateReqRes" -> Deallocation(e)

Notify(o, f, signal) ==
    IF f \in Mgmt THEN o ELSE [o EXCEPT !.st.ae[f] = Notified(@, signal)]

(* FAITable::insertNew, the status, and FA::createFAI. *)
Insert(o, f) ==
    SetStatus([o EXCEPT !.st.table = Append(@, f)], f, "ALLOC_PEND")

(* EFCP::createEFCPI: an entry of the flow is used again if there is one.  *)
CreateEFCPI(o, f) ==
    [o EXCEPT !.st.efcpTable = @ \union {f}, !.st.efcpis[f] = @ + 1]

(* EFCP::deleteEFCPI empties the entry and leaves it in the table. *)
DeleteEFCPI(o, f) ==
    IF f \in o.st.efcpTable THEN [o EXCEPT !.st.efcpis[f] = 0] ELSE o

(* FAI::createBindings, after FAI::createEFCPI. *)
Bind(o, f) == [CreateEFCPI(o, f) EXCEPT !.st.made[f] = @ + 1]

(* FAI::deleteBindings. *)
Unbind(o, f) == [DeleteEFCPI(o, f) EXCEPT !.st.deleted[f] = @ + 1]

(* FAITable::findMgmtEntryByDstAddr gives the first entry only, if any. *)
MgmtEntry(st) ==
    {st.table[i] : i \in {j \in DOMAIN st.table :
        st.table[j] \in Mgmt /\ \A k \in 1..(j - 1) : st.table[k] \notin Mgmt}}

(* Variant: an entry is enough. *)
MgmtReadyAny(st) == MgmtEntry(st) # {}

MgmtReady(st) == \E m \in MgmtEntry(st) : st.status[m] = "TRANSFER"

(* FAI::receiveAllocateRequest. *)
Start(o, f) ==
    IF o.st.status[f] # "ALLOC_PEND" THEN o
    ELSE IF f \in Infeasible THEN Notify(SetStatus(o, f, "ALLOC_NEGA"), f, "AllocateResNega")
    ELSE Send(Bind(o, f), "M_CREATE", f)

(* FA::receiveLocalMgmtAllocateRequest, for the first flow to a neighbour. *)
EnsureMgmt(o, m) ==
    IF MgmtEntry(o.st) = {} THEN Start(Insert(o, m), m) ELSE o

(* FA::receiveAllocateRequest: postponed unless management is ready. *)
ReceiveAllocateRequest(o, p, f) ==
    LET ready == EnsureMgmt(Insert(o, f), MgmtOf(p))
    IN  IF MgmtReady(ready.st) THEN Start(ready, f) ELSE ready

(* FA::handleMessage on TIM_FAPENDFLOWS: the flows are started in turn. *)
WakePendingFlows(o) ==
    LET pending == o.st.pendingFlows
        woken[i \in 0..Len(pending)] ==
            IF i = 0 THEN [o EXCEPT !.st.pendingFlows = <<>>, !.st.wakeups = @ - 1]
            ELSE Start(woken[i - 1], pending[i])
    IN  woken[Len(pending)]

(* FA::receiveCreateFlowRequestFromRibd and all it leads to within the     *)
(* same event: FAI::receiveCreateRequest, the answer of the AE or RIBd,    *)
(* FAI::receiveAllocateResponsePositive or Negative. A flow that has an    *)
(* entry already is known by its invoke id, and ignored.                   *)
ReceiveCreate(o, f) ==
    IF o.st.status[f] # "none" THEN o
    ELSE IF f \in Rejected
      THEN Send(SetStatus(Insert(o, f), f, "ALLOC_NEGA"), "M_CREATE_R-", f)
      ELSE Send(SetStatus(Bind(Notify(Insert(o, f), f, "AllocateRequest"), f), f, "TRANSFER"),
                "M_CREATE_R+", f)

(* The entries FAITable::findEntriesAffectedByMgmt finds join the pending. *)
PendingAfterMgmt(st) ==
    LET after[i \in 0..Len(st.table)] ==
            IF i = 0 THEN st.pendingFlows
            ELSE IF st.status[st.table[i]] = "ALLOC_PEND" THEN Append(after[i - 1], st.table[i])
            ELSE after[i - 1]
    IN  after[Len(st.table)]

(* Variant: the timer is not scheduled. *)
AllocFinMgmtUntimed(o) == [o EXCEPT !.st.pendingFlows = PendingAfterMgmt(o.st)]

(* FAI::signalizeAllocateRequestToOtherFais and LisFAAllocFinMgmt. *)
AllocFinMgmt(o) ==
    [o EXCEPT !.st.pendingFlows = PendingAfterMgmt(o.st), !.st.wakeups = @ + 1]

(* FAI::receiveCreateResponsePositive looks at no status. *)
ReceiveCreateResponsePositive(o, f) ==
    LET learnt == SetStatus([o EXCEPT !.st.knowsPeer[f] = TRUE], f, "TRANSFER")
    IN  IF f \in Mgmt THEN AllocFinMgmt(learnt) ELSE Notify(learnt, f, "AllocateResPosi")

(* FAI::receiveCreateResponseNegative with the LimitedRetries policy. *)
ReceiveCreateResponseNegative(o, f) ==
    LET again == [o EXCEPT !.st.retries[f] = @ + 1]
    IN  IF again.st.retries[f] <= MaxRetries
          THEN Send(again, "M_CREATE", f)
          ELSE Notify(SetStatus(again, f, "ALLOC_NEGA"), f, "AllocateResNega")

(* FA::receiveDeallocateRequest and FAI::receiveDeallocateRequest. *)
ReceiveDeallocateRequest(o, f) ==
    Send(Unbind(SetStatus(o, f, "DEALLOC_PEND"), f), "M_DELETE", f)

(* Variant: a request met in another state is answered. *)
ReceiveDeleteAnswering(o, f) ==
    IF o.st.status[f] # "TRANSFER" THEN Send(o, "M_DELETE_R", f)
    ELSE SetStatus(Send(Unbind(Notify(o, f, "DeallocateReqRes"), f), "M_DELETE_R", f), f, "DEALLOCATED")

(* FAI::receiveDeleteRequest. *)
ReceiveDelete(o, f) ==
    IF o.st.status[f] # "TRANSFER" THEN o
    ELSE SetStatus(Send(Unbind(Notify(o, f, "DeallocateReqRes"), f), "M_DELETE_R", f), f, "DEALLOCATED")

(* Variant: the state of the other handler is expected. *)
ReceiveDeleteResponseInTransfer(o, f) ==
    IF o.st.status[f] # "TRANSFER" THEN o
    ELSE Notify(SetStatus(o, f, "DEALLOCATED"), f, "DeallocateReqRes")

(* FAI::receiveDeleteResponse. *)
ReceiveDeleteResponse(o, f) ==
    IF o.st.status[f] # "DEALLOC_PEND" THEN o
    ELSE Notify(SetStatus(o, f, "DEALLOCATED"), f, "DeallocateReqRes")

-----------------------------------------------------------------------------
Init ==
    /\ fa = [p \in Ipcps |-> InitFA]
    /\ net = [p \in Ipcps |-> <<>>]
    /\ lost = 0

(* p becomes what the outcome says; channel is net without what p consumed. *)
Step(p, o, channel) ==
    /\ fa' = [fa EXCEPT ![p] = o.st]
    /\ net' = [channel EXCEPT ![Peer(p)] = @ \o o.out]
    /\ UNCHANGED lost

Idle(p) == Outcome(fa[p], <<>>)

(* AE::sendAllocationRequest: the AE waits from the return of the call on, *)
(* whatever it was told within the call.                                   *)
SendAllocationRequest(o, p, f) ==
    [ReceiveAllocateRequest(o, p, f) EXCEPT !.st.ae[f].con = "FLOW_PENDING"]

(* An application starts: AEPing::onStart and the like, once per flow. *)
AllocateRequest(p, f) ==
    /\ fa[p].status[f] = "none"
    /\ Step(p, SendAllocationRequest([Idle(p) EXCEPT !.st.ae[f] = InsertFlow(@)], p, f), net)

WakePending(p) ==
    /\ fa[p].wakeups > 0
    /\ Step(p, WakePendingFlows(Idle(p)), net)

(* The application at either end of a flow stops, once it has the flow. *)
DeallocateRequest(p, f) ==
    /\ fa[p].status[f] = "TRANSFER"
    /\ Step(p, ReceiveDeallocateRequest(Idle(p), f), net)

(* M_DELETE and its response find their FAI by Flow::compare, that is only *)
(* when the caller's flow has both port and CEP ids by now.                *)
Identified(p, f) == fa[p].status[f] # "none" /\ fa[Caller(f)].knowsPeer[f]

(* RIBd::processMCreate, processMCreateR, processMDelete, processMDeleteR. *)
Handled(p, m) ==
    CASE m.type = "M_CREATE"    -> ReceiveCreate(Idle(p), m.flow)
      [] m.type = "M_CREATE_R+" -> ReceiveCreateResponsePositive(Idle(p), m.flow)
      [] m.type = "M_CREATE_R-" -> ReceiveCreateResponseNegative(Idle(p), m.flow)
      [] m.type = "M_DELETE" /\ Identified(p, m.flow)   -> ReceiveDelete(Idle(p), m.flow)
      [] m.type = "M_DELETE_R" /\ Identified(p, m.flow) -> ReceiveDeleteResponse(Idle(p), m.flow)
      [] OTHER -> Idle(p)

Arrive(p) ==
    /\ net[p] # <<>>
    /\ Step(p, Handled(p, Head(net[p])), [net EXCEPT ![p] = Tail(@)])

Lose(p, i) ==
    /\ lost < MaxLoss
    /\ lost' = lost + 1
    /\ net' = [net EXCEPT ![p] = RemoveAt(@, i)]
    /\ UNCHANGED fa

Next ==
    \/ \E p \in Ipcps : \E f \in DataOf(p) : AllocateRequest(p, f)
    \/ \E p \in Ipcps : WakePending(p)
    \/ \E p \in Ipcps : \E f \in Data : DeallocateRequest(p, f)
    \/ \E p \in Ipcps : Arrive(p)
    \/ \E p \in Ipcps : \E i \in 1..Len(net[p]) : Lose(p, i)

Spec == Init /\ [][Next]_vars

(* Messages that are not lost arrive, and a self-message is delivered.     *)
Fairness == \A p \in Ipcps : WF_vars(Arrive(p)) /\ WF_vars(WakePending(p))

FairSpec == Spec /\ Fairness

-----------------------------------------------------------------------------
(* Properties. *)

(* Every record keeps its shape; a flow has an entry in the table exactly  *)
(* when it has a status.                                                   *)
TypeOK ==
    /\ \A p \in Ipcps :
        /\ fa[p] \in Allocator
        /\ IsInjective(fa[p].table)
        /\ ToSet(fa[p].table) = {f \in Flow : fa[p].status[f] # "none"}
        /\ net[p] \in Seq(Message)
    /\ lost \in 0..MaxLoss

(* An EFCP instance and its bindings are made once and deleted once for a  *)
(* flow at each end, and they are there exactly while the flow is in       *)
(* transfer, or waits for the answer of the other end. The entry in        *)
(* EFCPTable stays, so an instance made later would not get a Delimiting.  *)
Bound(p, f) == fa[p].made[f] - fa[p].deleted[f]

BindingsFollowStatus ==
    \A p \in Ipcps : \A f \in Flow :
        /\ fa[p].made[f] <= 1
        /\ fa[p].efcpis[f] = Bound(p, f)
        /\ f \in fa[p].efcpTable <=> fa[p].made[f] > 0
        /\ fa[p].status[f] = "TRANSFER" => Bound(p, f) = 1
        /\ fa[p].status[f] \in {"none", "DEALLOC_PEND", "DEALLOCATED"} => Bound(p, f) = 0

(* No data flow is bound before a management flow is up: at its caller     *)
(* never, at its callee only if the answer to the management flow was lost.*)
ManagementFirst ==
    \A p \in Ipcps : \A f \in Data :
        fa[p].made[f] > 0 =>
            \/ \E m \in Mgmt : fa[p].status[m] = "TRANSFER"
            \/ p = Callee(f) /\ lost > 0

(* The applications know of their flow what the allocator does, and the    *)
(* gates from AE over IRM to the IPC process are there while it lasts and  *)
(* gone after it: an AE that AE::sendData lets send has a path all the way.*)
(* An AE whose flow is refused goes back to NIL, unless it is refused so   *)
(* soon that the call that asked for it overwrites NIL (AE.cc:238).        *)
ApplicationsFollow ==
    \A p \in Ipcps : \A f \in Data :
        LET e == fa[p].ae[f]
            s == fa[p].status[f]
        IN  /\ e.con = "CONNECTION_PENDING" <=> s \in {"TRANSFER", "DEALLOC_PEND", "DEALLOCATED"}
            /\ e.south <=> s \in {"TRANSFER", "DEALLOC_PEND"}
            /\ e.north <=> e.south \/ s = "ALLOC_PEND"
            /\ s = "ALLOC_NEGA" /\ e.con # "NIL" => f \in Infeasible

(* At every allocator entries, statuses, bindings, applications and the    *)
(* management flow the data flows need fit together.                       *)
AllocatorsSound ==
    TypeOK /\ BindingsFollowStatus /\ ApplicationsFollow /\ ManagementFirst

(* Seen from both ends, each data flow lives the life of FlowLife.         *)
Phase(p, f) ==
    CASE fa[p].status[f] = "none"         -> "idle"
      [] fa[p].status[f] = "ALLOC_PEND"   -> "waiting"
      [] fa[p].status[f] = "ALLOC_NEGA"   -> "refused"
      [] fa[p].status[f] = "TRANSFER"     -> "open"
      [] fa[p].status[f] = "DEALLOC_PEND" -> "closing"
      [] fa[p].status[f] = "DEALLOCATED"  -> "closed"

Phases(f) == [caller |-> Phase(Caller(f), f), callee |-> Phase(Callee(f), f)]

Life(f) == INSTANCE FlowLife WITH end <- Phases(f)

EachFlowLives ==
    /\ \A f \in Data : Life(f)!Init
    /\ [][\A f \in Data : [Life(f)!Next]_(Phases(f))]_vars

(* Whoever asked for a flow is answered: a request is not forgotten while  *)
(* it waits for the management flow, nor after a refusal. The first of the *)
(* two formulas leaves out the flows that the other end refuses.           *)
Waits(f) == fa[Caller(f)].status[f] = "ALLOC_PEND"

AcceptedAreAnswered == \A f \in Data \ Rejected : Waits(f) ~> ~Waits(f) \/ lost > 0

AskedAreAnswered == \A f \in Data : Waits(f) ~> ~Waits(f) \/ lost > 0

(* A deallocation comes to its end at both ends, unless both asked for it  *)
(* at the same time: then each ignores what the other asks.                *)
AtBothEnds(f, s) == \A p \in Ipcps : fa[p].status[f] = s

DeallocationEnds ==
    \A f \in Data : \A p \in Ipcps :
        fa[p].status[f] = "DEALLOC_PEND" ~>
            \/ AtBothEnds(f, "DEALLOCATED")
            \/ AtBothEnds(f, "DEALLOC_PEND")
            \/ lost > 0
=============================================================================
