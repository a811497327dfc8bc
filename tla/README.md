# RINASim: specifications, model checking and proofs

RINASim is a C++ simulator (OMNeT++) of the Recursive InterNetwork Architecture. A simulated computing system runs
application processes and stacks of IPC processes (IPCPs); an IPCP transfers data with EFCP, relays it with the RMT,
and manages its flows, members and routes with the flow allocator, enrollment, the resource allocator and the RIB
daemon. This directory holds TLA+ modules translated from that code, the TLC configurations that check them on small
instances, and TLAPS proofs of what matters most. Every definition stands for lines of the source; the table is
`PROJECT.json` (`map`). Paths below are relative to `src/src` unless they start with `policies`.

Simulated time only orders events. Each handler (`handleMessage`, a signal listener, a timer) runs to its end before
the next one starts, so a handler is one atomic action, and the interleaving is between handlers of different modules
and of different systems. What is nondeterministic is the order in which messages that take time arrive, which of them
are lost, when a timer fires relative to them, and what users do.

## Inventory

| Component | State | Operations | Talks to | Hard behaviour |
|---|---|---|---|---|
| DTP receiver (`DIF/EFCP/DTP/DTP.cc`, `DTPState`) | left window edge, highest number received, reassembly queue, last SDU delivered, A-timers | data PDU arrives (five cases), A-timer fires | Delimiting (SDUs up), RMT (acks) | duplicates, gaps, overtaking, late timers, unsigned edges |
| DTCP and DTP sender (`DTP.cc`, `DIF/EFCP/DTCP`) | next number, DRF flag, window edges, closed window queue, retransmission queue and timers, number of the last control PDU | SDU written, control PDU arrives, retransmission timer fires | Delimiting, RMT, RA and FAI (stop and start sending signals) | lost and late control PDUs, retransmission crossing its ack, a full queue |
| EFCP policies (`policies/DIF/EFCP`) | none of their own | called by the two above at fixed points | DTPState, DTCPState | two edge updates in one handler, state updated in the wrong order |
| EFCP module and table (`DIF/EFCP/EFCP.cc`) | instances by flow | create, delete an instance | FAI | an entry left behind by a deletion |
| Delimiting (`DIF/Delimiting`) | number of SDUs (constant) | wraps an SDU, unwraps it | DTP, FAI | the number never changes |
| RMT (`DIF/RMT`) and policies | queues and ports, their readiness and blocking, waiting counters | PDU arrives, queue served, port ready, port blocked | RA, EFCP, lower and upper IPCPs | readiness lost or doubled, counters that differ from queue lengths, routes that change under way |
| Flow allocator (`DIF/FA/FA.cc`, `FAI.cc`, `FAITable`) | table of flow allocator instances with their status, pending flows | allocate, M_CREATE and its response, deallocate, M_DELETE and its response, forwarding | RIB daemon, RA, EFCP, AE, IRM | requests waiting for a management flow or an (N-1)-flow, retries, deallocation from both ends |
| Resource allocator (`DIF/RA/RA.cc`, `NM1FlowTable`) | (N-1)-flows, their ports and status | create, answer, bind (N-1)-flow; block and unblock a port | FA of the lower DIF, RMT, EFCP signals | flows requested twice, crossing requests, an answer that wakes the wrong ones |
| Routing (`policies/DIF/Routing`) and forwarding (`policies/DIF/RA`) | distance vectors or link states, forwarding table | flow comes up, update arrives, update due | RIB daemon, RMT | convergence, stale entries, tables told of differences only |
| RIB daemon (`DIF/RIB/RIBd.cc`) | invoke identifiers | translates signals to CDAP messages and back | all management components | matching an answer to its request |
| IRM and AEs (`DAF/IRM`, `DAF/AE`) | connection table, connection status of each AE, gates | allocate, response, deallocate | FA, applications | status set after the call that already changed it |
| Enrollment (`DIF/Enrollment`) | CACE and enrollment status per neighbour | connect, start, stop and their responses | RIB daemon, RA | never started in this commit |
| CDAP, DIF allocator, name space management, Common, CS, examples | directories and configuration | look up | all | none |

What makes each part correct, in short. Receiver: an ordered flow hands up increasing numbers, none twice, and never
keeps back what can go up. Sender: nothing is sent outside the window, nothing is forgotten, a blocked port is
unblocked. Connection: what is written is handed up once and in order, credit is never invented. Flow allocator: both
ends and their applications agree on the life of a flow, everyone who asked is answered, bindings are made and removed
once. Allocation over (N-1)-flows: each is asked for once, a flow that is up has a ready path behind it, nothing is
left waiting. RMT: a PDU is in one place, one transmission at a time, a port that is busy gets ready again. Routing:
entries are never older than what is known, forwarding says what routing says, tables converge to shortest ways and
form no loop.

## Modules

| Module | What it models |
|---|---|
| `EFCPDefs` | the parameters of a QoS cube, PDUs, unsigned arithmetic |
| `DTPReceiver`, `DTPReceiver_proofs` | the receiving half of an EFCP instance under an arbitrary environment; its theorems |
| `DTCPSender`, `DTCPSender_proofs` | the sending half under an arbitrary environment; its theorems |
| `OrderedDelivery` | the abstract promise of one direction of a connection |
| `EFCPConnection`, `EFCPConnection_proofs` | two complete instances, `INSTANCE`s of the two halves, joined by a path that may lose and reorder; its theorems |
| `FlowLife` | the abstract life of one flow, seen from its two ends |
| `FlowAllocation`, `FlowAllocation_proofs` | the flow allocators of two neighbours with their instances, EFCP tables and application entities; its theorems |
| `RecursiveAllocation`, `MCRecursiveAllocation`, `RecursiveAllocation_proofs` | flows across relays, over (N-1)-flows allocated on demand; an instance; its theorems |
| `RMT`, `MCRMT`, `RMT_proofs` | the relaying and multiplexing task of one IPCP; instances; its theorems |
| `RoutingNet` | what the routing policies share: flows, metrics, forwarding tables, the way of an update |
| `LinkState`, `MCLinkState`, `LinkState_proofs` | `SimpleLS` over `RoutingNet`; instances; its theorems |
| `DistanceVector`, `MCDistanceVector`, `DistanceVector_proofs` | `SimpleDV` over `RoutingNet`; instances; its theorems |

Every component keeps the state of one actor in a record whose fields have the names of the C++ members, and is written
as operators on that record, one per step a handler takes and one per handler. An action applies a handler and puts
what it sends on the way. Operators introduced as `Variant:` are the mistakes the properties are tried against.

### DTPReceiver

`handleDataTransferPDUFromRMT` tells five cases apart (`DTP.cc:668-845`): the first PDU of a run (DRF flag), below the
left edge, among the gaps, next in order, beyond a gap. Each is an operator (`StartOfRun`, `DropDuplicate`, `IntoGap`,
`NextInOrder`, `BeyondGap`), and a PDU that fits none is dropped, as in the code. Each case ends with the calls the code
makes: `SvUpdate` (the left edge, the window credit, the ack policy, which updates the edge once more *after* the ack
was computed), then `Delimit`. `ATimerFired` is the A-timer with its policy. The reassembly queue, sorted in the code,
is a set, since numbers are unique in it (`NeverThrown` proves that). The history variables `delivered`, `newRun` and
`repeated` record what went up since the last PDU with DRF. The environment (`Sendable`) may deliver any number, in any
order, any number of times. DRF occurs only on number 1 because `generatePDUsnew` sets it only on the first PDU.

### DTCPSender

`WriteSDU` is `handleMsgFromDelimiting`: the SDU becomes one or more PDUs, which `trySendGenPDUs` posts or holds.
`ReceiveControl` is `handleMsgFromRMT` for control PDUs: duplicates and losses by number, the lost-control policy
(a control ack and an empty PDU), acks (`SenderAck`), flow control with the closed window queue served
(`FlowControlled`), and the receiver control ack. `RxTimerExpires` is the retransmission timer. The vector
of retransmission timers is a set of entries with their turn, so that the front of the vector remains known. The
histories `acked` and `abandoned` say why a number left that set.

### EFCPConnection and OrderedDelivery

`net[p]` is the sequence of PDUs under way to p. `Arrive` handles its head, `ArriveOvertaking` a later element, `Lose`
removes one; the last two spend a budget. A retransmission timer fires when nothing is under way (the timeout is longer
than a round trip) or early, by spending a budget. The actions apply the operators of the two halves.

`OrderedDelivery` is the promise of one direction: what is handed up is always a prefix of what was written, and
everything written is handed up in the end. `EFCPConnection_lossless` checks that each direction implements it under
the refinement `written`, `handedUp`; `EFCPConnection_faulty` checks that each receiver implements `DTPReceiver`.

### FlowAllocation and FlowLife

An allocator is a record: its table (flows in order of insertion), the status of each entry, the EFCP instances and
bindings, whether the remote identifiers are known, the retries, the flows that wait, the timers that will wake them,
and the application's end of each data flow. Handlers follow the code through `FA`, `FAI`, `EFCP`, the listeners, the
AEs, the IRM and the RIB daemon: a signal is a call, so `ReceiveCreate` contains the whole chain up to the response.

- A data flow needs a management flow to the neighbour. `ReceiveAllocateRequest` allocates one if the table has none,
  and postpones the data flow unless the *first* management entry is in transfer (`MgmtReady`). When the answer to the
  management flow arrives, all pending flows are listed and a self-message (`WakePending`) starts them.
- CDAP messages carry a pointer to the sender's `Flow`. The daemon copies the flow when the message arrives, so the
  identifiers the sender learns meanwhile are in the copy. M_DELETE and its response find their instance by comparing
  all identifiers (`Identified`): a message from the callee matches if the caller has heard the positive response by
  then, even if it had not when the message was sent.
- `ReceiveCreateResponsePositive` looks at no status, as in the code; M_CREATE is recognised as a duplicate by its
  invoke identifier, which stays with the flow.
- An application entity is its connection status, its entry in the `ConnectionTable` and two Booleans: the chain of
  gates from AE to IRM (north) and from IRM to the IPC process (south). `Notified` says what each signal of the FAI
  makes of it. `SendAllocationRequest` sets `FLOW_PENDING` *after* the call that may already have refused the flow.

The QoS comparison is a set of flows it refuses (`Infeasible` at the caller, `Rejected` at the callee, which also stands
for a refusal by the application entity). The DIF is the bottommost one, where the resource allocator binds a flow to
the medium at once. `FlowLife` is the abstract life of a flow at two ends: asked, answered, confirmed or denied; closed
from either end, the other end following; `EachFlowLives` states that every data flow lives such a life.

### RecursiveAllocation

A DIF of IPC processes over other DIFs. A flow is asked for at its caller, bound to an (N-1)-flow to its next hop,
announced to the next hop by M_CREATE, forwarded there, and answered by the callee along the way back. The resource
allocator of each process keeps the table of (N-1)-flows: an item is made on demand (`bindNFlowToNM1Flow` with
`createNM1Flow`), on an incoming request (`createNM1FlowWithoutAllocate`) or, for the configured preallocations, at the
start; it is established by an answer from the DIF below or at the end of its own handler; and the answer wakes the
flows that waited for it, instances before forwards (in the code, in the order in which they came to listen). `Configurations` says which flows are preallocated, which the DIF below refuses, and which
of several ports to a neighbour the forwarding policy gives. The wait for a management flow of the same DIF is left to
`FlowAllocation`. `Way` is the way of a request as the routes have it; `RoutesAgree` says of the routes that they lead to
the callee and come back the same way. Two properties, about whole paths, are promised under it, and the instance meets it.

### RMT

One IPCP's ports, each with an input and an output direction: queues by QoS, readiness, blocking, the counter of waiting
PDUs, scheduled wake-ups. A handler is one action; PDUs between modules are in sequences of their own (`link`,
`onLine`, `fromEfcp`), since such messages take no time but are events. `PostQueueArrival` and `PostQueueDeparture` are
the hooks with the monitor, the maximal-queue policy and the scheduler they call. An IPCP on the wire has the interface
port only, whose transmissions take time (`busy`); a relaying one has ports on (N-1)-flows that open when these are
established and that EFCP signals block and unblock. Routes change while PDUs are under way, EFCP instances come and
go, and PDUs come that no queue or gate is for. Scheduler (`LongestQFirst`, `DumbSch` with `BEMonitor`), marker and
droppers (`TailDrop`, `ECNMarker`, `UpstreamNotifier`, `PortMaxQ`) are as in the code.

### RoutingNet, LinkState, DistanceVector

An IPC process is its address. `InsertedFlow` is what happens at one end when an (N-1)-flow is bound to its RMT: the
generator (`SimpleGenerator`, or `LatGenerator` with metrics from delays) decides whether the routing policy hears of a
link, the policy changes its entries, and the generator is told which destinations changed (`RoutingUpdated`).
`Time2Update` sends to every neighbour the *forwarding* tables lead to (`Reaches`), since an update is itself a PDU;
it is received once the flows it crosses are up at both ends. Link state floods numbered entries and computes shortest
ways with `ConstructTree`; updates arrive in any order. Distance vector sends its whole table; the updates to one
neighbour share a queue and arrive in order. Flows only come up: nothing calls `RA::removeNM1Flow`.

## Runs

| Run | Shows |
|---|---|
| `DTPReceiver_nodtcp` | any sequence of PDUs against a receiver whose edge the handlers and A-timers move: no exception, the inductive invariant, order, an edge that never moves back |
| `DTCPSender_reliable` | any control PDU, write and timer: the port is blocked exactly while the queue is full, nothing the window admits is held, the queues account for every number |
| `EFCPConnection_lossless` | both peers write: acks and window size, refinement of `OrderedDelivery`, everything acknowledged, ports reopen |
| `EFCPConnection_faulty` | two losses, an overtaking, an early timer: credit is never invented, the window never shrinks, no PDU stays behind a moved edge, the receiver refines `DTPReceiver`, the exchange ends |
| `EFCPConnection_plain` | no DTCP, one loss and one overtaking: nothing is handed up twice, and what nothing disturbed is handed up |
| `EFCPConnection_lost` | finding: a lost PDU is acknowledged without having been handed up |
| `FlowAllocation_agree` | flows asked for from both ends at once, one refused, either end may stop, one loss: instances and bindings once, applications that follow, management first, each flow's life, answers, ends |
| `FlowAllocation_retry` | finding: a refused flow is asked for again and never answered |
| `RecursiveAllocation_chain` | two hosts and two relays, flows of two cubes from hosts and a relay: one request and one entry each, a ready path behind every flow that is up, nothing stranded when no event is left |
| `RMT_relay` | every process type and policy, traffic for here, elsewhere and nowhere, changing routes: queues account, one transmission, a port that is not ready will be, congestion acted on, order, queues empty in the end |
| `LinkState_lat` | a line with a second, faster flow, a triangle with two shortest ways, a line of four: one entry per number, forwarding is current, everyone reached, nothing older replaces newer, flooding ends |
| `DistanceVector_hops` | a triangle with a tail, lines within, at and beyond `infMetric`: forwarding follows the table, the next hop is nearer, distances found, and the exchange ends, except in the line whose middle processes echo at `infMetric`, where it never does |

Some invariants are conjunctions of named parts. `QueuesAgree` (sender): types, the closed-window flag set exactly while
PDUs wait, every number accounted for and in one place, held and first sent in order. `EndsAgree` (connection): types,
acks only for what was passed, the window as wide as the credit. `GrantsRespected`: credit was granted by the peer, and
what was sent is within it. `AllocatorsSound`: types, bindings follow the status, applications follow, management first.
`ItemsAgree`: types, one request per neighbour and cube, one entry per flow and end. `QueuesAccount`: types, counters equal
queue lengths, a ready direction has nothing waiting, each PDU in one place. `EntriesAgree`: types, one entry per
number. `EveryoneReached`: neighbours known, shortest ways. `TablesAgree`: types, forwarding follows the table.

### Bounds

- `DTPReceiver`: numbers up to 6 without DTCP; a queue with two gaps, a duplicate of each of its elements and a DRF in
  the middle fit in five, and the handlers compare numbers only with the two edges and the front of the queue. The
  receiver with DTCP is covered by the proofs for every bound and, with a real sender, by the connection's runs.
  `Modulus` stands for 2^32; it must exceed every sum the handlers compute, except in the subtraction at 0, which wraps.
- `DTCPSender`: four numbers in SDUs of one or two PDUs against a queue limit of two and a starting window of one, so
  PDUs are split between posted and held and the queue fills, drains in part and drains completely; acks are wrong,
  right and wrapped (`PeerAcks`).
- `EFCPConnection`: five SDUs each way with credit and queue of two (the port blocks and reopens) when nothing is lost,
  three one way with up to two losses. `MaxSeq` leaves room for the empty PDUs that lost control PDUs cause.
- `FlowAllocation`: two flows asked for at A, one of which is refused at B, and one asked for at B: enough for
  the two management flows to cross, for a data flow to wait while another is refused and for both ends to stop the
  same flow. One message may be lost. A flow the caller's own policy refuses is more than the liveness properties of
  `FlowAllocation_agree` allow in reasonable time; it occurs in `FlowAllocation_retry`, and `AllocatorsSound` alone
  holds with it too.
- `RecursiveAllocation`: a chain of four is the least with a hop between relays, one that may be refused and is not the
  callee's; four flows of two cubes make (N-1)-flows that cross, that are shared while being made, and that only the
  relays need. One configuration has that hop refused and another cube's flow there preallocated.
- `RMT`: two ports, queues of at most two with two QoS, two PDUs through a port and one from EFCP, three changes. Two
  PDUs fill a queue; the third makes the output queues compete.
- `LinkState`, `DistanceVector`: four processes, so that there is someone beyond a neighbour's neighbour, and one update
  under way per ordered pair; each configuration aims at a case (late faster flow, two shortest ways, far end). A line of
  four with `infMetric` 2 is the smallest that echoes for ever; a triangle with a tail and `infMetric` 2 echoes until its
  last flow is up.

Deadlock is not checked (`CHECK_DEADLOCK FALSE`) where a run stops at its bounds or because users are done; the routing
runs check it, with an explicit `Done` when no event is left.

### Fairness

The simulator delivers every event that was scheduled. In EFCP, a PDU under way arrives, the retransmission timer of an
outstanding PDU fires while nothing is under way, an A-timer fires; for arrivals and timers the enabling condition is
written out, so that TLC need not evaluate ENABLED. In `FlowAllocation` a message under way arrives and the
self-message that wakes pending flows is delivered. A lost message excuses an answer (`lost > 0`), since the code has no
timer to repeat it. In `RMT` every scheduled event happens; routes need not change and ports need not be unblocked. In
the routing modules the simulation goes on until no event is left (weak fairness of `Next`): whatever the order, the flooding of
link state ends. Distance vectors need a little more. `SettlesOrEchoes` says that the exchange ends unless processes echo
at `infMetric` (`Echoing`) and that there it never does; and since they may also echo for a while, until a flow comes up,
flows are assumed to come up (weak fairness of `InsertFlows`): a second passes between two updates of a process, so no echo
keeps the flow allocation below from its events. `RecursiveAllocation` states no fairness: every chain of events there is finite,
and `NothingIsStranded` says of the states without a pending event that nobody is left waiting; that a run gets there
is not checked. Users need not write, ask or stop, and faults need not happen.

### Findings

`PROJECT.json` quotes the comment each one contradicts.

- `updateRcvLWE` decides whether a gap is allowed from SDU numbers, but Delimiting numbers every SDU 1
  (`DIF/Delimiting/Delimiting.cc:31`). So the left edge jumps over every gap, and with retransmission on a lost
  PDU is acknowledged (`EFCPConnection_lost`).
- A refused flow is asked for again with the invoke identifier of the first request, which the callee ignores as a
  duplicate; neither an acceptance nor the final refusal ever comes (`FlowAllocation_retry`). This is why
  `AcceptedAreAnswered` leaves out the flows the other end refuses.

The modelling met further behaviour that a maintainer should know; the properties above are stated so as to except it,
and `hazards` names the lines.

- The DRF case looks at no number (`DTP.cc:682`), so a retransmitted first PDU restarts the run. This is why
  `NoRepeatInRun`, `InOrderInRun` and `EdgeMonotone` speak of one run.
- `sendAckFlowPDU` subtracts 1 from an unsigned 0; the ack policy guards against that. The policy of the A-timer sends
  no ack, so delayed acks are never sent.
- Both ends of a flow that stop it at once ignore each other and stay in `DEALLOC_PEND`.
- An AE whose flow is refused within the call that asks for it ends as `FLOW_PENDING` (`DAF/AE/AE.cc:238`). An AE that
  accepted a second flow would connect gates that are connected, which ends the simulation; the AEs of the repository
  have one flow each.
- With `DumbSch` and a policy that asks the monitor, PDUs stay queued: `BEMonitor::onMessageArrival` is called by nothing.
- A PDU that finds no EFCP instance inserts a NULL entry in the map of gates, and one without a queue of its id is neither
  kept nor counted.
- A process that joins a link-state DIF after the flooding learns only what changes later: `EveryoneReached` asks that
  the flows come up before the first update (`together`). In a line of four whose last link is late, the last process
  never hears of the first two.
- `LatGenerator` with `SimpleDV` leaves forwarding entries that differ from the table when a cheaper flow to a neighbour
  comes up; `DistanceVector_hops` uses `SimpleGenerator`.
- `SimpleDV::processUpdate` takes an entry at `infMetric`, erases it at once and still counts it as a change
  (`SimpleDV.cc:146-163`). Two neighbours, each of which has a destination at `infMetric - 1` that the other lacks, therefore
  send to one another for ever: in a line of four with `infMetric` 2, or a ring of `2 * infMetric` processes. TLC finds
  `SettlesOrEchoes` true with this exception and no other, and that the exchange always ends if such an entry is no change.
  Where processes echo no state is quiet, so `DistancesKnown` says nothing of it. The default `infMetric` is 32.
- `SimpleLS::onPolicyInit` (`SimpleLS.cc:205-213`) does not set `scheduledUpdate`, as `SimpleDV.cc:188` does. `LinkState` starts
  with it FALSE; should memory hold anything else, `scheduleUpdate` would never schedule and the process never tell anybody.
- A refused (N-1)-flow leaves its item and port, and later forwarding may lead there for good (`MayBeStuck`); crossing
  (N-1)-flows leave a second item that is never marked established, which is harmless since the first is found.
- A request that waits at a relay for a refused (N-1)-flow goes on when an (N-1)-flow of *another* cube to that neighbour
  comes up, since `LisFACreFloPosi` looks at the neighbour only. The caller is then told that its flow is up while a hop
  has no (N-1)-flow of its cube. The proof of `PathIsReady` as it first stood failed there, TLC confirmed it on the chain
  of four, and the property now excepts such a hop and no other. At the callee's hop it cannot be: the callee answers
  over an (N-1)-flow of the cube or not at all.
- Where routes do not come back the way they went, a callee asks for an (N-1)-flow on another way than the request took,
  and a flow may stay without an answer. This is why the two theorems about whole paths have the hypothesis `RoutesAgree`.
- The hop counter of a forwarded M_CREATE, when it runs out, is answered towards the destination (`DIF/FA/FA.cc:256`).
- The entry of a deleted flow stays in `EFCPTable` with no instance, where a congestion notification that comes late
  would look for one.

## Proofs

Every theorem holds for every value of the constants that satisfies the named assumptions of the modules.

| Theorem | Module | States |
|---|---|---|
| `Invariance` | `DTPReceiver_proofs` | `Spec => []IInv` |
| `TypeCorrectness` | `DTPReceiver_proofs` | `Spec => []TypeOK` |
| `ThrowsNothing` | `DTPReceiver_proofs` | `Spec => []NeverThrown` |
| `QueueStaysWithinEdges` | `DTPReceiver_proofs` | `Spec => []QueueWithinEdges` |
| `RepeatsNothing` | `DTPReceiver_proofs` | `Spec => []NoRepeatInRun` |
| `HandsUpInOrder` | `DTPReceiver_proofs` | `Spec => InOrderInRun` |
| `NeverWithdrawsAcks` | `DTPReceiver_proofs` | `Spec => EdgeMonotone` |
| `HeadIsNeverStranded` | `DTPReceiver_proofs` | `Spec => []HeadNotStranded` |
| `PortIsBlockedAtFullQueue` | `DTCPSender_proofs` | `Spec => []PortBlockedIffQueueFull` |
| `NothingAdmittedWaits` | `DTCPSender_proofs` | `Spec => []NothingSendableHeld` |
| `QueuesAlwaysAgree` | `DTCPSender_proofs` | `Spec => []QueuesAgree` |
| `CreditAlwaysGranted` | `EFCPConnection_proofs` | `Spec => []GrantsRespected` |
| `CreditIsNeverTakenBack` | `EFCPConnection_proofs` | `Spec => WindowNeverShrinks` |
| `ReceiversAreReceivers` | `EFCPConnection_proofs` | `BoundedSpec => ReceivesAsSpecified` (each receiver refines `DTPReceiver`) |
| `HeadsAreNeverStranded` | `EFCPConnection_proofs` | `BoundedSpec => []HeadsNotStranded` |
| `EndsAlwaysAgree` | `EFCPConnection_proofs` | `Lossless`: `Spec => []EndsAgree` |
| `DeliveryIsOrdered` | `EFCPConnection_proofs` | `Lossless`: `Spec => FromA!Init /\ [][FromA!Next]_(FromA!vars)`, and `FromB` (each direction refines `OrderedDelivery`) |
| `NothingHandedUpTwice` | `EFCPConnection_proofs` | `~RxOn`: `Spec => []HandedUpOnce` |
| `AllocatorsAlwaysSound` | `FlowAllocation_proofs` | `Spec => []AllocatorsSound` |
| `FlowsLive` | `FlowAllocation_proofs` | `Spec => EachFlowLives` (each data flow refines `FlowLife`) |
| `ItemsAlwaysAgree` | `RecursiveAllocation_proofs` | `Spec => []ItemsAgree` |
| `PathAlwaysReady` | `RecursiveAllocation_proofs` | `RoutesAgree`: `Spec => []PathIsReady` |
| `NothingEverStranded` | `RecursiveAllocation_proofs` | `RoutesAgree`: `Spec => []NothingIsStranded` |
| `TypeCorrect` | `RMT_proofs` | `Spec => []TypeOK` |
| `NoOverlappingTransmissions` | `RMT_proofs` | `Spec => []OneTransmission` |
| `NoStuckPort` | `RMT_proofs` | `Spec => []BusyWakesUp` |
| `CongestionAlwaysActedOn` | `RMT_proofs` | `Spec => []CongestionIsActedOn` |
| `FlowsKeepOrder` | `RMT_proofs` | `Spec => []InFlowOrder` |
| `NoPduLostOrDoubled` | `RMT_proofs` | `Spec => [](WaitingAreQueued /\ EachInOnePlace)` |
| `QueuesAlwaysAccount` | `RMT_proofs` | `Scheduler = "LongestQFirst"`: `Spec => []QueuesAccount` |
| `TreeIsShortest` | `LinkState_proofs` | `Shortest(me, ls, ConstructTree(me, ls))` for any entries `ls` |
| `EntriesAlwaysAgree` | `LinkState_proofs` | `Spec => []EntriesAgree` |
| `ForwardingIsAlwaysCurrent` | `LinkState_proofs` | `Spec => []ForwardingIsCurrent` |
| `EntriesNeverOlder` | `LinkState_proofs` | `Spec => NeverOlder` |
| `EveryoneAlwaysReached` | `LinkState_proofs` | `HopCount`: `Spec => []EveryoneReached` |
| `TablesAlwaysAgree` | `DistanceVector_proofs` | `HopCount /\ Spec => []TablesAgree` |
| `NextHopIsAlwaysNearer` | `DistanceVector_proofs` | `HopCount /\ Spec => []NextHopIsNearer` |
| `DistancesOnlyShorten` | `DistanceVector_proofs` | `HopCount /\ Spec => OnlyShorter` |
| `DistancesAlwaysKnown` | `DistanceVector_proofs` | `HopCount`: `Spec => []DistancesKnown` |

Each of these modules also proves its inductive invariant (`Invariance`; `EndsKeepAgreeing`, `AlwaysInLockstep` and
`AlwaysSeparate` in `EFCPConnection_proofs`; `InvInit` and `InvNext` in `RecursiveAllocation_proofs`; `NothingIsLeftOut`, of what
neighbours have been told, in both routing modules);
TLC checked every one on instances before it was proved.

**Receiver.** None of the safety properties is inductive. That a PDU is never handed up twice depends on where the left
edge is relative to what went up before and to what is queued; that the queue lies between the edges depends on its not
having been left behind by an earlier move. `IInv` says it in one line: in an ordered flow the left edge separates the
numbers handed up in this run (all below) from the queued ones (all at or beyond), the latter at most the
highest number received, and no exception was thrown. `Settled` records are shown to
remain settled by each step (insertion, edge update, `SvUpdate`, `Delimit`), one lemma each; then each of the five cases
and the A-timer is a composition of those lemmas; then each action preserves `IInv`. The edge update needs a fact about
`NextMissing`: it never passes a number that is not queued and never moves back, proved from the definition of
`Min`, and the existence of a least element from a theorem of the library. Assumed: `QoSAssumption` and
`ReceiverAssumption` (flags are Booleans, bounds natural numbers, the modulus exceeds the numbers used).
That no PDU stays behind at the left edge (`HeadIsNeverStranded`) rests on the edge being updated twice, by `svUpdate`
and by the ack policy: the first update may jump over a gap to the first PDU of the queue, which only the second
passes (`UpdatedTwice`). It needs that no A-timer runs, which immediate acks ensure, since a timer updates the edge once.

**Sender.** That the port is blocked exactly while the closed window queue is full cannot be shown without knowing that
the closed-window flag is exact, that every number sent is in one of four places (acknowledged or abandoned, kept for
retransmission, held, not kept at all), and that the held PDUs are the last numbers, in order. `Good` says so of the
sender's record (`Numbers`, `Flags`, `Order`), with the two ghost sets as parameters; `Order` is dropped after a
ControlAck, where the code does let fresh PDUs overtake. Writing, acknowledging, releasing from the queue and
posting have lemmas of their own; a window opened by the peer lets out a prefix (`OpenPrefixStops`). The peer may
say anything: no assumption is made on its acks and edges but that they are unsigned numbers (`SenderAssumption`).

**Connection.** That a sender never believes in more credit than its peer has granted is not inductive: a control PDU under
way brings credit with it, and one that is overtaken could bring old credit late. `Agreed` relates both ends and the path:
every control PDU under way has a number its sender gave out and a right edge its sender has granted; of two that grant
credit the later numbered grants no less (`InStep`); one that its receiver will still listen to, by its number, grants no less
than the receiver has (`Pending`), so that taking it over shrinks nothing; and data that was sent, or is kept for
retransmission, is within what was granted (`Sound`). `ActingAgreed` shows, of any step in which one end consumes something
and sends something, that `Agreed` follows if what it sends is `Sendable`; the lemmas on the operators of the two halves
(`ControlSends`, `ReceiveGrants`, ...) show that it is, handler by handler, and a lemma per action puts the two together.
The number of losses, overtakings and premature timers is any; assumed are `QoSAssumption` and `ConnectionAssumption` (two
different ends, credits and bounds are numbers). As `GrantsRespected` says, the sender's initial credit must not
exceed the receiver's, two parameters of the same QoS cube.

`ReceiversAreReceivers` is the refinement of `DTPReceiver` at both ends: initial states map to initial states, and each step
of the connection is, seen from one receiver, an arrival of a PDU that a peer can have sent (by `Agreed`), an
A-timer, or nothing. It is proved of `BoundedSpec`, whose steps are those of `Spec` from states within the bounds that
`DTPReceiver` puts on its environment (`MaxSeq`, `MaxRWE`, `MaxATimers`, which stand for nothing in the program and may be as large as
one likes; all states of `EFCPConnection_faulty` are within them). The handlers, the refined specification and its theorems
are three instances of `DTPReceiver`, whose operators the prover takes to be different: `OneReceiverA` and `OneReceiverB`
show them equal. With that, `HeadIsNeverStranded` holds at both ends.

`EndsAgree` is false as soon as a PDU is lost (the run `EFCPConnection_lost` shows one part of it violated), so
`EndsAlwaysAgree` has the hypothesis `Lossless`: reliable, immediate acks, no gap tolerated, and the bounds of the three kinds of
faults 0. What it needs is stronger than what it states, for an edge or a credit is right only if all that led to
it came once and in order. `Lockstep` says that each direction is determined by four numbers (`Progress`): n SDUs were written,
m of their PDUs sent, r received, a acknowledged. The closed window queue is then the PDUs from m + 1 to n, kept are those from
a + 1 to m (`Sending`), the receiver is in the one state it has after r PDUs (`Rcvd`), and on the path, however
the two directions mix, the data PDUs are r + 1 to m and the answers a + 1 to r (`UnderWay`). The lemmas on the operators say
what the next PDU does to such a state: `NextIsWritten`, `NextIsReceived` and `NextIsHeard`, the last also letting out a run of
waiting PDUs (`RunReleased`); those on the path, what stays under way when a burst is sent or the first is taken. No
timer fires: an empty path leaves nothing to retransmit (`NothingLeft`). `DeliveryIsOrdered` reads the steps off the same
lemmas; with the fairness that TLC checks in `DeliversInOrder` it is that property. `UserDataSeqs` gives each
number the place of its rank instead of sorting with the library's `SetToSortSeq`, whose definition the prover cannot open.

`HandedUpOnce` is false with retransmission (the first PDU carries DRF, so a second copy of it starts a new run), so
`NothingHandedUpTwice` has the hypothesis that the QoS cube asks for none; PDUs may be lost and overtaken as often as one
likes, with or without flow control, forced order and delayed timers. `Separate` says where a number of user data can
be: waiting for the window, under way, in the receiver's queue or handed up, in one of them, once; and all are below the
next one to be given out. The number is what counts, not the PDU: an empty PDU may repeat the number of one with user data.
The lemmas on the sender (`WriteSpreads`, `ControlSpreads`) say that what is sent and what goes on waiting share no
number and come from the queue or are new; those on the receiver (`ReceiveSplits`, `ATimerSplits`) that what was queued and
what came is divided between the queue and the user, because what goes up is decided by the number alone. Nothing is
assumed beyond `Agreed`, which gives the types of what is under way.

**Flow allocation.** `AllocatorsSound` is not inductive: that a flow is bound once depends on what the other end may still
send. `Base` says for each flow what holds at each end (`Local`: status, bindings, instances and application fit), and
what relates the two ends and the messages about the flow (`Joint`): nothing is under way before the caller is
bound, an answer is under way only to a caller that waits, at most one, and it agrees with what the callee did; a M_DELETE
or its response says what its sender is. For each allocator, the table has the flows with a status, the own management
flow first (`TableOK`), so that the first entry is the one to ask; and only flows not started wait, which are woken only
when management is up (`PendingOK`), so that `WakePendingFlows` starts each once. `Managed` adds the order of messages: if
nothing was lost, a request for a data flow is behind the answer to the management flow, or that has been heard.
The proof has three layers. The lemmas on single operators (`BindDoes`, `NotifyFlow`, ...) say which fields of the record
change; those on handlers (`CreateAccepted`, `Denied`, `Closes`, ...) say the same of the flow (`Effect`). The `Joint...`
lemmas move a flow from one relation of its ends to another. `QuietStep` and `SpeakStep` carry a handler's effect, with
or without a message sent, to the whole state; a request is such a step several times over, with `Good` in between
although no other process sees those states, and a wake-up as many times as flows wait, by a recursion over the
pending flows (`UpTo`, `Looping`, proved anew here because this module has nothing else in common with the routing). For
the refinement each handler is shown to make no change of status but a `Turn`, given the status of the other end at
that moment, and each turn is a step of `FlowLife`. Assumed: `FlowAssumption` (distinct processes and flows); the
properties under fairness stay with TLC.

**(N-1)-flows.** None of the three properties is inductive. A path is ready when the caller hears so because each process on
the way back had its port ready before it passed the answer on, and because the message that opens the port at the
next process is ahead of the answer on the same wire; nobody is stranded because whoever waits waits for a message that
is under way or for a refusal. The invariant has three parts. `Base` is about (N-1)-flows alone: each table is in order
(`TableOK`: an item made by this end is the first of its neighbour and cube, items of others are ready, what is ready
keeps nothing back); a request under way has an item behind it, an answer a ready port, an item one at the
other end or a message that will make it; and an item that is not ready, like an entry that waits to be forwarded, is
`Awaited`. `FlowOK` relates a flow to its way: a request under way or kept at a port is on it, with a ready (N-1)-flow
back on every hop behind it (`Past`), an answer comes back on it with ready ports both ways on every hop it has passed
(`Done`), and both are preceded by the message that readies the next port (`RequestIsPreceded`, `AnswerIsPreceded`).
`LiveOK` says of a flow that can meet no refusal that a request is still on its way, waiting or to be woken, or the callee
has it; then its answer is on its way back or the caller has it.
A handler makes many such changes at once, in loops over instances and entries. All it does is add: to tables, queues,
entries, wires. So it is followed part by part in the world as it would be if everybody saw each part at once, with the
message it handles still on the wire. Each part is shown to grow the world (`Grows`: what has come up, was asked or is
under way stays so) by what is sound (`SoundStep`), so the invariant holds in between; `Leads` composes the parts, and the
loops are such compositions as many times as there are elements (`Looping`). At the end `Settled` says that
what the message asks for is done, and `Popped` takes it away. The depth of the chain is any, since the way of a flow
is a recursive function and hops are numbered. Assumed: `AllocationAssumption` (finitely many processes and flows, ends
that differ, preallocated pairs of processes); that a flow is entered and asked for once needs nothing of the routes.

**RMT.** `TypeOK` says that every PDU in or on its way to a queue is one of that queue's QoS and that ports and gates
named anywhere exist; it is inductive, but only because of what the scheduler may pick, so `LongestQueueType` shows
first that the longest queue is one of the queues. That transmissions never overlap and that no port gets stuck are two
sides of one account: on the wire, the tokens of an output (*ready*, *wake-up scheduled*, *PDU released to the port*) and
the transmission under way sum to at most one; and wherever a port is open, each direction that is not blocked has at
least one of them left. `PortOK` states both for one port and `IInv` for all, with the interface open on the wire. A handler touches one direction of one port, so the
lemmas (`ReleaseLike`, `ProcessQueuesLike`, `EnqueueLike`, ...) say what each operator does to the tokens of a direction,
and `OneDirectionPortOK` carries that to the whole state. The other theorems need less of an operator: that it serves
a direction (`Served`: the first PDU of one queue goes to the link, or nothing moves), perhaps after an arrival (`Arrived`: one
PDU is appended to its queue, marked or not, or none). What congestion promises (`Acted`) is kept by both, since a queue
that is served keeps its last PDU. For order, the PDUs of one source, QoS and way out are seen along seven stages (`Path`):
ahead at the source, input queue, input link, line, output queue, output link, sent. `AllOrdered` says that of two
such PDUs the one further on, in a later stage or in front in the same, has the smaller number; a step drops the first PDU of a stage
(`HeadGoes`), moves it to an earlier one with none between (`HeadMoves`), or lets a PDU of another source or QoS
join (`OtherJoins`). That the RMT is not entered by the PDUs of one source along two ways needs `Sourced`: what comes
from a port's input is that port's. A route that changes only decides which path's line a PDU joins.

The accounting of the RMT is two invariants (`Books`). `AllCounted` is about single directions: the counter is the number of
spots in the queues (`Counted`; `QueueGrows` and `QueueShrinks` follow it through an append and a release), and under
`LongestQFirst` a ready direction has none waiting (`Idle`), since the longest queue has a PDU if any has
(`LongestQueueType`). `Accounted` is about PDUs: the sequences they are in are indexed by `Places`, no PDU is twice in one
or in two of them, and with the PDUs dropped and left behind they make up what the sources had (`Whole`). A step takes
the first PDU of a place to the end of another (`MovesOn`) or out of all of them (`MovesOut`); a handler is one or two
such moves, the second from a queue to its link (`ServedPlaces`, `ArrivedPlaces`). So `NoPduLostOrDoubled` holds
under every scheduler. `QueuesAlwaysAccount` has the hypothesis `Scheduler = "LongestQFirst"` for `ReadyHasNoneWaiting`: `DumbSch`
serves only what `BEMonitor` lists, and as nothing fills its lists a ready port then keeps PDUs waiting.

Assumed in all of these:
`PortAssumption`, `QueueAssumption`, and `TrafficAssumption`, by which a source numbers its PDUs upwards: `src` and `id` are
names of PDUs, not fields that the code reads.

**Routing.** Two lemmas stand in for induction over data (in each of the two modules): `UpTo` (a set that contains 0 and the
successor of each of its numbers below `N` contains all up to `N`) and `Iteration` (a function can be iterated any
number of times, so the recursive definitions below are what they say). With them:

- *Link state.* `constructTree` is Dijkstra's algorithm with all shortest ways kept. `GoodTree` is its loop invariant: over
  the links of the added nodes every distance is the least and the first hops are those of all ways that attain it
  (`Best`); no node waits that is nearer than an added one (`Nearer`); a hop is a neighbour (`Usable`). `RootIsGood` and
  `AddIsGood` establish and keep it, whichever of the nearest nodes is next; after as many rounds as there are nodes none waits, so
  `TreeIsShortest` holds for any entries, whoever they come from. It needs `WidthAssumption`: lengths are unsigned shorts
  and no way may be so long that they overflow. The invariant then has two parts. Every copy of an entry, known or in
  flight, has the number and contents of its owner's or a smaller number, which holds because an owner numbers upwards.
  And a generator, told differences only, keeps `Follows`: a destination whose first hops did not change keeps its
  port, because ports are only ever added. What flooding has achieved when no event is left needs a third part, `Flooded`:
  what a process knows and a neighbour does not is in `lastChanges`, with an update scheduled, or under way to that neighbour
  (`Passed`), of its own entry always and of others' if the flows came up together. So in a quiet state neighbours
  know one another's entries, and with flows that came up together all know all they can reach: their distances are
  then those of the topology (`KnownIsShortest`), each next hop is nearer by one (`NextHopIsNearer`), and every way arrives (`EveryWayArrives`).
  `EveryoneAlwaysReached` has the hypothesis `HopCount`; over `LatGenerator` a neighbour may be reached over others, whose
  tables change while the update is under way, and there it is only model-checked.
- *Distance vector.* A process believes its next hop whatever it says, so that the next hop stays nearer rests on
  everything that is in flight: an update says more than what its sender needs by now, no more than what the
  receiver heard from that sender before, and later updates say no more than earlier ones (`GoodUpdate`,
  `UpdatesShorten`); a neighbour is one hop away (`LinksAreDirect`). The theorems have the hypothesis `HopCount`: metrics
  are those of `SimpleGenerator`, with which the configurations of the repository pair `SimpleDV`, but for
  `[Config LatDV]` of `examples/LatEx`. Over `LatGenerator` TLC finds the properties violated. `DistancesAlwaysKnown`
  adds `NothingLeftOut`: a distance that a neighbour could use, being within `infMetric` there, is known to it, or an
  update that says so is scheduled or under way (`Enough`). In a quiet state the tables then obey the laws of shortest ways, as the independently
  computed distances do, and are equal to them up to `infMetric`.

Only model-checked: `EveryoneReached` over `LatGenerator`, that echoing processes are never quiet, and liveness under
fairness, which is beyond the prover.

## Not modelled

- **Enrollment.** Nothing starts it in this commit: the subscriptions that would are commented out
  (`DIF/Enrollment/Enrollment.cc:84`, `87`) and `SIG_RA_MgmtFlowAllocated` has no listener, so its table stays empty and
  every operation returns at once.
- **EFCP.** Rate-based flow control (its timer is never scheduled by the code), nacks and selective acks (no code sends
  them), ECN slow-down, the estimation of the round-trip time (a timer fires at any time its conditions allow), loading
  policies by name, the content of user data and its reassembly into SDUs. Flows that are not ordered are covered
  by `ForceOrder = FALSE` in the proofs, but their order is nobody's promise.
- **Flow allocation.** Transfer within one system, malformed flows, an application that stops before its flow is
  allocated, deinstantiation (the code has none), the hop counter. Invoke identifiers of two systems are taken to be
  distinct, as their random starts make them but for one chance in 65536. Preallocation at times later than 0.
- **RMT.** Removal of ports and queues (called by nothing), rates and statistics, the delay and loss monitors (whose
  hooks nothing calls) and the schedulers that draw random numbers. A process on the wire that
  also relays: `RA::setRMTMode` (`RA.cc:240`) sets the two independently, `RMT`'s `Init` leaves the combination out.
- **Routing.** Removal of flows (called by nothing), the domain and port-load variants, static and domain generators. A
  distance of exactly 65535, which `SimpleDV` could send and `Vector` leaves out, and the wrap of its sum are beyond any
  number of hops.
- **Applications.** The CDAP connection and the traffic of the test applications; directories, names and QoS types are
  data read from the configuration. NED files hold no program logic.

Much of the code base is such data, its accessors and its printing, which is why the map covers a modest share of lines.

## Plan

1. `FlowAllocation`: an application that stops early.
2. `RecursiveAllocation`: preallocation at later times, the hop counter.

A later module's question joins an existing run where it can, so that the set of runs stays small enough to repeat
often. Each module is written to be proved about: parameters as constants with named assumptions, one action per operation,
invariants as conjunctions of named parts, recursion as functions and no recursive operator.
