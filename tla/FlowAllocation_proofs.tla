------------------------ MODULE FlowAllocation_proofs -------------------------
(***************************************************************************)
(* Proofs about flow allocation between two neighbours, for any flows and  *)
(* any losses. IInv speaks of one flow at a time wherever it can: what     *)
(* holds of it at each end (Local), what relates its ends and the messages *)
(* about it (Joint); only the management flows tie the flows together      *)
(* (PendingOK, Managed).                                                   *)
(***************************************************************************)
EXTENDS FlowAllocation, TLAPS, WellFoundedInduction

(* A non-empty set of naturals has a least element, and Min finds it. *)
LEMMA MinOfNats ==
    ASSUME NEW T \in SUBSET Nat, T # {}
    PROVE  Min(T) \in T /\ \A x \in T : Min(T) <= x
<1>1. IsWellFoundedOn(OpToRel(<, Nat), Nat)
  BY NatLessThanWellFounded
<1>2. PICK x \in T : \A y \in T : ~(<<y, x>> \in OpToRel(<, Nat))
  BY <1>1, WFMin
<1>3. \A y \in T : x <= y
  <2> SUFFICES ASSUME NEW y \in T, y < x PROVE FALSE
    OBVIOUS
  <2>1. <<y, x>> \in OpToRel(<, Nat)
    BY DEF OpToRel
  <2> QED
    BY <2>1, <1>2
<1> QED
  BY <1>2, <1>3 DEF Min

(* Induction: a set with 0 and with the successor of each of its numbers   *)
(* up to N has all numbers up to N.                                        *)
LEMMA UpTo ==
    ASSUME NEW N \in Nat, NEW S, 0 \in S,
           \A k \in 0 .. (N - 1) : k \in S => k + 1 \in S
    PROVE  0 .. N \subseteq S
<1> DEFINE T == {k \in 0 .. N : k \notin S}
<1> SUFFICES ASSUME T # {} PROVE FALSE
  OBVIOUS
<1>1. T \in SUBSET Nat
  OBVIOUS
<1>2. /\ Min(T) \in T
      /\ \A x \in T : Min(T) <= x
  BY <1>1, MinOfNats
<1> DEFINE m == Min(T)
<1>3. m \in 0 .. N /\ m \notin S
  BY <1>2
<1>4. m # 0
  BY <1>3
<1>5. m - 1 \in 0 .. (N - 1) /\ m - 1 \notin T
  <2> HIDE DEF T
  <2> QED
    BY <1>2, <1>3, <1>4
<1>6. m - 1 \in S
  BY <1>5
<1>7. (m - 1) + 1 \in S
  BY <1>5, <1>6
<1> QED
  BY <1>3, <1>7

(* g is a loop of N rounds that starts with x; round k applies F[k].       *)
Loops(g, N, X, x, F) ==
    g \in [0 .. N -> X] /\ g[0] = x /\ \A k \in 1 .. N : g[k] = F[k][g[k - 1]]

(* Recursion: every loop can be run. *)
LEMMA Looping ==
    ASSUME NEW N \in Nat, NEW X, NEW x \in X, NEW F \in [1 .. N -> [X -> X]]
    PROVE  \E g : Loops(g, N, X, x, F)
<1> DEFINE S == {n \in 0 .. N : \E g : Loops(g, n, X, x, F)}
<1>1. 0 \in S
  <2>1. Loops([k \in 0 .. 0 |-> x], 0, X, x, F)
    BY DEF Loops
  <2> QED
    BY <2>1
<1>2. ASSUME NEW n \in 0 .. (N - 1), n \in S
      PROVE  n + 1 \in S
  <2>1. PICK g : Loops(g, n, X, x, F)
    BY <1>2
  <2> DEFINE h == [k \in 0 .. (n + 1) |-> IF k = n + 1 THEN F[n + 1][g[n]] ELSE g[k]]
  <2>2. g \in [0 .. n -> X] /\ g[0] = x /\ \A k \in 1 .. n : g[k] = F[k][g[k - 1]]
    BY <2>1 DEF Loops
  <2>3. F[n + 1] \in [X -> X] /\ g[n] \in X
    BY <2>2
  <2>4. h \in [0 .. (n + 1) -> X]
    BY <2>2, <2>3
  <2>5. \A k \in 1 .. (n + 1) : h[k] = F[k][h[k - 1]]
    BY <2>2
  <2>6. Loops(h, n + 1, X, x, F)
    BY <2>2, <2>4, <2>5 DEF Loops
  <2> QED
    BY <2>6
<1>3. 0 .. N \subseteq S
  <2> HIDE DEF S
  <2> QED
    BY <1>1, <1>2, UpTo
<1> QED
  BY <1>3


-----------------------------------------------------------------------------
LEMMA Ends ==
    /\ \A p \in Ipcps : Peer(p) \in Ipcps /\ Peer(p) # p /\ Peer(Peer(p)) = p
    /\ \A p, q \in Ipcps : q = p \/ q = Peer(p)
    /\ \A p \in Ipcps : MgmtOf(p) \in Mgmt /\ Caller(MgmtOf(p)) = p
    /\ \A f \in Flow : Caller(f) \in Ipcps /\ Callee(f) = Peer(Caller(f)) /\ Callee(f) \in Ipcps
    /\ \A m \in Mgmt : m = MgmtOf(Caller(m))
    /\ \A p \in Ipcps : \A f \in DataOf(p) : f \in Data /\ Caller(f) = p
    /\ \A f \in Data : f \in DataOf(Caller(f))
    /\ Data \subseteq Flow /\ Mgmt \subseteq Flow /\ Data \intersect Mgmt = {}
    /\ Flow = Data \union Mgmt
    /\ Infeasible \subseteq Data /\ Rejected \subseteq Data
  BY FlowAssumption DEF Ipcps, Peer, MgmtOf, Mgmt, Caller, Callee, Flow, Data, DataOf

(* The applications. *)
LEMMA EntityType ==
    ASSUME NEW e \in Entity
    PROVE  /\ InsertFlow(e) \in Entity
           /\ AllocationPositive(e) \in Entity
           /\ AllocationAccepted(e) \in Entity
           /\ AllocationNegative(e) \in Entity
           /\ Deallocation(e) \in Entity
  BY DEF Entity, InsertFlow, AllocationPositive, AllocationAccepted, AllocationNegative,
         Deallocation, CreateNorthBindings, CreateSouthBindings, DeleteNorthBindings,
         DeleteSouthBindings

(* An application follows its flow, whose status is s. *)
Follows(e, s, f) ==
    /\ e.con = "CONNECTION_PENDING" <=> s \in {"TRANSFER", "DEALLOC_PEND", "DEALLOCATED"}
    /\ e.south <=> s \in {"TRANSFER", "DEALLOC_PEND"}
    /\ e.north <=> e.south \/ s = "ALLOC_PEND"
    /\ s = "ALLOC_NEGA" /\ e.con # "NIL" => f \in Infeasible
    /\ s = "none" => e.con = "NIL"

LEMMA EntityFollows ==
    ASSUME NEW e \in Entity, NEW f, NEW s, Follows(e, s, f)
    PROVE  /\ s = "none" => Follows(InsertFlow(e), "ALLOC_PEND", f)
           /\ s = "none" => Follows(AllocationAccepted(e), "TRANSFER", f)
           /\ s = "none" => Follows(e, "ALLOC_NEGA", f)
           /\ s = "ALLOC_PEND" => Follows(AllocationNegative(e), "ALLOC_NEGA", f)
           /\ s = "ALLOC_PEND" => Follows(AllocationPositive(e), "TRANSFER", f)
           /\ s = "TRANSFER" => Follows(e, "DEALLOC_PEND", f)
           /\ s \in {"TRANSFER", "DEALLOC_PEND"} => Follows(Deallocation(e), "DEALLOCATED", f)
           /\ s = "ALLOC_PEND" \/ (s = "ALLOC_NEGA" /\ f \in Infeasible) =>
                 Follows([e EXCEPT !.con = "FLOW_PENDING"], s, f)
  BY DEF Follows, Entity, InsertFlow, AllocationPositive, AllocationAccepted, AllocationNegative,
         Deallocation, CreateNorthBindings, CreateSouthBindings, DeleteNorthBindings,
         DeleteSouthBindings

-----------------------------------------------------------------------------
(* What handlers do to an allocator. *)
Outcomes == [st : Allocator, out : Seq(Message)]

LEMMA AllocatorFields ==
    ASSUME NEW st \in Allocator
    PROVE  /\ st.table \in Seq(Flow) /\ st.status \in [Flow -> Status]
           /\ st.efcpTable \in SUBSET Flow /\ st.efcpis \in [Flow -> Nat]
           /\ st.made \in [Flow -> Nat] /\ st.deleted \in [Flow -> Nat]
           /\ st.knowsPeer \in [Flow -> BOOLEAN] /\ st.retries \in [Flow -> Nat]
           /\ st.pendingFlows \in Seq(Flow) /\ st.wakeups \in Nat /\ st.ae \in [Data -> Entity]
  BY DEF Allocator

(* From st to t the flow f gets a status, bindings and an application that *)
(* is as e; nothing happens to other flows.                                *)
Effect(t, st, f, s, made, deleted, e) ==
    /\ t \in Allocator
    /\ t.status = [st.status EXCEPT ![f] = s]
    /\ t.made = [st.made EXCEPT ![f] = made]
    /\ t.deleted = [st.deleted EXCEPT ![f] = deleted]
    /\ t.efcpis = [st.efcpis EXCEPT ![f] = made - deleted]
    /\ t.efcpTable = IF made = 1 THEN st.efcpTable \union {f} ELSE st.efcpTable
    /\ t.ae = IF f \in Data THEN [st.ae EXCEPT ![f] = e] ELSE st.ae

SameQueues(t, st) ==
    t.table = st.table /\ t.pendingFlows = st.pendingFlows /\ t.wakeups = st.wakeups

Tied(st, f) ==
    /\ st.efcpis[f] = st.made[f] - st.deleted[f]
    /\ f \in st.efcpTable <=> st.made[f] = 1

(* A handler that makes and deletes no bindings. *)
LEMMA EffectOnStatus ==
    ASSUME NEW st \in Allocator, NEW t \in Allocator, NEW f \in Flow, NEW s, NEW e, Tied(st, f),
           t.status = [st.status EXCEPT ![f] = s],
           t.made = st.made, t.deleted = st.deleted,
           t.efcpis = st.efcpis, t.efcpTable = st.efcpTable,
           t.ae = IF f \in Data THEN [st.ae EXCEPT ![f] = e] ELSE st.ae
    PROVE  Effect(t, st, f, s, st.made[f], st.deleted[f], e)
<1>1. /\ st.made = [st.made EXCEPT ![f] = @]
      /\ st.deleted = [st.deleted EXCEPT ![f] = @]
      /\ st.efcpis = [st.efcpis EXCEPT ![f] = @]
  BY AllocatorFields
<1>2. st.efcpTable = IF st.made[f] = 1 THEN st.efcpTable \union {f} ELSE st.efcpTable
  BY DEF Tied
<1>3. st.efcpis[f] = st.made[f] - st.deleted[f]
  BY DEF Tied
<1> QED
  BY <1>1, <1>2, <1>3 DEF Effect

LEMMA StartRefuses ==
    ASSUME NEW o \in Outcomes, NEW f \in Infeasible, o.st.status[f] = "ALLOC_PEND", Tied(o.st, f)
    PROVE  /\ Start(o, f) \in Outcomes
           /\ Effect(Start(o, f).st, o.st, f, "ALLOC_NEGA", o.st.made[f], o.st.deleted[f],
                     AllocationNegative(o.st.ae[f]))
           /\ SameQueues(Start(o, f).st, o.st)
           /\ Start(o, f).out = o.out
<1> DEFINE t == [o.st EXCEPT !.status[f] = "ALLOC_NEGA", !.ae[f] = AllocationNegative(@)]
<1>1. f \in Data /\ f \notin Mgmt /\ f \in Flow
  BY Ends
<1>2. o.st \in Allocator /\ o.out \in Seq(Message)
  BY DEF Outcomes
<1>3. Start(o, f) = [st |-> t, out |-> o.out]
  BY <1>1, <1>2 DEF Start, SetStatus, Notify, Notified, Outcomes
<1>4. AllocationNegative(o.st.ae[f]) \in Entity
  BY <1>1, <1>2, AllocatorFields, EntityType
<1>5. t \in Allocator
  BY <1>1, <1>2, <1>4 DEF Allocator, Status
<1>6. /\ t.status = [o.st.status EXCEPT ![f] = "ALLOC_NEGA"]
      /\ t.ae = [o.st.ae EXCEPT ![f] = AllocationNegative(@)]
      /\ t.made = o.st.made /\ t.deleted = o.st.deleted
      /\ t.efcpis = o.st.efcpis /\ t.efcpTable = o.st.efcpTable
      /\ SameQueues(t, o.st)
  BY <1>2 DEF Allocator, SameQueues
<1>7. Effect(t, o.st, f, "ALLOC_NEGA", o.st.made[f], o.st.deleted[f], AllocationNegative(o.st.ae[f]))
  BY ONLY <1>1, <1>2, <1>5, <1>6, Tied(o.st, f), EffectOnStatus
<1> QED
  BY <1>2, <1>3, <1>5, <1>6, <1>7 DEF Outcomes

(* One field at a time. *)
LEMMA FieldUpdates ==
    ASSUME NEW st \in Allocator
    PROVE  /\ \A x \in Seq(Flow) : [st EXCEPT !.table = x] \in Allocator
           /\ \A x \in [Flow -> Status] : [st EXCEPT !.status = x] \in Allocator
           /\ \A x \in SUBSET Flow : [st EXCEPT !.efcpTable = x] \in Allocator
           /\ \A x \in [Flow -> Nat] : [st EXCEPT !.efcpis = x] \in Allocator
           /\ \A x \in [Flow -> Nat] : [st EXCEPT !.made = x] \in Allocator
           /\ \A x \in [Flow -> Nat] : [st EXCEPT !.deleted = x] \in Allocator
           /\ \A x \in [Flow -> BOOLEAN] : [st EXCEPT !.knowsPeer = x] \in Allocator
           /\ \A x \in [Flow -> Nat] : [st EXCEPT !.retries = x] \in Allocator
           /\ \A x \in Seq(Flow) : [st EXCEPT !.pendingFlows = x] \in Allocator
           /\ \A x \in Nat : [st EXCEPT !.wakeups = x] \in Allocator
           /\ \A x \in [Data -> Entity] : [st EXCEPT !.ae = x] \in Allocator
<1> DEFINE C == Seq(Flow)
           D == [Flow -> Nat]
           E == [Flow -> Status]
           G == [Flow -> BOOLEAN]
           I == [Data -> Entity]
<1>1. Allocator = [table : C, status : E, efcpTable : SUBSET Flow, efcpis : D, made : D, deleted : D,
                   knowsPeer : G, retries : D, pendingFlows : C, wakeups : Nat, ae : I]
  BY DEF Allocator
<1> HIDE DEF C, D, E, G, I
<1>2. \A x \in C : [st EXCEPT !.table = x] \in Allocator /\ [st EXCEPT !.pendingFlows = x] \in Allocator
  BY <1>1
<1>3. \A x \in D : /\ [st EXCEPT !.efcpis = x] \in Allocator /\ [st EXCEPT !.made = x] \in Allocator
                   /\ [st EXCEPT !.deleted = x] \in Allocator /\ [st EXCEPT !.retries = x] \in Allocator
  BY <1>1
<1>4. /\ \A x \in E : [st EXCEPT !.status = x] \in Allocator
      /\ \A x \in SUBSET Flow : [st EXCEPT !.efcpTable = x] \in Allocator
      /\ \A x \in G : [st EXCEPT !.knowsPeer = x] \in Allocator
      /\ \A x \in Nat : [st EXCEPT !.wakeups = x] \in Allocator
      /\ \A x \in I : [st EXCEPT !.ae = x] \in Allocator
  BY <1>1
<1> QED
  BY <1>2, <1>3, <1>4 DEF C, D, E, G, I

LEMMA NewState ==
    ASSUME NEW o \in Outcomes, NEW st \in Allocator, NEW r, r = [o EXCEPT !.st = st]
    PROVE  r \in Outcomes /\ r.st = st /\ r.out = o.out /\ r = [st |-> st, out |-> o.out]
  BY DEF Outcomes

LEMMA BindDoes ==
    ASSUME NEW o \in Outcomes, NEW f \in Flow
    PROVE  LET r == Bind(o, f)
           IN  /\ r \in Outcomes
               /\ r.out = o.out
               /\ SameQueues(r.st, o.st)
               /\ r.st.status = o.st.status /\ r.st.deleted = o.st.deleted /\ r.st.ae = o.st.ae
               /\ r.st.efcpTable = o.st.efcpTable \union {f}
               /\ r.st.efcpis = [o.st.efcpis EXCEPT ![f] = @ + 1]
               /\ r.st.made = [o.st.made EXCEPT ![f] = @ + 1]
<1>1. o.st \in Allocator /\ o.out \in Seq(Message)
  BY DEF Outcomes
<1> DEFINE X == [o.st.efcpis EXCEPT ![f] = @ + 1]
           Y == o.st.efcpTable \union {f}
           Z == [o.st.made EXCEPT ![f] = @ + 1]
           t == [o.st EXCEPT !.efcpTable = Y]
           u == [t EXCEPT !.efcpis = X]
           v == [u EXCEPT !.made = Z]
<1>2. X \in [Flow -> Nat] /\ Y \in SUBSET Flow /\ Z \in [Flow -> Nat]
  BY <1>1, AllocatorFields
<1>3. t \in Allocator
  <2> HIDE DEF Y
  <2> QED
    BY <1>1, <1>2, FieldUpdates
<1>4. u \in Allocator
  <2> HIDE DEF t, X
  <2> QED
    BY <1>3, <1>2, FieldUpdates
<1>5. v \in Allocator
  <2> HIDE DEF u, Z
  <2> QED
    BY <1>4, <1>2, FieldUpdates
<1>6. CreateEFCPI(o, f) = [o EXCEPT !.st = u]
  BY <1>1 DEF CreateEFCPI, Outcomes, Allocator
<1>7. u.made = o.st.made
  BY <1>1 DEF Allocator
<1>8. Bind(o, f) = [o EXCEPT !.st = v]
  <2>1. CreateEFCPI(o, f) = [st |-> u, out |-> o.out]
    BY <1>4, <1>6, NewState
  <2>2. Bind(o, f) = [st |-> [u EXCEPT !.made[f] = @ + 1], out |-> o.out]
    <3> HIDE DEF u
    <3> QED
      BY <2>1 DEF Bind
  <2>3. [u EXCEPT !.made[f] = @ + 1] = v
    <3> HIDE DEF u
    <3> QED
      BY <1>7
  <2> QED
    BY <2>2, <2>3, <1>5, NewState
<1>9. /\ SameQueues(v, o.st)
      /\ v.status = o.st.status /\ v.deleted = o.st.deleted /\ v.ae = o.st.ae
      /\ v.efcpTable = Y /\ v.efcpis = X /\ v.made = Z
  <2> HIDE DEF X, Y, Z
  <2> QED
    BY <1>1 DEF SameQueues, Allocator
<1>10. Bind(o, f) \in Outcomes /\ Bind(o, f).out = o.out /\ Bind(o, f).st = v
  <2> HIDE DEF v
  <2> QED
    BY <1>5, <1>8, NewState
<1> QED
  <2> HIDE DEF v
  <2> QED
    BY <1>9, <1>10

LEMMA StartBinds ==
    ASSUME NEW o \in Outcomes, NEW f \in Flow, f \notin Infeasible, o.st.status[f] = "ALLOC_PEND",
           o.st.made[f] = 0, o.st.deleted[f] = 0, o.st.efcpis[f] = 0
    PROVE  /\ Start(o, f) \in Outcomes
           /\ Effect(Start(o, f).st, o.st, f, "ALLOC_PEND", 1, 0, o.st.ae[f])
           /\ SameQueues(Start(o, f).st, o.st)
           /\ Start(o, f).out = Append(o.out, [type |-> "M_CREATE", flow |-> f])
<1> DEFINE t == Bind(o, f).st
           m == [type |-> "M_CREATE", flow |-> f]
<1>1. o.st \in Allocator /\ o.out \in Seq(Message)
  BY DEF Outcomes
<1>2. Bind(o, f) \in Outcomes /\ Bind(o, f).out = o.out
  BY BindDoes
<1>3. Start(o, f) = [st |-> t, out |-> Append(o.out, m)]
  BY <1>2 DEF Start, Send, Outcomes
<1>4. m \in Message
  BY DEF Message, MessageTypes
<1>5. t \in Allocator
  BY <1>2 DEF Outcomes
<1>7. /\ SameQueues(t, o.st)
      /\ t.status = o.st.status /\ t.deleted = o.st.deleted /\ t.ae = o.st.ae
      /\ t.efcpTable = o.st.efcpTable \union {f}
      /\ t.efcpis = [o.st.efcpis EXCEPT ![f] = 1]
      /\ t.made = [o.st.made EXCEPT ![f] = 1]
  BY BindDoes
<1>8. /\ o.st.status = [o.st.status EXCEPT ![f] = "ALLOC_PEND"]
      /\ o.st.deleted = [o.st.deleted EXCEPT ![f] = 0]
      /\ f \in Data => o.st.ae = [o.st.ae EXCEPT ![f] = @]
  BY <1>1, AllocatorFields
<1>9. Effect(t, o.st, f, "ALLOC_PEND", 1, 0, o.st.ae[f])
  <2> HIDE DEF t
  <2> QED
    BY <1>5, <1>7, <1>8 DEF Effect
<1> QED
  <2> HIDE DEF t
  <2> QED
    BY <1>1, <1>3, <1>4, <1>5, <1>7, <1>9 DEF Outcomes


(* The fields of an allocator that are not in changed are as before. *)
Keeps(t, st, changed) ==
    \A x \in {"table", "status", "efcpTable", "efcpis", "made", "deleted", "knowsPeer", "retries",
              "pendingFlows", "wakeups", "ae"} \ changed : t[x] = st[x]

LEMMA SetStatusDoes ==
    ASSUME NEW o \in Outcomes, NEW f \in Flow, NEW s \in Status
    PROVE  LET r == SetStatus(o, f, s)
           IN  /\ r \in Outcomes
               /\ r.out = o.out
               /\ r.st.status = [o.st.status EXCEPT ![f] = s]
               /\ Keeps(r.st, o.st, {"status"})
<1> DEFINE X == [o.st.status EXCEPT ![f] = s]
           t == [o.st EXCEPT !.status = X]
<1>1. o.st \in Allocator
  BY DEF Outcomes
<1>2. X \in [Flow -> Status]
  BY <1>1, AllocatorFields
<1>3. SetStatus(o, f, s) = [o EXCEPT !.st = t]
  BY <1>1 DEF SetStatus, Outcomes
<1> HIDE DEF X
<1>4. t \in Allocator
  BY <1>1, <1>2, FieldUpdates
<1>5. t.status = X /\ Keeps(t, o.st, {"status"})
  BY <1>1 DEF Allocator, Keeps
<1> HIDE DEF t
<1> QED
  BY <1>3, <1>4, <1>5, NewState DEF X

Signals == {"AllocateRequest", "AllocateResPosi", "AllocateResNega", "DeallocateReqRes"}

LEMMA NotifyDoes ==
    ASSUME NEW o \in Outcomes, NEW f \in Data,
           NEW signal \in Signals
    PROVE  LET r == Notify(o, f, signal)
           IN  /\ r \in Outcomes
               /\ r.out = o.out
               /\ r.st.ae = [o.st.ae EXCEPT ![f] = Notified(@, signal)]
               /\ Keeps(r.st, o.st, {"ae"})
<1> DEFINE X == [o.st.ae EXCEPT ![f] = Notified(@, signal)]
           t == [o.st EXCEPT !.ae = X]
<1>1. o.st \in Allocator
  BY DEF Outcomes
<1>2. Notified(o.st.ae[f], signal) \in Entity
  <2>1. o.st.ae[f] \in Entity
    BY <1>1, AllocatorFields
  <2> QED
    BY <2>1, EntityType DEF Notified, Signals
<1>3. X \in [Data -> Entity]
  BY <1>1, <1>2, AllocatorFields
<1>4. f \notin Mgmt
  BY Ends
<1>5. Notify(o, f, signal) = [o EXCEPT !.st = t]
  BY <1>1, <1>4 DEF Notify, Outcomes
<1> HIDE DEF X
<1>6. t \in Allocator
  BY <1>1, <1>3, FieldUpdates
<1>7. t.ae = X /\ Keeps(t, o.st, {"ae"})
  BY <1>1 DEF Allocator, Keeps
<1> HIDE DEF t
<1> QED
  BY <1>5, <1>6, <1>7, NewState DEF X

LEMMA NotifyNobody ==
    ASSUME NEW o, NEW f \in Mgmt, NEW signal
    PROVE  Notify(o, f, signal) = o
  BY DEF Notify

LEMMA SendDoes ==
    ASSUME NEW o \in Outcomes, NEW type \in MessageTypes, NEW f \in Flow
    PROVE  LET r == Send(o, type, f)
           IN  /\ r \in Outcomes
               /\ r.st = o.st
               /\ r.out = Append(o.out, [type |-> type, flow |-> f])
<1>1. [type |-> type, flow |-> f] \in Message
  BY DEF Message
<1> QED
  BY <1>1 DEF Send, Outcomes

LEMMA UnbindDoes ==
    ASSUME NEW o \in Outcomes, NEW f \in Flow
    PROVE  LET r == Unbind(o, f)
           IN  /\ r \in Outcomes
               /\ r.out = o.out
               /\ r.st.deleted = [o.st.deleted EXCEPT ![f] = @ + 1]
               /\ f \in o.st.efcpTable => r.st.efcpis = [o.st.efcpis EXCEPT ![f] = 0]
               /\ Keeps(r.st, o.st, {"deleted", "efcpis"})
<1> DEFINE X == IF f \in o.st.efcpTable THEN [o.st.efcpis EXCEPT ![f] = 0] ELSE o.st.efcpis
           Z == [o.st.deleted EXCEPT ![f] = @ + 1]
           t == [o.st EXCEPT !.efcpis = X]
           u == [t EXCEPT !.deleted = Z]
<1>1. o.st \in Allocator
  BY DEF Outcomes
<1>2. X \in [Flow -> Nat] /\ Z \in [Flow -> Nat]
  BY <1>1, AllocatorFields
<1>3. t \in Allocator
  <2> HIDE DEF X
  <2> QED
    BY <1>1, <1>2, FieldUpdates
<1>4. u \in Allocator
  <2> HIDE DEF t, Z
  <2> QED
    BY <1>3, <1>2, FieldUpdates
<1>5. DeleteEFCPI(o, f) = [o EXCEPT !.st = t]
  <2>1. CASE f \in o.st.efcpTable
    BY <1>1, <2>1 DEF DeleteEFCPI, Outcomes, Allocator
  <2>2. CASE f \notin o.st.efcpTable
    <3>1. t = o.st
      BY <1>1, <2>2 DEF Allocator
    <3>2. o = [o EXCEPT !.st = t]
      <4> HIDE DEF t
      <4> QED
        BY <3>1 DEF Outcomes
    <3> QED
      BY <2>2, <3>2 DEF DeleteEFCPI
  <2> QED
    BY <2>1, <2>2
<1>6. t.deleted = o.st.deleted
  <2> HIDE DEF X
  <2> QED
    BY <1>1 DEF Allocator
<1>7. Unbind(o, f) = [o EXCEPT !.st = u]
  <2>1. DeleteEFCPI(o, f) = [st |-> t, out |-> o.out]
    BY <1>3, <1>5, NewState
  <2>2. Unbind(o, f) = [st |-> [t EXCEPT !.deleted[f] = @ + 1], out |-> o.out]
    <3> HIDE DEF t
    <3> QED
      BY <2>1 DEF Unbind
  <2>3. [t EXCEPT !.deleted[f] = @ + 1] = u
    <3> HIDE DEF t
    <3> QED
      BY <1>6
  <2>4. [o EXCEPT !.st = u] = [st |-> u, out |-> o.out]
    <3> HIDE DEF u
    <3> QED
      BY <1>4, NewState
  <2> QED
    BY <2>2, <2>3, <2>4
<1>8. u.deleted = Z /\ u.efcpis = X /\ Keeps(u, o.st, {"deleted", "efcpis"})
  <2> HIDE DEF X, Z
  <2> QED
    BY <1>1 DEF Keeps, Allocator
<1>9. Unbind(o, f) \in Outcomes /\ Unbind(o, f).out = o.out /\ Unbind(o, f).st = u
  <2> HIDE DEF u
  <2> QED
    BY <1>4, <1>7, NewState
<1> QED
  <2> HIDE DEF u
  <2> QED
    BY <1>8, <1>9

LEMMA InsertDoes ==
    ASSUME NEW o \in Outcomes, NEW f \in Flow
    PROVE  LET r == Insert(o, f)
           IN  /\ r \in Outcomes
               /\ r.out = o.out
               /\ r.st.table = Append(o.st.table, f)
               /\ r.st.status = [o.st.status EXCEPT ![f] = "ALLOC_PEND"]
               /\ Keeps(r.st, o.st, {"table", "status"})
<1> DEFINE X == Append(o.st.table, f)
           t == [o.st EXCEPT !.table = X]
           q == [o EXCEPT !.st = t]
<1>1. o.st \in Allocator
  BY DEF Outcomes
<1>2. X \in Seq(Flow)
  BY <1>1, AllocatorFields
<1>3. [o EXCEPT !.st.table = Append(@, f)] = q
  BY <1>1 DEF Outcomes
<1>4. t \in Allocator
  <2> HIDE DEF X
  <2> QED
    BY <1>1, <1>2, FieldUpdates
<1>5. t.table = X /\ Keeps(t, o.st, {"table"})
  <2> HIDE DEF X
  <2> QED
    BY <1>1 DEF Allocator, Keeps
<1>6. q \in Outcomes /\ q.st = t /\ q.out = o.out
  <2> HIDE DEF t
  <2> QED
    BY <1>4, NewState
<1>7. Insert(o, f) = SetStatus(q, f, "ALLOC_PEND")
  BY <1>3 DEF Insert
<1>8. LET r == SetStatus(q, f, "ALLOC_PEND")
      IN  /\ r \in Outcomes
          /\ r.out = q.out
          /\ r.st.status = [q.st.status EXCEPT ![f] = "ALLOC_PEND"]
          /\ Keeps(r.st, q.st, {"status"})
  <2> HIDE DEF q
  <2> QED
    BY <1>6, SetStatusDoes DEF Status
<1> QED
  <2> HIDE DEF q, t
  <2>1. q.st.status = o.st.status
    BY <1>5, <1>6 DEF Keeps
  <2>2. Insert(o, f).st.table = X
    BY <1>5, <1>6, <1>7, <1>8 DEF Keeps
  <2>3. Keeps(Insert(o, f).st, o.st, {"table", "status"})
    BY <1>5, <1>6, <1>7, <1>8 DEF Keeps
  <2> QED
    BY <1>6, <1>7, <1>8, <2>1, <2>2, <2>3


-----------------------------------------------------------------------------
(* The handlers, by what they do to their flow. *)
Works(r, o, f, s, made, deleted, e, out) ==
    /\ r \in Outcomes
    /\ Effect(r.st, o.st, f, s, made, deleted, e)
    /\ r.out = out

Msg(type, f) == [type |-> type, flow |-> f]

(* The flow is new in the table, whose other fields are as before. *)
Appended(t, st, f) ==
    t.table = Append(st.table, f) /\ t.pendingFlows = st.pendingFlows /\ t.wakeups = st.wakeups

LEMMA InsertWorks ==
    ASSUME NEW o \in Outcomes, NEW f \in Flow, Tied(o.st, f)
    PROVE  /\ Works(Insert(o, f), o, f, "ALLOC_PEND", o.st.made[f], o.st.deleted[f], o.st.ae[f], o.out)
           /\ Appended(Insert(o, f).st, o.st, f)
<1> DEFINE r == Insert(o, f)
<1>1. /\ r \in Outcomes /\ r.out = o.out
      /\ r.st.table = Append(o.st.table, f)
      /\ r.st.status = [o.st.status EXCEPT ![f] = "ALLOC_PEND"]
      /\ Keeps(r.st, o.st, {"table", "status"})
  BY InsertDoes
<1> HIDE DEF r
<1>2. o.st \in Allocator /\ r.st \in Allocator
  BY <1>1 DEF Outcomes
<1>3. f \in Data => o.st.ae = [o.st.ae EXCEPT ![f] = @]
  BY <1>2, AllocatorFields
<1>4. /\ r.st.made = o.st.made /\ r.st.deleted = o.st.deleted
      /\ r.st.efcpis = o.st.efcpis /\ r.st.efcpTable = o.st.efcpTable
      /\ r.st.ae = IF f \in Data THEN [o.st.ae EXCEPT ![f] = o.st.ae[f]] ELSE o.st.ae
  BY <1>1, <1>3 DEF Keeps
<1>5. Effect(r.st, o.st, f, "ALLOC_PEND", o.st.made[f], o.st.deleted[f], o.st.ae[f])
  BY ONLY <1>1, <1>2, <1>4, Tied(o.st, f), f \in Flow, EffectOnStatus
<1>6. Appended(r.st, o.st, f)
  BY <1>1 DEF Keeps, Appended
<1> QED
  BY <1>1, <1>5, <1>6 DEF Works, r

LEMMA CreateRefused ==
    ASSUME NEW o \in Outcomes, NEW f \in Rejected, o.st.status[f] = "none", Tied(o.st, f)
    PROVE  LET r == ReceiveCreate(o, f)
           IN  /\ Works(r, o, f, "ALLOC_NEGA", o.st.made[f], o.st.deleted[f], o.st.ae[f],
                        Append(o.out, Msg("M_CREATE_R-", f)))
               /\ Appended(r.st, o.st, f)
<1> DEFINE a == Insert(o, f)
           b == SetStatus(a, f, "ALLOC_NEGA")
           r == Send(b, "M_CREATE_R-", f)
<1>1. f \in Flow /\ f \in Data
  BY Ends
<1>2. /\ a \in Outcomes /\ a.out = o.out
      /\ a.st.table = Append(o.st.table, f)
      /\ a.st.status = [o.st.status EXCEPT ![f] = "ALLOC_PEND"]
      /\ Keeps(a.st, o.st, {"table", "status"})
  BY <1>1, InsertDoes
<1>3. ReceiveCreate(o, f) = r
  BY DEF ReceiveCreate
<1> HIDE DEF a
<1>4. /\ b \in Outcomes /\ b.out = a.out
      /\ b.st.status = [a.st.status EXCEPT ![f] = "ALLOC_NEGA"]
      /\ Keeps(b.st, a.st, {"status"})
  BY <1>1, <1>2, SetStatusDoes DEF Status
<1> HIDE DEF b
<1>5. r \in Outcomes /\ r.st = b.st /\ r.out = Append(o.out, Msg("M_CREATE_R-", f))
  BY <1>1, <1>2, <1>4, SendDoes DEF MessageTypes, Msg
<1> HIDE DEF r
<1>6. o.st \in Allocator /\ r.st \in Allocator
  BY <1>5 DEF Outcomes
<1>7. r.st.status = [o.st.status EXCEPT ![f] = "ALLOC_NEGA"]
  BY <1>2, <1>4, <1>5, <1>6, AllocatorFields
<1>8. /\ r.st.made = o.st.made /\ r.st.deleted = o.st.deleted
      /\ r.st.efcpis = o.st.efcpis /\ r.st.efcpTable = o.st.efcpTable
      /\ r.st.ae = o.st.ae
      /\ Appended(r.st, o.st, f)
  BY <1>2, <1>4, <1>5 DEF Keeps, Appended
<1>9. r.st.ae = [o.st.ae EXCEPT ![f] = o.st.ae[f]]
  BY <1>1, <1>6, <1>8, AllocatorFields
<1>10. r.st.ae = IF f \in Data THEN [o.st.ae EXCEPT ![f] = o.st.ae[f]] ELSE o.st.ae
  BY <1>1, <1>9
<1>11. Effect(r.st, o.st, f, "ALLOC_NEGA", o.st.made[f], o.st.deleted[f], o.st.ae[f])
  BY ONLY <1>1, <1>6, <1>7, <1>8, <1>10, Tied(o.st, f), EffectOnStatus
<1> QED
  BY <1>3, <1>5, <1>8, <1>11 DEF Works

LEMMA CreateAccepted ==
    ASSUME NEW o \in Outcomes, NEW f \in Flow, f \notin Rejected, o.st.status[f] = "none",
           o.st.made[f] = 0, o.st.deleted[f] = 0, o.st.efcpis[f] = 0
    PROVE  LET r == ReceiveCreate(o, f)
           IN  /\ Works(r, o, f, "TRANSFER", 1, 0, AllocationAccepted(o.st.ae[f]),
                        Append(o.out, Msg("M_CREATE_R+", f)))
               /\ Appended(r.st, o.st, f)
<1> DEFINE a == Insert(o, f)
           b == Notify(a, f, "AllocateRequest")
           c == Bind(b, f)
           d == SetStatus(c, f, "TRANSFER")
           r == Send(d, "M_CREATE_R+", f)
<1>1. ReceiveCreate(o, f) = r
  BY DEF ReceiveCreate
<1>2. /\ a \in Outcomes /\ a.out = o.out
      /\ a.st.table = Append(o.st.table, f)
      /\ a.st.status = [o.st.status EXCEPT ![f] = "ALLOC_PEND"]
      /\ Keeps(a.st, o.st, {"table", "status"})
  BY InsertDoes
<1> HIDE DEF a
<1>3. /\ b \in Outcomes /\ b.out = a.out
      /\ b.st.ae = IF f \in Data THEN [a.st.ae EXCEPT ![f] = AllocationAccepted(@)] ELSE a.st.ae
      /\ Keeps(b.st, a.st, {"ae"})
  <2>1. CASE f \in Data
    <3>1. /\ b \in Outcomes /\ b.out = a.out
          /\ b.st.ae = [a.st.ae EXCEPT ![f] = Notified(@, "AllocateRequest")]
          /\ Keeps(b.st, a.st, {"ae"})
      BY <1>2, <2>1, NotifyDoes DEF Signals
    <3> QED
      BY <2>1, <3>1 DEF Notified
  <2>2. CASE f \in Mgmt
    <3>1. b = a /\ f \notin Data
      BY <2>2, NotifyNobody, Ends
    <3> QED
      BY <3>1, <1>2 DEF Keeps
  <2> QED
    BY <2>1, <2>2, Ends
<1> HIDE DEF b
<1>4. /\ c \in Outcomes /\ c.out = b.out
      /\ SameQueues(c.st, b.st)
      /\ c.st.status = b.st.status /\ c.st.deleted = b.st.deleted /\ c.st.ae = b.st.ae
      /\ c.st.efcpTable = b.st.efcpTable \union {f}
      /\ c.st.efcpis = [b.st.efcpis EXCEPT ![f] = @ + 1]
      /\ c.st.made = [b.st.made EXCEPT ![f] = @ + 1]
  BY <1>3, BindDoes
<1> HIDE DEF c
<1>5. /\ d \in Outcomes /\ d.out = c.out
      /\ d.st.status = [c.st.status EXCEPT ![f] = "TRANSFER"]
      /\ Keeps(d.st, c.st, {"status"})
  BY <1>4, SetStatusDoes DEF Status
<1> HIDE DEF d
<1>6. r \in Outcomes /\ r.st = d.st /\ r.out = Append(o.out, Msg("M_CREATE_R+", f))
  BY <1>2, <1>3, <1>4, <1>5, SendDoes DEF MessageTypes, Msg
<1> HIDE DEF r
<1>7. o.st \in Allocator /\ r.st \in Allocator
  BY <1>6 DEF Outcomes
<1>8. b.st.status = [o.st.status EXCEPT ![f] = "ALLOC_PEND"]
  BY <1>2, <1>3 DEF Keeps
<1>9. r.st.status = [o.st.status EXCEPT ![f] = "TRANSFER"]
  BY <1>4, <1>5, <1>6, <1>7, <1>8, AllocatorFields
<1>10. b.st.deleted = o.st.deleted /\ b.st.efcpTable = o.st.efcpTable
       /\ b.st.efcpis = o.st.efcpis /\ b.st.made = o.st.made
  BY <1>2, <1>3 DEF Keeps
<1>11. /\ r.st.deleted = c.st.deleted /\ r.st.efcpTable = c.st.efcpTable
       /\ r.st.efcpis = c.st.efcpis /\ r.st.made = c.st.made /\ r.st.ae = c.st.ae
       /\ SameQueues(r.st, c.st)
  BY <1>5, <1>6 DEF Keeps, SameQueues
<1>12. r.st.deleted = [o.st.deleted EXCEPT ![f] = 0]
  BY <1>4, <1>7, <1>10, <1>11, AllocatorFields
<1>13. /\ r.st.efcpTable = o.st.efcpTable \union {f}
       /\ r.st.efcpis = [o.st.efcpis EXCEPT ![f] = 1]
       /\ r.st.made = [o.st.made EXCEPT ![f] = 1]
  BY <1>4, <1>10, <1>11
<1>14. r.st.ae = IF f \in Data THEN [o.st.ae EXCEPT ![f] = AllocationAccepted(o.st.ae[f])] ELSE o.st.ae
  BY <1>2, <1>3, <1>4, <1>11 DEF Keeps
<1>15. Effect(r.st, o.st, f, "TRANSFER", 1, 0, AllocationAccepted(o.st.ae[f]))
  BY <1>7, <1>9, <1>12, <1>13, <1>14 DEF Effect
<1>16. Appended(r.st, o.st, f)
  BY <1>2, <1>3, <1>4, <1>11 DEF Appended, SameQueues, Keeps
<1> QED
  BY <1>1, <1>6, <1>15, <1>16 DEF Works

LEMMA NotifyFlow ==
    ASSUME NEW o \in Outcomes, NEW f \in Flow,
           NEW signal \in Signals
    PROVE  LET r == Notify(o, f, signal)
           IN  /\ r \in Outcomes
               /\ r.out = o.out
               /\ r.st.ae = IF f \in Data THEN [o.st.ae EXCEPT ![f] = Notified(@, signal)] ELSE o.st.ae
               /\ Keeps(r.st, o.st, {"ae"})
<1>1. CASE f \in Data
  <2> DEFINE r == Notify(o, f, signal)
  <2>1. /\ r \in Outcomes /\ r.out = o.out
        /\ r.st.ae = [o.st.ae EXCEPT ![f] = Notified(@, signal)]
        /\ Keeps(r.st, o.st, {"ae"})
    BY <1>1, NotifyDoes
  <2> QED
    BY <1>1, <2>1
<1>2. CASE f \in Mgmt
  <2>1. Notify(o, f, signal) = o /\ f \notin Data
    BY <1>2, NotifyNobody, Ends
  <2> QED
    BY <2>1 DEF Keeps
<1> QED
  BY <1>1, <1>2, Ends

(* A status, and the signal that goes with it. *)
LEMMA StatusThenNotify ==
    ASSUME NEW o \in Outcomes, NEW f \in Flow, NEW s \in Status, Tied(o.st, f),
           NEW signal \in Signals
    PROVE  LET r == Notify(SetStatus(o, f, s), f, signal)
           IN  /\ Works(r, o, f, s, o.st.made[f], o.st.deleted[f], Notified(o.st.ae[f], signal), o.out)
               /\ SameQueues(r.st, o.st)
<1> DEFINE a == SetStatus(o, f, s)
           r == Notify(a, f, signal)
<1>1. /\ a \in Outcomes /\ a.out = o.out
      /\ a.st.status = [o.st.status EXCEPT ![f] = s]
      /\ Keeps(a.st, o.st, {"status"})
  BY SetStatusDoes
<1> HIDE DEF a
<1>2. /\ r \in Outcomes /\ r.out = a.out
      /\ r.st.ae = IF f \in Data THEN [a.st.ae EXCEPT ![f] = Notified(@, signal)] ELSE a.st.ae
      /\ Keeps(r.st, a.st, {"ae"})
  BY <1>1, NotifyFlow
<1> HIDE DEF r
<1>3. o.st \in Allocator /\ r.st \in Allocator
  BY <1>2 DEF Outcomes
<1>4. /\ r.st.status = [o.st.status EXCEPT ![f] = s]
      /\ r.st.made = o.st.made /\ r.st.deleted = o.st.deleted
      /\ r.st.efcpis = o.st.efcpis /\ r.st.efcpTable = o.st.efcpTable
      /\ r.st.ae = IF f \in Data THEN [o.st.ae EXCEPT ![f] = Notified(o.st.ae[f], signal)] ELSE o.st.ae
      /\ SameQueues(r.st, o.st)
  BY <1>1, <1>2 DEF Keeps, SameQueues
<1>5. Effect(r.st, o.st, f, s, o.st.made[f], o.st.deleted[f], Notified(o.st.ae[f], signal))
  BY ONLY <1>3, <1>4, f \in Flow, Tied(o.st, f), EffectOnStatus
<1> QED
  BY <1>1, <1>2, <1>4, <1>5 DEF Works, r, a

(* The answer to a data flow. *)
LEMMA Confirmed ==
    ASSUME NEW o \in Outcomes, NEW f \in Flow, Tied(o.st, f)
    PROVE  LET a == SetStatus([o EXCEPT !.st.knowsPeer[f] = TRUE], f, "TRANSFER")
               r == ReceiveCreateResponsePositive(o, f)
           IN  /\ f \in Data =>
                    /\ Works(r, o, f, "TRANSFER", o.st.made[f], o.st.deleted[f],
                             AllocationPositive(o.st.ae[f]), o.out)
                    /\ SameQueues(r.st, o.st)
               /\ f \in Mgmt =>
                    /\ Works(a, o, f, "TRANSFER", o.st.made[f], o.st.deleted[f], o.st.ae[f], o.out)
                    /\ SameQueues(a.st, o.st)
                    /\ r = AllocFinMgmt(a)
<1> DEFINE X == [o.st.knowsPeer EXCEPT ![f] = TRUE]
           t == [o.st EXCEPT !.knowsPeer = X]
           q == [o EXCEPT !.st = t]
           a == SetStatus(q, f, "TRANSFER")
           r == ReceiveCreateResponsePositive(o, f)
<1>1. o.st \in Allocator
  BY DEF Outcomes
<1>2. [o EXCEPT !.st.knowsPeer[f] = TRUE] = q
  BY <1>1 DEF Outcomes, Allocator
<1>3. X \in [Flow -> BOOLEAN]
  BY <1>1, AllocatorFields
<1>4. t \in Allocator /\ Keeps(t, o.st, {"knowsPeer"})
  <2> HIDE DEF X
  <2>1. t \in Allocator
    BY <1>1, <1>3, FieldUpdates
  <2> QED
    BY <1>1, <2>1 DEF Allocator, Keeps
<1> HIDE DEF t
<1>5. q \in Outcomes /\ q.st = t /\ q.out = o.out
  BY <1>4, NewState
<1>6. r = IF f \in Mgmt THEN AllocFinMgmt(a) ELSE Notify(a, f, "AllocateResPosi")
  BY <1>2 DEF ReceiveCreateResponsePositive
<1>7. Keeps(q.st, o.st, {"knowsPeer"})
  BY <1>4, <1>5
<1> HIDE DEF q
<1>8. Tied(q.st, f)
  BY <1>7 DEF Tied, Keeps
<1>9. CASE f \in Data
  <2>1. r = Notify(a, f, "AllocateResPosi") /\ f \notin Mgmt
    BY <1>6, <1>9, Ends
  <2>2. LET z == Notify(SetStatus(q, f, "TRANSFER"), f, "AllocateResPosi")
        IN /\ Works(z, q, f, "TRANSFER", q.st.made[f], q.st.deleted[f],
                    Notified(q.st.ae[f], "AllocateResPosi"), q.out)
           /\ SameQueues(z.st, q.st)
    BY <1>5, <1>8, StatusThenNotify DEF Status, Signals
  <2> HIDE DEF r
  <2>3. r \in Outcomes /\ r.out = o.out
    BY <2>1, <2>2, <1>5 DEF Works
  <2>4. Effect(r.st, q.st, f, "TRANSFER", q.st.made[f], q.st.deleted[f],
               AllocationPositive(q.st.ae[f]))
    BY <2>1, <2>2 DEF Works, Notified
  <2>5. Effect(r.st, o.st, f, "TRANSFER", o.st.made[f], o.st.deleted[f],
               AllocationPositive(o.st.ae[f]))
    BY <2>4, <1>7 DEF Effect, Keeps
  <2>6. SameQueues(r.st, o.st)
    BY <2>1, <2>2, <1>7 DEF SameQueues, Keeps
  <2> QED
    BY <2>1, <2>3, <2>5, <2>6 DEF Works, r
<1>10. CASE f \in Mgmt
  <2>1. r = AllocFinMgmt(a) /\ f \notin Data
    BY <1>6, <1>10, Ends
  <2>2. /\ a \in Outcomes /\ a.out = o.out
        /\ a.st.status = [q.st.status EXCEPT ![f] = "TRANSFER"]
        /\ Keeps(a.st, q.st, {"status"})
    BY <1>5, SetStatusDoes DEF Status
  <2>3. a = SetStatus([o EXCEPT !.st.knowsPeer[f] = TRUE], f, "TRANSFER")
    BY <1>2
  <2> HIDE DEF a, r
  <2>4. a.st \in Allocator
    BY <2>2 DEF Outcomes
  <2>5. /\ a.st.status = [o.st.status EXCEPT ![f] = "TRANSFER"]
        /\ a.st.made = o.st.made /\ a.st.deleted = o.st.deleted
        /\ a.st.efcpis = o.st.efcpis /\ a.st.efcpTable = o.st.efcpTable
        /\ a.st.ae = IF f \in Data THEN [o.st.ae EXCEPT ![f] = o.st.ae[f]] ELSE o.st.ae
        /\ SameQueues(a.st, o.st)
    BY <2>1, <2>2, <1>7 DEF Keeps, SameQueues
  <2>6. Effect(a.st, o.st, f, "TRANSFER", o.st.made[f], o.st.deleted[f], o.st.ae[f])
    BY ONLY <1>1, <2>4, <2>5, f \in Flow, Tied(o.st, f), EffectOnStatus
  <2> QED
    BY <2>1, <2>2, <2>3, <2>5, <2>6 DEF Works, r
<1> QED
  BY <1>9, <1>10, Ends

(* A refusal: the request is sent again, or the flow is given up. *)
LEMMA Denied ==
    ASSUME NEW o \in Outcomes, NEW f \in Flow, Tied(o.st, f), NEW s, o.st.status[f] = s
    PROVE  LET r == ReceiveCreateResponseNegative(o, f)
           IN  /\ SameQueues(r.st, o.st)
               /\ \/ Works(r, o, f, s, o.st.made[f], o.st.deleted[f], o.st.ae[f],
                           Append(o.out, Msg("M_CREATE", f)))
                  \/ Works(r, o, f, "ALLOC_NEGA", o.st.made[f], o.st.deleted[f],
                           AllocationNegative(o.st.ae[f]), o.out)
<1> DEFINE X == [o.st.retries EXCEPT ![f] = @ + 1]
           t == [o.st EXCEPT !.retries = X]
           q == [o EXCEPT !.st = t]
           a == Send(q, "M_CREATE", f)
           b == Notify(SetStatus(q, f, "ALLOC_NEGA"), f, "AllocateResNega")
           r == ReceiveCreateResponseNegative(o, f)
<1>1. o.st \in Allocator
  BY DEF Outcomes
<1>2. [o EXCEPT !.st.retries[f] = @ + 1] = q
  BY <1>1 DEF Outcomes, Allocator
<1>3. X \in [Flow -> Nat]
  BY <1>1, AllocatorFields
<1>4. t \in Allocator /\ Keeps(t, o.st, {"retries"})
  <2> HIDE DEF X
  <2>1. t \in Allocator
    BY <1>1, <1>3, FieldUpdates
  <2> QED
    BY <1>1, <2>1 DEF Allocator, Keeps
<1> HIDE DEF t
<1>5. q \in Outcomes /\ q.st = t /\ q.out = o.out
  BY <1>4, NewState
<1>6. r = a \/ r = b
  BY <1>2 DEF ReceiveCreateResponseNegative
<1>7. Keeps(q.st, o.st, {"retries"})
  BY <1>4, <1>5
<1> HIDE DEF q
<1>8. Tied(q.st, f)
  BY <1>7 DEF Tied, Keeps
<1>9. CASE r = a
  <2>1. r \in Outcomes /\ r.st = q.st /\ r.out = Append(o.out, Msg("M_CREATE", f))
    BY <1>5, <1>9, SendDoes DEF MessageTypes, Msg
  <2> HIDE DEF r
  <2>2. r.st \in Allocator
    BY <2>1 DEF Outcomes
  <2>3. /\ r.st.made = o.st.made /\ r.st.deleted = o.st.deleted
        /\ r.st.efcpis = o.st.efcpis /\ r.st.efcpTable = o.st.efcpTable
        /\ r.st.ae = o.st.ae /\ r.st.status = o.st.status
        /\ SameQueues(r.st, o.st)
    BY <1>7, <2>1 DEF Keeps, SameQueues
  <2>4. /\ o.st.status = [o.st.status EXCEPT ![f] = s]
        /\ f \in Data => o.st.ae = [o.st.ae EXCEPT ![f] = @]
    BY <1>1, AllocatorFields
  <2>5. /\ r.st.status = [o.st.status EXCEPT ![f] = s]
        /\ r.st.ae = IF f \in Data THEN [o.st.ae EXCEPT ![f] = o.st.ae[f]] ELSE o.st.ae
    BY <2>3, <2>4
  <2>6. Effect(r.st, o.st, f, s, o.st.made[f], o.st.deleted[f], o.st.ae[f])
    BY ONLY <1>1, <2>2, <2>3, <2>5, f \in Flow, Tied(o.st, f), EffectOnStatus
  <2> QED
    BY <2>1, <2>3, <2>6 DEF Works, r
<1>10. CASE r = b
  <2> DEFINE z == Notify(SetStatus(q, f, "ALLOC_NEGA"), f, "AllocateResNega")
  <2>1. /\ Works(z, q, f, "ALLOC_NEGA", q.st.made[f], q.st.deleted[f],
                 Notified(q.st.ae[f], "AllocateResNega"), q.out)
        /\ SameQueues(z.st, q.st)
    BY <1>5, <1>8, StatusThenNotify DEF Status, Signals
  <2>2. r = z
    BY <1>10
  <2> HIDE DEF r, z
  <2>3. r \in Outcomes /\ r.out = o.out
    BY <2>1, <2>2, <1>5 DEF Works
  <2>4. Effect(r.st, q.st, f, "ALLOC_NEGA", q.st.made[f], q.st.deleted[f],
               AllocationNegative(q.st.ae[f]))
    BY <2>1, <2>2 DEF Works, Notified
  <2>5. Effect(r.st, o.st, f, "ALLOC_NEGA", o.st.made[f], o.st.deleted[f],
               AllocationNegative(o.st.ae[f]))
    BY <2>4, <1>7 DEF Effect, Keeps
  <2>6. SameQueues(r.st, o.st)
    BY <2>1, <2>2, <1>7 DEF SameQueues, Keeps
  <2> QED
    BY <2>3, <2>5, <2>6 DEF Works, r
<1> QED
  BY <1>6, <1>9, <1>10

(* A flow in transfer is bound once. *)
BoundOnce(st, f) ==
    /\ st.made[f] = 1 /\ st.deleted[f] = 0
    /\ f \in st.efcpTable

(* Status, bindings and message of an end that stops, in the order of      *)
(* either handler.                                                         *)
Stops(t, st, f, s, e) ==
    /\ t.status = [st.status EXCEPT ![f] = s]
    /\ t.deleted = [st.deleted EXCEPT ![f] = @ + 1]
    /\ t.efcpis = [st.efcpis EXCEPT ![f] = 0]
    /\ t.ae = IF f \in Data THEN [st.ae EXCEPT ![f] = e] ELSE st.ae
    /\ Keeps(t, st, {"status", "deleted", "efcpis", "ae"})

LEMMA Stopped ==
    ASSUME NEW o \in Outcomes, NEW f \in Flow, NEW s, NEW e, BoundOnce(o.st, f),
           NEW r \in Outcomes, Stops(r.st, o.st, f, s, e)
    PROVE  Works(r, o, f, s, 1, 1, e, r.out) /\ SameQueues(r.st, o.st)
<1> USE DEF Stops
<1>1. o.st \in Allocator /\ r.st \in Allocator
  BY DEF Outcomes
<1>2. r.st.made = o.st.made /\ r.st.efcpTable = o.st.efcpTable /\ SameQueues(r.st, o.st)
  BY DEF Keeps, SameQueues
<1>3. o.st.made = [o.st.made EXCEPT ![f] = 1]
  BY <1>1, AllocatorFields DEF BoundOnce
<1>4. o.st.efcpTable = o.st.efcpTable \union {f}
  BY DEF BoundOnce
<1>5. [o.st.deleted EXCEPT ![f] = @ + 1] = [o.st.deleted EXCEPT ![f] = 1]
  BY DEF BoundOnce
<1>6. Effect(r.st, o.st, f, s, 1, 1, e)
  BY <1>1, <1>2, <1>3, <1>4, <1>5 DEF Effect
<1> QED
  BY <1>2, <1>6 DEF Works

LEMMA Closes ==
    ASSUME NEW o \in Outcomes, NEW f \in Flow, BoundOnce(o.st, f)
    PROVE  LET r == ReceiveDeallocateRequest(o, f)
           IN  /\ Works(r, o, f, "DEALLOC_PEND", 1, 1, o.st.ae[f], Append(o.out, Msg("M_DELETE", f)))
               /\ SameQueues(r.st, o.st)
<1> DEFINE a == SetStatus(o, f, "DEALLOC_PEND")
           b == Unbind(a, f)
           r == Send(b, "M_DELETE", f)
<1>1. ReceiveDeallocateRequest(o, f) = r
  BY DEF ReceiveDeallocateRequest
<1>2. /\ a \in Outcomes /\ a.out = o.out
      /\ a.st.status = [o.st.status EXCEPT ![f] = "DEALLOC_PEND"]
      /\ Keeps(a.st, o.st, {"status"})
  BY SetStatusDoes DEF Status
<1> HIDE DEF a
<1>3. /\ b \in Outcomes /\ b.out = a.out
      /\ b.st.deleted = [a.st.deleted EXCEPT ![f] = @ + 1]
      /\ f \in a.st.efcpTable => b.st.efcpis = [a.st.efcpis EXCEPT ![f] = 0]
      /\ Keeps(b.st, a.st, {"deleted", "efcpis"})
  BY <1>2, UnbindDoes
<1> HIDE DEF b
<1>4. r \in Outcomes /\ r.st = b.st /\ r.out = Append(o.out, Msg("M_DELETE", f))
  BY <1>2, <1>3, SendDoes DEF MessageTypes, Msg
<1> HIDE DEF r
<1>5. o.st \in Allocator
  BY DEF Outcomes
<1>6. f \in Data => o.st.ae = [o.st.ae EXCEPT ![f] = @]
  BY <1>5, AllocatorFields
<1>7. /\ r.st.status = [o.st.status EXCEPT ![f] = "DEALLOC_PEND"]
      /\ r.st.deleted = [o.st.deleted EXCEPT ![f] = @ + 1]
      /\ r.st.efcpis = [o.st.efcpis EXCEPT ![f] = 0]
      /\ r.st.ae = IF f \in Data THEN [o.st.ae EXCEPT ![f] = o.st.ae[f]] ELSE o.st.ae
      /\ Keeps(r.st, o.st, {"status", "deleted", "efcpis", "ae"})
  BY <1>2, <1>3, <1>4, <1>6 DEF Keeps, BoundOnce
<1>8. Stops(r.st, o.st, f, "DEALLOC_PEND", o.st.ae[f])
  BY <1>7 DEF Stops
<1>9. Works(r, o, f, "DEALLOC_PEND", 1, 1, o.st.ae[f], r.out) /\ SameQueues(r.st, o.st)
  BY <1>4, <1>8, Stopped
<1> QED
  BY <1>1, <1>4, <1>9

LEMMA FollowsSuit ==
    ASSUME NEW o \in Outcomes, NEW f \in Flow, BoundOnce(o.st, f), o.st.status[f] = "TRANSFER"
    PROVE  LET r == ReceiveDelete(o, f)
           IN  /\ Works(r, o, f, "DEALLOCATED", 1, 1, Deallocation(o.st.ae[f]),
                        Append(o.out, Msg("M_DELETE_R", f)))
               /\ SameQueues(r.st, o.st)
<1> DEFINE a == Notify(o, f, "DeallocateReqRes")
           b == Unbind(a, f)
           c == Send(b, "M_DELETE_R", f)
           r == SetStatus(c, f, "DEALLOCATED")
<1>1. ReceiveDelete(o, f) = r
  BY DEF ReceiveDelete
<1>2. /\ a \in Outcomes /\ a.out = o.out
      /\ a.st.ae = IF f \in Data THEN [o.st.ae EXCEPT ![f] = Notified(@, "DeallocateReqRes")]
                   ELSE o.st.ae
      /\ Keeps(a.st, o.st, {"ae"})
  BY NotifyFlow DEF Signals
<1> HIDE DEF a
<1>3. /\ b \in Outcomes /\ b.out = a.out
      /\ b.st.deleted = [a.st.deleted EXCEPT ![f] = @ + 1]
      /\ f \in a.st.efcpTable => b.st.efcpis = [a.st.efcpis EXCEPT ![f] = 0]
      /\ Keeps(b.st, a.st, {"deleted", "efcpis"})
  BY <1>2, UnbindDoes
<1> HIDE DEF b
<1>4. c \in Outcomes /\ c.st = b.st /\ c.out = Append(o.out, Msg("M_DELETE_R", f))
  BY <1>2, <1>3, SendDoes DEF MessageTypes, Msg
<1> HIDE DEF c
<1>5. /\ r \in Outcomes /\ r.out = c.out
      /\ r.st.status = [c.st.status EXCEPT ![f] = "DEALLOCATED"]
      /\ Keeps(r.st, c.st, {"status"})
  BY <1>4, SetStatusDoes DEF Status
<1> HIDE DEF r
<1>6. Notified(o.st.ae[f], "DeallocateReqRes") = Deallocation(o.st.ae[f])
  BY DEF Notified
<1>7. /\ r.st.status = [o.st.status EXCEPT ![f] = "DEALLOCATED"]
      /\ r.st.deleted = [o.st.deleted EXCEPT ![f] = @ + 1]
      /\ Keeps(r.st, o.st, {"status", "deleted", "efcpis", "ae"})
  <2>1. c.st.status = o.st.status /\ a.st.deleted = o.st.deleted /\ r.st.deleted = b.st.deleted
    BY <1>2, <1>3, <1>4, <1>5 DEF Keeps
  <2>2. r.st.status = [o.st.status EXCEPT ![f] = "DEALLOCATED"]
    BY <1>5, <2>1
  <2>3. r.st.deleted = [o.st.deleted EXCEPT ![f] = @ + 1]
    BY <1>3, <2>1
  <2>4. Keeps(a.st, o.st, {"ae"}) /\ Keeps(b.st, a.st, {"deleted", "efcpis"}) /\ Keeps(r.st, b.st, {"status"})
    BY <1>2, <1>3, <1>4, <1>5
  <2>5. Keeps(r.st, o.st, {"status", "deleted", "efcpis", "ae"})
    BY <2>4 DEF Keeps
  <2> QED
    BY <2>2, <2>3, <2>5
<1>8. f \in a.st.efcpTable /\ a.st.efcpis = o.st.efcpis
  BY <1>2 DEF Keeps, BoundOnce
<1>9. r.st.efcpis = [o.st.efcpis EXCEPT ![f] = 0]
  BY <1>3, <1>4, <1>5, <1>8 DEF Keeps
<1>10. r.st.ae = IF f \in Data THEN [o.st.ae EXCEPT ![f] = Deallocation(o.st.ae[f])] ELSE o.st.ae
  BY <1>2, <1>3, <1>4, <1>5, <1>6 DEF Keeps
<1>11. Stops(r.st, o.st, f, "DEALLOCATED", Deallocation(o.st.ae[f]))
  BY <1>7, <1>9, <1>10 DEF Stops
<1>12. Works(r, o, f, "DEALLOCATED", 1, 1, Deallocation(o.st.ae[f]), r.out) /\ SameQueues(r.st, o.st)
  BY <1>5, <1>11, Stopped
<1>13. r.out = Append(o.out, Msg("M_DELETE_R", f))
  BY <1>4, <1>5
<1> QED
  BY <1>1, <1>12, <1>13

LEMMA HearsOfEnd ==
    ASSUME NEW o \in Outcomes, NEW f \in Flow, Tied(o.st, f), o.st.status[f] = "DEALLOC_PEND"
    PROVE  LET r == ReceiveDeleteResponse(o, f)
           IN  /\ Works(r, o, f, "DEALLOCATED", o.st.made[f], o.st.deleted[f],
                        Deallocation(o.st.ae[f]), o.out)
               /\ SameQueues(r.st, o.st)
<1> DEFINE r == Notify(SetStatus(o, f, "DEALLOCATED"), f, "DeallocateReqRes")
<1>1. ReceiveDeleteResponse(o, f) = r
  BY DEF ReceiveDeleteResponse
<1>2. /\ Works(r, o, f, "DEALLOCATED", o.st.made[f], o.st.deleted[f],
               Notified(o.st.ae[f], "DeallocateReqRes"), o.out)
      /\ SameQueues(r.st, o.st)
  BY StatusThenNotify DEF Status, Signals
<1>3. Notified(o.st.ae[f], "DeallocateReqRes") = Deallocation(o.st.ae[f])
  BY DEF Notified
<1> QED
  BY <1>1, <1>2, <1>3

-----------------------------------------------------------------------------
(* Messages under way. *)
Has(q, type, f) == \E i \in 1..Len(q) : q[i] = Msg(type, f)

Answers == {"M_CREATE_R+", "M_CREATE_R-"}

OneAnswer(q, f) ==
    \A i, j \in 1..Len(q) :
        q[i].flow = f /\ q[j].flow = f /\ q[i].type \in Answers /\ q[j].type \in Answers => i = j

(* r is q without its k-th message. *)
Without(r, q, k) ==
    /\ r \in Seq(Message)
    /\ Len(r) = Len(q) - 1
    /\ \A i \in 1..Len(r) : r[i] = q[IF i < k THEN i ELSE i + 1]

LEMMA TailIsWithout ==
    ASSUME NEW q \in Seq(Message), q # <<>>
    PROVE  Without(Tail(q), q, 1)
  BY DEF Without

LEMMA RemoveAtIsWithout ==
    ASSUME NEW q \in Seq(Message), NEW k \in 1..Len(q)
    PROVE  Without(RemoveAt(q, k), q, k)
<1> DEFINE a == SubSeq(q, 1, k - 1)
           b == SubSeq(q, k + 1, Len(q))
<1>1. a \in Seq(Message) /\ Len(a) = k - 1 /\ \A i \in 1..(k - 1) : a[i] = q[i]
  OBVIOUS
<1>2. b \in Seq(Message) /\ Len(b) = Len(q) - k /\ \A i \in 1..(Len(q) - k) : b[i] = q[k + i]
  OBVIOUS
<1>3. RemoveAt(q, k) = a \o b
  BY DEF RemoveAt
<1> HIDE DEF a, b
<1>4. Len(q) \in Nat
  OBVIOUS
<1>5. a \o b \in Seq(Message) /\ Len(a \o b) = Len(q) - 1
  <2>1. a \o b \in Seq(Message) /\ Len(a \o b) = Len(a) + Len(b)
    <3>1. a \in Seq(Message) /\ b \in Seq(Message)
      BY <1>1, <1>2
    <3> QED
      BY ONLY <3>1
  <2>2. Len(a) = k - 1 /\ Len(b) = Len(q) - k
    BY <1>1, <1>2
  <2> QED
    BY ONLY <2>1, <2>2, <1>4, k \in 1..Len(q)
<1>6. ASSUME NEW i \in 1..Len(a \o b) PROVE (a \o b)[i] = q[IF i < k THEN i ELSE i + 1]
  <2>1. CASE i < k
    BY <1>1, <1>2, <1>5, <2>1
  <2>2. CASE i >= k
    <3>1. (a \o b)[i] = b[i - (k - 1)] /\ i - (k - 1) \in 1..(Len(q) - k)
      BY <1>1, <1>2, <1>4, <1>5, <2>2
    <3> QED
      BY <1>2, <1>4, <2>2, <3>1
  <2> QED
    BY <2>1, <2>2, <1>4, <1>5
<1> QED
  BY <1>3, <1>5, <1>6 DEF Without

LEMMA WithoutHas ==
    ASSUME NEW q \in Seq(Message), NEW k \in 1..Len(q), NEW r, Without(r, q, k), NEW f
    PROVE  /\ \A type : Has(r, type, f) => Has(q, type, f)
           /\ OneAnswer(q, f) => OneAnswer(r, f)
           /\ OneAnswer(q, f) /\ q[k].flow = f /\ q[k].type \in Answers =>
                 \A type \in Answers : ~Has(r, type, f)
<1> DEFINE at(i) == IF i < k THEN i ELSE i + 1
<1>1. \A i \in 1..Len(r) : at(i) \in 1..Len(q) /\ r[i] = q[at(i)] /\ at(i) # k
  BY DEF Without
<1>2. \A i, j \in 1..Len(r) : at(i) = at(j) => i = j
  BY DEF Without
<1> HIDE DEF at
<1>3. \A type : Has(r, type, f) => Has(q, type, f)
  BY <1>1 DEF Has
<1>4. OneAnswer(q, f) => OneAnswer(r, f)
  BY <1>1, <1>2 DEF OneAnswer
<1>5. ASSUME OneAnswer(q, f), q[k].flow = f, q[k].type \in Answers, NEW type \in Answers,
             Has(r, type, f)
      PROVE  FALSE
  <2>1. PICK i \in 1..Len(r) : r[i] = Msg(type, f)
    BY <1>5 DEF Has
  <2>2. q[at(i)].flow = f /\ q[at(i)].type \in Answers
    BY <1>1, <2>1 DEF Msg
  <2> QED
    BY <1>1, <1>5, <2>2 DEF OneAnswer
<1> QED
  BY <1>3, <1>4, <1>5

(* r has no messages about f that q had not. *)
Fewer(r, q, f) ==
    /\ \A type \in MessageTypes : Has(r, type, f) => Has(q, type, f)
    /\ OneAnswer(q, f) => OneAnswer(r, f)

(* r is q and a message more. *)
Gains(r, q, type, f) ==
    /\ \A t, g : Has(r, t, g) <=> Has(q, t, g) \/ (t = type /\ g = f)
    /\ \A g : OneAnswer(q, g) /\ (g # f \/ type \notin Answers \/ \A t \in Answers : ~Has(q, t, g)) =>
                 OneAnswer(r, g)

LEMMA AppendGains ==
    ASSUME NEW q \in Seq(Message), NEW type \in MessageTypes, NEW f \in Flow, NEW r,
           r = Append(q, Msg(type, f))
    PROVE  r \in Seq(Message) /\ Gains(r, q, type, f) /\ \A g \in Flow \ {f} : Fewer(r, q, g)
<1>1. Msg(type, f) \in Message
  BY DEF Msg, Message
<1>2. /\ r \in Seq(Message) /\ Len(r) = Len(q) + 1
      /\ \A i \in 1..Len(q) : r[i] = q[i]
      /\ r[Len(q) + 1] = Msg(type, f)
  BY <1>1
<1>3. Len(q) \in Nat
  OBVIOUS
<1>4. \A t, g : Msg(type, f) = Msg(t, g) <=> t = type /\ g = f
  BY DEF Msg
<1>5. ASSUME NEW t, NEW g PROVE Has(r, t, g) <=> Has(q, t, g) \/ (t = type /\ g = f)
  <2>1. ASSUME Has(q, t, g) PROVE Has(r, t, g)
    BY <1>2, <1>3, <2>1 DEF Has
  <2>2. ASSUME t = type, g = f PROVE Has(r, t, g)
    <3>1. Len(q) + 1 \in 1..Len(r)
      BY <1>2, <1>3
    <3> QED
      BY <1>2, <2>2, <3>1 DEF Has
  <2>3. ASSUME Has(r, t, g), ~Has(q, t, g) PROVE t = type /\ g = f
    <3>1. PICK i \in 1..Len(r) : r[i] = Msg(t, g)
      BY <2>3 DEF Has
    <3>2. i \notin 1..Len(q)
      BY <1>2, <2>3, <3>1 DEF Has
    <3>3. i = Len(q) + 1
      BY <1>2, <1>3, <3>2
    <3> QED
      BY <1>2, <1>4, <3>1, <3>3
  <2> QED
    BY <2>1, <2>2, <2>3
<1>6. ASSUME NEW g, OneAnswer(q, g),
             g # f \/ type \notin Answers \/ \A t \in Answers : ~Has(q, t, g)
      PROVE  OneAnswer(r, g)
  <2>1. ASSUME NEW i \in 1..Len(q), q[i].flow = g, q[i].type \in Answers
        PROVE  Has(q, q[i].type, g)
    <3>1. q[i] \in Message
      OBVIOUS
    <3>2. q[i] = Msg(q[i].type, g)
      BY <2>1, <3>1 DEF Message, Msg
    <3> QED
      BY <3>2 DEF Has
  <2>2. Msg(type, f).flow = f /\ Msg(type, f).type = type
    BY DEF Msg
  <2>3. SUFFICES ASSUME NEW i \in 1..Len(r), NEW j \in 1..Len(r), r[i].flow = g, r[j].flow = g,
                        r[i].type \in Answers, r[j].type \in Answers
                 PROVE  i = j
    BY DEF OneAnswer
  <2>4. ASSUME NEW x \in 1..Len(r) PROVE x \in 1..Len(q) \/ x = Len(q) + 1
    BY <1>2, <1>3
  <2>5. CASE i \in 1..Len(q) /\ j \in 1..Len(q)
    BY <1>2, <1>6, <2>3, <2>5 DEF OneAnswer
  <2>6. CASE i = Len(q) + 1 /\ j \in 1..Len(q)
    BY <1>2, <1>6, <2>1, <2>2, <2>3, <2>6
  <2>7. CASE j = Len(q) + 1 /\ i \in 1..Len(q)
    BY <1>2, <1>6, <2>1, <2>2, <2>3, <2>7
  <2> QED
    BY <2>4, <2>5, <2>6, <2>7
<1>7. Gains(r, q, type, f)
  BY <1>5, <1>6 DEF Gains
<1>8. \A g \in Flow \ {f} : Fewer(r, q, g)
  BY <1>5, <1>6 DEF Fewer
<1> QED
  BY <1>2, <1>7, <1>8

-----------------------------------------------------------------------------
(* The inductive invariant. *)

(* A flow at one end, p: its status, the bindings made and deleted, its    *)
(* application.                                                            *)
Fits(p, f, s, made, deleted, e) ==
    /\ made \in {0, 1}
    /\ s \in {"TRANSFER", "DEALLOC_PEND", "DEALLOCATED"} => made = 1
    /\ s = "none" => made = 0
    /\ deleted = IF s \in {"DEALLOC_PEND", "DEALLOCATED"} THEN 1 ELSE 0
    /\ p = Callee(f) => s # "ALLOC_PEND"
    /\ f \in Mgmt => s \in {"none", "ALLOC_PEND", "TRANSFER"}
    /\ f \in Data => Follows(e, s, f)

Local(st, p, f) ==
    /\ Tied(st, f)
    /\ Fits(p, f, st.status[f], st.made[f], st.deleted[f], st.ae[f])

(* A flow at both ends: its status at caller and callee, the bindings made *)
(* at the caller, the messages under way to the caller and to the callee.  *)
Joint(f, sc, sd, made, qc, qd) ==
    /\ made = 0 => sd = "none" /\ \A type \in MessageTypes : ~Has(qc, type, f) /\ ~Has(qd, type, f)
    /\ sd = "none" /\ made = 1 => sc = "ALLOC_PEND"
    /\ ~Has(qc, "M_CREATE", f)
    /\ ~Has(qd, "M_CREATE_R+", f) /\ ~Has(qd, "M_CREATE_R-", f)
    /\ Has(qc, "M_CREATE_R+", f) => sc = "ALLOC_PEND" /\ sd \in {"TRANSFER", "DEALLOC_PEND"}
    /\ Has(qc, "M_CREATE_R-", f) => sc = "ALLOC_PEND" /\ sd = "ALLOC_NEGA"
    /\ OneAnswer(qc, f)
    /\ Has(qc, "M_DELETE", f) => sd = "DEALLOC_PEND" \/ (sc = "DEALLOCATED" /\ sd = "DEALLOCATED")
    /\ Has(qd, "M_DELETE", f) => sc = "DEALLOC_PEND" \/ (sc = "DEALLOCATED" /\ sd = "DEALLOCATED")
    /\ Has(qc, "M_DELETE_R", f) => sd = "DEALLOCATED"
    /\ Has(qd, "M_DELETE_R", f) => sc = "DEALLOCATED"

(* The table of p has the flows with a status, once, and the management    *)
(* flow of p before the other one.                                         *)
TableOK(st, p) ==
    /\ IsInjective(st.table)
    /\ ToSet(st.table) = {f \in Flow : st.status[f] # "none"}
    /\ \A i \in DOMAIN st.table :
          st.table[i] = MgmtOf(p) => \A j \in 1..(i - 1) : st.table[j] \notin Mgmt

(* Only flows not started wait for the management flow of p, and they are  *)
(* woken only when it is up.                                               *)
PendingOK(st, p) ==
    /\ st.status[MgmtOf(p)] = "ALLOC_PEND" => \A f \in DataOf(p) : st.made[f] = 0
    /\ IsInjective(st.pendingFlows)
    /\ \A g \in ToSet(st.pendingFlows) :
          g \in DataOf(p) /\ st.status[g] = "ALLOC_PEND" /\ st.made[g] = 0
    /\ st.wakeups > 0 \/ st.pendingFlows # <<>> => st.status[MgmtOf(p)] = "TRANSFER"

JointIn(F, N, f) ==
    Joint(f, F[Caller(f)].status[f], F[Callee(f)].status[f], F[Caller(f)].made[f],
          N[Caller(f)], N[Callee(f)])

Base(F, N) ==
    /\ F \in [Ipcps -> Allocator]
    /\ N \in [Ipcps -> Seq(Message)]
    /\ \A p \in Ipcps : TableOK(F[p], p) /\ PendingOK(F[p], p)
    /\ \A f \in Flow : (\A p \in Ipcps : Local(F[p], p, f)) /\ JointIn(F, N, f)

Up(st) == \E m \in Mgmt : st.status[m] = "TRANSFER"

(* Management comes first: for the flows at an allocator, and, when no     *)
(* message was lost, at both ends of a management flow and for the         *)
(* requests under way.                                                     *)
Managed(F, N, L) ==
    /\ \A p \in Ipcps : \A f \in Data :
          F[p].made[f] > 0 => Up(F[p]) \/ (p = Callee(f) /\ L > 0)
    /\ L = 0 => \A m \in Mgmt : F[Callee(m)].status[m] = "TRANSFER" =>
          F[Caller(m)].status[m] = "TRANSFER" \/ Has(N[Caller(m)], "M_CREATE_R+", m)
    /\ L = 0 => \A d \in Ipcps : \A j \in 1..Len(N[d]) :
          N[d][j].type = "M_CREATE" /\ N[d][j].flow \in Data =>
            Up(F[d]) \/ \E i \in 1..(j - 1) : N[d][i] = Msg("M_CREATE_R+", MgmtOf(d))

IInv == Base(fa, net) /\ Managed(fa, net, lost) /\ lost \in 0..MaxLoss

-----------------------------------------------------------------------------
(* How the two ends of a flow move together. *)

LEMMA JointKept ==
    ASSUME NEW f, NEW sc, NEW sd, NEW made, NEW qc, NEW qd, NEW qc2, NEW qd2,
           Joint(f, sc, sd, made, qc, qd), Fewer(qc2, qc, f), Fewer(qd2, qd, f)
    PROVE  Joint(f, sc, sd, made, qc2, qd2)
  BY DEF Joint, Fewer, MessageTypes

(* Before the callee is asked nothing depends on the caller's status. *)
LEMMA JointUnasked ==
    ASSUME NEW f, NEW sc, NEW sd, NEW qc, NEW qd, Joint(f, sc, sd, 0, qc, qd), NEW s
    PROVE  Joint(f, s, sd, 0, qc, qd)
  BY DEF Joint, MessageTypes

LEMMA JointAsk ==
    ASSUME NEW f, NEW sd, NEW made, NEW qc, NEW qd, NEW r,
           Joint(f, "ALLOC_PEND", sd, made, qc, qd), Gains(r, qd, "M_CREATE", f)
    PROVE  Joint(f, "ALLOC_PEND", sd, 1, qc, r)
  BY DEF Joint, Gains, MessageTypes

LEMMA JointAnswer ==
    ASSUME NEW f, NEW sc, NEW qc, NEW qd, NEW r, NEW type, NEW s,
           Joint(f, sc, "none", 1, qc, qd), Gains(r, qc, type, f),
           \/ type = "M_CREATE_R+" /\ s = "TRANSFER"
           \/ type = "M_CREATE_R-" /\ s = "ALLOC_NEGA"
    PROVE  Joint(f, sc, s, 1, r, qd)
<1>1. \A t \in Answers : ~Has(qc, t, f)
  BY DEF Joint, Answers
<1>2. OneAnswer(r, f)
  BY <1>1 DEF Joint, Gains
<1> QED
  BY <1>1, <1>2 DEF Joint, Answers, Gains

(* The caller has its answer, and no other is under way. *)
LEMMA JointAnswered ==
    ASSUME NEW f, NEW sd, NEW qc, NEW qd, Joint(f, "ALLOC_PEND", sd, 1, qc, qd), sd # "none",
           \A type \in Answers : ~Has(qc, type, f), NEW s
    PROVE  Joint(f, s, sd, 1, qc, qd)
  BY DEF Joint, Answers

LEMMA JointCloseCaller ==
    ASSUME NEW f, NEW sd, NEW qc, NEW qd, NEW r,
           Joint(f, "TRANSFER", sd, 1, qc, qd), Gains(r, qd, "M_DELETE", f)
    PROVE  Joint(f, "DEALLOC_PEND", sd, 1, qc, r)
  BY DEF Joint, Gains

LEMMA JointCloseCallee ==
    ASSUME NEW f, NEW sc, NEW made, made # 0, NEW qc, NEW qd, NEW r,
           Joint(f, sc, "TRANSFER", made, qc, qd), Gains(r, qc, "M_DELETE", f)
    PROVE  Joint(f, sc, "DEALLOC_PEND", made, r, qd)
  BY DEF Joint, Gains, Answers

LEMMA JointFollowCaller ==
    ASSUME NEW f, NEW sd, NEW qc, NEW qd, NEW r, sd = "DEALLOC_PEND",
           Joint(f, "TRANSFER", sd, 1, qc, qd), Gains(r, qd, "M_DELETE_R", f)
    PROVE  Joint(f, "DEALLOCATED", sd, 1, qc, r)
  BY DEF Joint, Gains

LEMMA JointFollowCallee ==
    ASSUME NEW f, NEW made, made # 0, NEW qc, NEW qd, NEW r,
           Joint(f, "DEALLOC_PEND", "TRANSFER", made, qc, qd), Gains(r, qc, "M_DELETE_R", f)
    PROVE  Joint(f, "DEALLOC_PEND", "DEALLOCATED", made, r, qd)
  BY DEF Joint, Gains, Answers

LEMMA JointEnd ==
    ASSUME NEW f, NEW sc, NEW sd, NEW made, made # 0, NEW qc, NEW qd,
           Joint(f, sc, sd, made, qc, qd),
           \/ sc = "DEALLOC_PEND" /\ sd = "DEALLOCATED"
           \/ sc = "DEALLOCATED" /\ sd = "DEALLOC_PEND"
    PROVE  Joint(f, "DEALLOCATED", "DEALLOCATED", made, qc, qd)
  BY DEF Joint

-----------------------------------------------------------------------------
(* What a handler leaves as it was. *)
Untouched(t, st, g) ==
    /\ t.status[g] = st.status[g] /\ t.made[g] = st.made[g]
    /\ t.deleted[g] = st.deleted[g] /\ t.efcpis[g] = st.efcpis[g]
    /\ g \in t.efcpTable <=> g \in st.efcpTable
    /\ g \in Data => t.ae[g] = st.ae[g]

Others(t, st, f) == \A g \in Flow : g # f => Untouched(t, st, g)

LEMMA EffectOn ==
    ASSUME NEW st \in Allocator, NEW t, NEW f \in Flow, NEW s, NEW made, NEW deleted, NEW e,
           Effect(t, st, f, s, made, deleted, e)
    PROVE  /\ t \in Allocator
           /\ t.status[f] = s /\ t.made[f] = made /\ t.deleted[f] = deleted
           /\ t.efcpis[f] = made - deleted
           /\ f \in Data => t.ae[f] = e
           /\ Others(t, st, f)
<1>1. /\ st.status \in [Flow -> Status] /\ st.efcpis \in [Flow -> Nat] /\ st.made \in [Flow -> Nat]
      /\ st.deleted \in [Flow -> Nat] /\ st.ae \in [Data -> Entity]
  BY AllocatorFields
<1>2. /\ t \in Allocator
      /\ t.status[f] = s /\ t.made[f] = made /\ t.deleted[f] = deleted
      /\ t.efcpis[f] = made - deleted
  BY <1>1 DEF Effect
<1>3. f \in Data => t.ae[f] = e
  BY <1>1 DEF Effect
<1>4. ASSUME NEW g \in Flow, g # f PROVE Untouched(t, st, g)
  BY <1>1, <1>4 DEF Effect, Untouched
<1> QED
  BY <1>2, <1>3, <1>4 DEF Others

LEMMA LocalAfter ==
    ASSUME NEW st \in Allocator, NEW t, NEW p \in Ipcps, NEW f \in Flow, NEW s, NEW made,
           NEW deleted, NEW e, Effect(t, st, f, s, made, deleted, e),
           Fits(p, f, s, made, deleted, e), made = 0 => st.made[f] = 0,
           \A g \in Flow : Local(st, p, g), NEW g \in Flow
    PROVE  Local(t, p, g)
<1>1. CASE g = f
  <2>1. /\ t.status[f] = s /\ t.made[f] = made /\ t.deleted[f] = deleted
        /\ t.efcpis[f] = made - deleted
        /\ f \in Data => t.ae[f] = e
    BY EffectOn
  <2>2. f \in t.efcpTable <=> made = 1
    <3>1. made = 0 => f \notin st.efcpTable
      BY DEF Local, Tied
    <3>2. made \in {0, 1}
      BY DEF Fits
    <3> QED
      BY <3>1, <3>2 DEF Effect
  <2>3. Fits(p, f, t.status[f], t.made[f], t.deleted[f], t.ae[f])
    BY <2>1 DEF Fits
  <2> QED
    BY <1>1, <2>1, <2>2, <2>3 DEF Local, Tied
<1>2. CASE g # f
  <2>1. Untouched(t, st, g)
    BY <1>2, EffectOn DEF Others
  <2>2. Tied(st, g) /\ Fits(p, g, st.status[g], st.made[g], st.deleted[g], st.ae[g])
    BY DEF Local
  <2>3. Tied(t, g)
    BY <2>1, <2>2 DEF Tied, Untouched
  <2>4. Fits(p, g, t.status[g], t.made[g], t.deleted[g], t.ae[g])
    BY <2>1, <2>2 DEF Fits, Untouched
  <2> QED
    BY <2>3, <2>4 DEF Local
<1> QED
  BY <1>1, <1>2

(* What the invariant needs of a step of p that is about f. *)
JointAfter(F, N, p, f, s, made, in, out) ==
    IF p = Caller(f)
    THEN Joint(f, s, F[Peer(p)].status[f], made, in, out)
    ELSE Joint(f, F[Peer(p)].status[f], s, F[Peer(p)].made[f], out, in)

LEMMA FlowActs ==
    ASSUME NEW F, NEW N, Base(F, N), NEW p \in Ipcps, NEW f \in Flow, NEW t, NEW s, NEW made,
           NEW deleted, NEW e, Effect(t, F[p], f, s, made, deleted, e),
           Fits(p, f, s, made, deleted, e), made = 0 => F[p].made[f] = 0,
           TableOK(t, p), PendingOK(t, p),
           NEW F2 \in [Ipcps -> Allocator], F2[p] = t, F2[Peer(p)] = F[Peer(p)],
           NEW N2 \in [Ipcps -> Seq(Message)], N2[p] = N[p],
           \A g \in Flow \ {f} : Fewer(N2[Peer(p)], N[Peer(p)], g),
           JointAfter(F, N, p, f, s, made, N2[p], N2[Peer(p)])
    PROVE  Base(F2, N2)
<1>1. F[p] \in Allocator
  BY DEF Base
<1>2. \A q \in Ipcps : q = p \/ q = Peer(p)
  BY Ends
<1>3. \A q \in Ipcps : TableOK(F2[q], q) /\ PendingOK(F2[q], q)
  <2>1. TableOK(F2[Peer(p)], Peer(p)) /\ PendingOK(F2[Peer(p)], Peer(p))
    BY Ends DEF Base
  <2> QED
    BY <1>2, <2>1
<1>4. ASSUME NEW g \in Flow, NEW q \in Ipcps PROVE Local(F2[q], q, g)
  <2>1. Local(F2[Peer(p)], Peer(p), g)
    BY Ends DEF Base
  <2>2. Local(F2[p], p, g)
    <3>1. \A h \in Flow : Local(F[p], p, h)
      BY DEF Base
    <3> QED
      BY <1>1, <3>1, LocalAfter
  <2> QED
    BY <1>2, <2>1, <2>2
<1>5. /\ t.status[f] = s /\ t.made[f] = made
      /\ \A g \in Flow : g # f => t.status[g] = F[p].status[g] /\ t.made[g] = F[p].made[g]
  <2>1. t.status[f] = s /\ t.made[f] = made
    BY <1>1, EffectOn
  <2>2. Others(t, F[p], f)
    <3>1. PICK st \in Allocator : st = F[p]
      BY <1>1
    <3>2. Effect(t, st, f, s, made, deleted, e)
      BY <3>1
    <3>3. Others(t, st, f)
      BY ONLY <3>2, st \in Allocator, f \in Flow, EffectOn
    <3> QED
      BY <3>1, <3>3
  <2> QED
    BY <2>1, <2>2 DEF Others, Untouched
<1>6. ASSUME NEW g \in Flow PROVE JointIn(F2, N2, g)
  <2>1. \/ Caller(g) = p /\ Callee(g) = Peer(p)
        \/ Caller(g) = Peer(p) /\ Callee(g) = p
    BY Ends
  <2>2. CASE g = f
    <3>1. CASE Caller(g) = p /\ Callee(g) = Peer(p)
      BY <1>5, <2>2, <3>1 DEF JointAfter, JointIn
    <3>2. CASE Caller(g) = Peer(p) /\ Callee(g) = p
      <4>1. p # Caller(f)
        BY <2>2, <3>2, Ends
      <4> QED
        BY <1>5, <2>2, <3>2, <4>1 DEF JointAfter, JointIn
    <3> QED
      BY <2>1, <3>1, <3>2
  <2>3. CASE g # f
    <3>1. /\ F2[Caller(g)].status[g] = F[Caller(g)].status[g]
          /\ F2[Callee(g)].status[g] = F[Callee(g)].status[g]
          /\ F2[Caller(g)].made[g] = F[Caller(g)].made[g]
      BY <1>5, <2>1, <2>3
    <3>2. JointIn(F, N, g)
      BY DEF Base
    <3>3. Fewer(N2[p], N[p], g)
      BY DEF Fewer
    <3>4. Fewer(N2[Peer(p)], N[Peer(p)], g)
      BY <2>3
    <3>5. Fewer(N2[Caller(g)], N[Caller(g)], g) /\ Fewer(N2[Callee(g)], N[Callee(g)], g)
      BY <2>1, <3>3, <3>4
    <3> QED
      BY <3>1, <3>2, <3>5, JointKept DEF JointIn
  <2> QED
    BY <2>2, <2>3
<1> QED
  BY <1>3, <1>4, <1>6 DEF Base

(* A message goes, by arrival or by loss. *)
LEMMA MessageGoes ==
    ASSUME NEW F, NEW N, Base(F, N), NEW p \in Ipcps, NEW k \in 1..Len(N[p]), NEW r,
           Without(r, N[p], k), NEW N2, N2 = [N EXCEPT ![p] = r]
    PROVE  Base(F, N2)
<1>1. N \in [Ipcps -> Seq(Message)] /\ r \in Seq(Message)
  BY DEF Base, Without
<1>2. N2 \in [Ipcps -> Seq(Message)] /\ N2[p] = r /\ \A q \in Ipcps \ {p} : N2[q] = N[q]
  BY <1>1
<1>3. ASSUME NEW g \in Flow, NEW q \in Ipcps PROVE Fewer(N2[q], N[q], g)
  <2>1. CASE q = p
    <3>1. N[p] \in Seq(Message)
      BY <1>1
    <3>2. Fewer(r, N[p], g)
      BY <3>1, WithoutHas DEF Fewer
    <3> QED
      BY <1>2, <2>1, <3>2
  <2>2. CASE q # p
    BY <1>2, <2>2 DEF Fewer
  <2> QED
    BY <2>1, <2>2
<1>4. ASSUME NEW g \in Flow PROVE JointIn(F, N2, g)
  <2>1. JointIn(F, N, g)
    BY DEF Base
  <2>2. Fewer(N2[Caller(g)], N[Caller(g)], g) /\ Fewer(N2[Callee(g)], N[Callee(g)], g)
    BY <1>3, Ends
  <2> QED
    BY <2>1, <2>2, JointKept DEF JointIn
<1> QED
  BY <1>2, <1>4 DEF Base

-----------------------------------------------------------------------------
(* The table. *)
LEMMA TableStays ==
    ASSUME NEW st \in Allocator, NEW t, NEW p \in Ipcps, NEW f \in Flow, NEW s, NEW made,
           NEW deleted, NEW e, Effect(t, st, f, s, made, deleted, e), SameQueues(t, st),
           TableOK(st, p), s # "none", st.status[f] # "none"
    PROVE  TableOK(t, p)
<1>1. \A g \in Flow : t.status[g] # "none" <=> st.status[g] # "none"
  BY AllocatorFields DEF Effect
<1> QED
  BY <1>1 DEF TableOK, SameQueues

NoManagement(st) == \A i \in 1..Len(st.table) : st.table[i] \notin Mgmt

SamePending(t, st) == t.pendingFlows = st.pendingFlows /\ t.wakeups = st.wakeups

LEMMA TableGrows ==
    ASSUME NEW st \in Allocator, NEW t, NEW p \in Ipcps, NEW f \in Flow, NEW s, NEW made,
           NEW deleted, NEW e, Effect(t, st, f, s, made, deleted, e), Appended(t, st, f),
           TableOK(st, p), s # "none", st.status[f] = "none", f = MgmtOf(p) => NoManagement(st)
    PROVE  TableOK(t, p)
<1> DEFINE q == st.table
           r == t.table
<1>0. t.table = Append(st.table, f) /\ t.status = [st.status EXCEPT ![f] = s]
  BY DEF Effect, Appended
<1>1. q \in Seq(Flow) /\ st.status \in [Flow -> Status]
  BY AllocatorFields
<1>2. /\ r \in Seq(Flow) /\ Len(r) = Len(q) + 1
      /\ \A i \in 1..Len(q) : r[i] = q[i]
      /\ r[Len(q) + 1] = f
  BY <1>0, <1>1
<1>3. Len(q) \in Nat /\ DOMAIN q = 1..Len(q) /\ DOMAIN r = 1..Len(r)
  BY <1>1, <1>2
<1>4. /\ \A i, j \in 1..Len(q) : q[i] = q[j] => i = j
      /\ {q[i] : i \in 1..Len(q)} = {g \in Flow : st.status[g] # "none"}
      /\ \A i \in 1..Len(q) : q[i] = MgmtOf(p) => \A j \in 1..(i - 1) : q[j] \notin Mgmt
  BY <1>3 DEF TableOK, IsInjective, ToSet
<1>5. \A g \in Flow : t.status[g] # "none" <=> st.status[g] # "none" \/ g = f
  BY <1>0, <1>1
<1>6. \A i \in 1..Len(q) : q[i] # f
  BY <1>4
<1>7. f = MgmtOf(p) => \A i \in 1..Len(q) : q[i] \notin Mgmt
  BY DEF NoManagement
<1> HIDE DEF q, r
<1>8. \A i \in 1..Len(r) : i \in 1..Len(q) \/ i = Len(q) + 1
  BY <1>2, <1>3
<1>9. \A i, j \in 1..Len(r) : r[i] = r[j] => i = j
  BY <1>2, <1>4, <1>6, <1>8
<1>10. {r[i] : i \in 1..Len(r)} = {g \in Flow : t.status[g] # "none"}
  <2>1. ASSUME NEW i \in 1..Len(r) PROVE r[i] \in Flow /\ t.status[r[i]] # "none"
    <3>1. CASE i \in 1..Len(q)
      <4>1. q[i] \in {g \in Flow : st.status[g] # "none"}
        BY <1>4, <3>1
      <4> QED
        BY <1>2, <1>5, <3>1, <4>1
    <3>2. CASE i = Len(q) + 1
      BY <1>2, <1>5, <3>2
    <3> QED
      BY <1>8, <3>1, <3>2
  <2>2. ASSUME NEW g \in Flow, t.status[g] # "none" PROVE \E i \in 1..Len(r) : r[i] = g
    <3>1. CASE g = f
      <4>1. Len(q) + 1 \in 1..Len(r)
        BY <1>2, <1>3
      <4> QED
        BY <1>2, <3>1, <4>1
    <3>2. CASE g # f
      <4>1. g \in {q[i] : i \in 1..Len(q)}
        BY <1>4, <1>5, <2>2, <3>2
      <4>2. PICK i \in 1..Len(q) : q[i] = g
        BY <4>1
      <4>3. i \in 1..Len(r)
        BY <1>2, <1>3
      <4> QED
        BY <1>2, <4>2, <4>3
    <3> QED
      BY <3>1, <3>2
  <2> QED
    BY <2>1, <2>2
<1>11. ASSUME NEW i \in 1..Len(r), r[i] = MgmtOf(p), NEW j \in 1..(i - 1) PROVE r[j] \notin Mgmt
  <2>1. j \in 1..Len(q) /\ r[j] = q[j]
    BY <1>2, <1>3
  <2>2. CASE i \in 1..Len(q)
    BY <1>2, <1>4, <1>11, <2>1, <2>2
  <2>3. CASE i = Len(q) + 1
    BY <1>2, <1>7, <1>11, <2>1, <2>3
  <2> QED
    BY <1>8, <2>2, <2>3
<1> QED
  BY <1>3, <1>9, <1>10, <1>11 DEF TableOK, IsInjective, ToSet, r

(* A flow has a status when it is in the table; then MgmtEntry finds the   *)
(* management flow of p, if that one has a status.                         *)
LEMMA Entries ==
    ASSUME NEW st \in Allocator, NEW p \in Ipcps, TableOK(st, p)
    PROVE  /\ \A f \in Flow : st.status[f] # "none" => \E i \in 1..Len(st.table) : st.table[i] = f
           /\ \A i \in 1..Len(st.table) : st.table[i] \in Flow /\ st.status[st.table[i]] # "none"
           /\ MgmtEntry(st) \subseteq Mgmt
           /\ MgmtEntry(st) = {} => NoManagement(st) /\ \A m \in Mgmt : st.status[m] = "none"
           /\ st.status[MgmtOf(p)] # "none" => MgmtEntry(st) = {MgmtOf(p)}
<1> DEFINE q == st.table
           M == {i \in 1..Len(q) : q[i] \in Mgmt}
<1>1. q \in Seq(Flow) /\ DOMAIN q = 1..Len(q)
  BY AllocatorFields
<1>2. /\ \A i, j \in 1..Len(q) : q[i] = q[j] => i = j
      /\ {q[i] : i \in 1..Len(q)} = {g \in Flow : st.status[g] # "none"}
      /\ \A i \in 1..Len(q) : q[i] = MgmtOf(p) => \A j \in 1..(i - 1) : q[j] \notin Mgmt
  BY <1>1 DEF TableOK, IsInjective, ToSet
<1>3. MgmtEntry(st) = {q[i] : i \in {j \in 1..Len(q) :
                          q[j] \in Mgmt /\ \A k \in 1..(j - 1) : q[k] \notin Mgmt}}
  BY <1>1 DEF MgmtEntry
<1> HIDE DEF q
<1>4. \A f \in Flow : st.status[f] # "none" => \E i \in 1..Len(q) : q[i] = f
  <2> SUFFICES ASSUME NEW f \in Flow, st.status[f] # "none" PROVE \E i \in 1..Len(q) : q[i] = f
    OBVIOUS
  <2>1. f \in {q[i] : i \in 1..Len(q)}
    BY <1>2
  <2> QED
    BY <2>1
<1>5. \A i \in 1..Len(q) : q[i] \in Flow /\ st.status[q[i]] # "none"
  <2> SUFFICES ASSUME NEW i \in 1..Len(q) PROVE q[i] \in {g \in Flow : st.status[g] # "none"}
    OBVIOUS
  <2> QED
    BY <1>2
<1>6. ASSUME MgmtEntry(st) = {}, M # {} PROVE FALSE
  <2>1. M \in SUBSET Nat
    OBVIOUS
  <2>2. Min(M) \in M /\ \A x \in M : Min(M) <= x
    BY <1>6, <2>1, MinOfNats
  <2>3. PICK j \in M : \A x \in M : j <= x
    BY <2>2
  <2>4. \A k \in 1..(j - 1) : q[k] \notin Mgmt
    <3>1. Len(q) \in Nat /\ j \in 1..Len(q)
      BY <1>1
    <3>2. \A k \in 1..(j - 1) : k \in 1..Len(q) /\ ~(j <= k)
      BY <3>1
    <3> QED
      BY <2>3, <3>2
  <2>5. q[j] \in MgmtEntry(st)
    BY <1>3, <2>4
  <2> QED
    BY <1>6, <2>5
<1>7. MgmtEntry(st) \subseteq Mgmt
  BY <1>3
<1>8. ASSUME st.status[MgmtOf(p)] # "none" PROVE MgmtEntry(st) = {MgmtOf(p)}
  <2>1. MgmtOf(p) \in Flow /\ MgmtOf(p) \in Mgmt
    BY Ends
  <2>2. PICK i \in 1..Len(q) : q[i] = MgmtOf(p)
    BY <1>4, <1>8, <2>1
  <2>3. \A k \in 1..(i - 1) : q[k] \notin Mgmt
    BY <1>2, <2>2
  <2>4. MgmtOf(p) \in MgmtEntry(st)
    BY <1>3, <2>1, <2>2, <2>3
  <2>5. ASSUME NEW m \in MgmtEntry(st) PROVE m = MgmtOf(p)
    <3>1. PICK j \in 1..Len(q) : q[j] = m /\ q[j] \in Mgmt /\ \A k \in 1..(j - 1) : q[k] \notin Mgmt
      BY <1>3
    <3>2. i \notin 1..(j - 1) /\ j \notin 1..(i - 1)
      BY <2>1, <2>2, <2>3, <3>1
    <3>3. i = j
      BY <3>2
    <3> QED
      BY <2>2, <3>1, <3>3
  <2> QED
    BY <2>4, <2>5
<1>9. ASSUME MgmtEntry(st) = {} PROVE NoManagement(st) /\ \A m \in Mgmt : st.status[m] = "none"
  BY <1>4, <1>6, <1>9, Ends DEF NoManagement, q
<1> QED
  BY <1>4, <1>5, <1>7, <1>8, <1>9 DEF q

-----------------------------------------------------------------------------
(* The flows that wait for management. *)
LEMMA PendingStays ==
    ASSUME NEW st \in Allocator, NEW t, NEW p \in Ipcps, NEW f \in Flow, NEW s, NEW made,
           NEW deleted, NEW e, Effect(t, st, f, s, made, deleted, e), PendingOK(st, p),
           SamePending(t, st), f # MgmtOf(p),
           \/ s = "ALLOC_PEND" /\ made = 0
           \/ f \notin ToSet(st.pendingFlows),
           \/ made = st.made[f]
           \/ f \notin DataOf(p)
           \/ st.status[MgmtOf(p)] # "ALLOC_PEND"
    PROVE  PendingOK(t, p)
<1>1. MgmtOf(p) \in Flow /\ \A g \in DataOf(p) : g \in Flow
  BY Ends
<1>2. t.status[f] = s /\ t.made[f] = made
  BY EffectOn
<1>3. \A g \in Flow : g # f => t.status[g] = st.status[g] /\ t.made[g] = st.made[g]
  <2>1. Others(t, st, f)
    BY EffectOn
  <2> QED
    BY <2>1 DEF Others, Untouched
<1>4. t.status[MgmtOf(p)] = st.status[MgmtOf(p)]
  BY <1>1, <1>3
<1>5. t.status[MgmtOf(p)] = "ALLOC_PEND" => \A g \in DataOf(p) : t.made[g] = 0
  BY <1>1, <1>2, <1>3, <1>4 DEF PendingOK
<1>6. \A g \in ToSet(t.pendingFlows) :
          g \in DataOf(p) /\ t.status[g] = "ALLOC_PEND" /\ t.made[g] = 0
  BY <1>1, <1>2, <1>3 DEF PendingOK, SamePending
<1> QED
  BY <1>4, <1>5, <1>6 DEF PendingOK, SamePending

(* The management flow of p itself, before it is up. *)
LEMMA PendingOwn ==
    ASSUME NEW st \in Allocator, NEW t, NEW p \in Ipcps, NEW f, f = MgmtOf(p), NEW made,
           NEW deleted, NEW e, Effect(t, st, f, "ALLOC_PEND", made, deleted, e), PendingOK(st, p),
           SamePending(t, st), st.status[f] # "TRANSFER", \A g \in DataOf(p) : st.made[g] = 0
    PROVE  PendingOK(t, p)
<1>1. f \in Flow /\ \A g \in DataOf(p) : g \in Flow /\ g # f
  BY Ends
<1>2. Others(t, st, f)
  BY ONLY <1>1, st \in Allocator, Effect(t, st, f, "ALLOC_PEND", made, deleted, e), EffectOn
<1>3. \A g \in Flow : g # f => t.status[g] = st.status[g] /\ t.made[g] = st.made[g]
  BY <1>2 DEF Others, Untouched
<1>4. \A g \in DataOf(p) : t.made[g] = 0
  BY <1>1, <1>3
<1>5. ~(st.wakeups > 0 \/ st.pendingFlows # <<>>)
  BY DEF PendingOK
<1> QED
  BY <1>4, <1>5 DEF PendingOK, ToSet, SamePending

(* The answer to the management flow of p: every flow that waits joins the *)
(* pending ones, once.                                                     *)
LEMMA Affected ==
    ASSUME NEW st \in Allocator, NEW p \in Ipcps, TableOK(st, p), st.pendingFlows = <<>>
    PROVE  /\ PendingAfterMgmt(st) \in Seq(Flow)
           /\ IsInjective(PendingAfterMgmt(st))
           /\ \A g \in ToSet(PendingAfterMgmt(st)) : st.status[g] = "ALLOC_PEND"
<1> DEFINE q == st.table
           n == Len(q)
           X == Seq(Flow)
           F == [i \in 1..n |-> [x \in X |->
                    IF st.status[q[i]] = "ALLOC_PEND" THEN Append(x, q[i]) ELSE x]]
           after[i \in 0..n] ==
             IF i = 0 THEN st.pendingFlows
             ELSE IF st.status[q[i]] = "ALLOC_PEND" THEN Append(after[i - 1], q[i])
             ELSE after[i - 1]
<1>1. q \in Seq(Flow) /\ n \in Nat /\ DOMAIN q = 1..n /\ \A i \in 1..n : q[i] \in Flow
  BY AllocatorFields
<1>2. \A i, j \in 1..n : q[i] = q[j] => i = j
  BY <1>1 DEF TableOK, IsInjective
<1>3. PendingAfterMgmt(st) = after[n]
  BY DEF PendingAfterMgmt
<1>4. F \in [1..n -> [X -> X]]
  <2>1. \A i \in 1..n : \A x \in X : Append(x, q[i]) \in X
    BY <1>1
  <2> HIDE DEF X, n, q
  <2> QED
    BY <2>1
<1>5. PICK a : Loops(a, n, X, <<>>, F)
  <2>1. <<>> \in X
    OBVIOUS
  <2> HIDE DEF F, X, n
  <2> QED
    BY <1>1, <1>4, <2>1, Looping
<1> DEFINE G(z) == [i \in 0..n |->
             IF i = 0 THEN st.pendingFlows
             ELSE IF st.status[q[i]] = "ALLOC_PEND" THEN Append(z[i - 1], q[i])
             ELSE z[i - 1]]
<1>6. after = G(after)
  <2>1. a \in [0..n -> X] /\ a[0] = <<>> /\ \A k \in 1..n : a[k] = F[k][a[k - 1]]
    BY <1>5 DEF Loops
  <2>2. a = G(a)
    <3>1. ASSUME NEW k \in 0..n PROVE a[k] = G(a)[k]
      <4>1. CASE k = 0
        BY <2>1, <4>1
      <4>2. CASE k # 0
        <5>1. k \in 1..n /\ k - 1 \in 0..n
          BY <1>1, <4>2
        <5>2. a[k - 1] \in X
          BY <2>1, <5>1
        <5> QED
          BY <2>1, <4>2, <5>1, <5>2
      <4> QED
        BY <4>1, <4>2
    <3> QED
      BY <2>1, <3>1
  <2>3. \E z : z = G(z)
    BY <2>2
  <2>4. after = CHOOSE z : z = G(z)
    OBVIOUS
  <2> HIDE DEF after, G
  <2> QED
    BY <2>3, <2>4
<1>7. /\ after[0] = <<>>
      /\ \A i \in 1..n : after[i] = IF st.status[q[i]] = "ALLOC_PEND"
                                    THEN Append(after[i - 1], q[i]) ELSE after[i - 1]
  <2> HIDE DEF after, q
  <2>1. \A i \in 0..n : after[i] = G(after)[i]
    BY <1>6
  <2> QED
    BY <1>1, <2>1
<1> HIDE DEF after, F, X, q, n
<1> DEFINE Sofar(z, i) ==
             /\ z \in Seq(Flow) /\ IsInjective(z)
             /\ \A x \in 1..Len(z) : \E j \in 1..i : z[x] = q[j] /\ st.status[q[j]] = "ALLOC_PEND"
           S == {i \in 0..n : Sofar(after[i], i)}
<1>8. Sofar(<<>>, 0)
  BY DEF IsInjective
<1>9. ASSUME NEW i \in 0..(n - 1), NEW z, Sofar(z, i)
      PROVE  Sofar(z, i + 1)
  BY <1>1, <1>9
<1>10. ASSUME NEW i \in 0..(n - 1), NEW z, Sofar(z, i), st.status[q[i + 1]] = "ALLOC_PEND",
              NEW y, y = Append(z, q[i + 1])
       PROVE  Sofar(y, i + 1)
  <2>1. i + 1 \in 1..n /\ q[i + 1] \in Flow
    BY <1>1
  <2>2. /\ y \in Seq(Flow) /\ Len(y) = Len(z) + 1
        /\ \A x \in 1..Len(z) : y[x] = z[x]
        /\ y[Len(z) + 1] = q[i + 1]
        /\ Len(z) \in Nat
    BY <1>10, <2>1
  <2>3. \A x \in 1..Len(y) : x \in 1..Len(z) \/ x = Len(z) + 1
    BY <2>2
  <2>4. \A x \in 1..Len(z) : z[x] # q[i + 1]
    <3> SUFFICES ASSUME NEW x \in 1..Len(z), z[x] = q[i + 1] PROVE FALSE
      OBVIOUS
    <3>1. PICK j \in 1..i : z[x] = q[j]
      BY <1>10
    <3>2. j \in 1..n /\ j # i + 1
      BY <1>1
    <3> QED
      BY <1>2, <2>1, <3>1, <3>2
  <2>5. \A x, w \in 1..Len(z) : z[x] = z[w] => x = w
    BY <1>10 DEF IsInjective
  <2>6. \A x, w \in 1..Len(y) : y[x] = y[w] => x = w
    BY <2>2, <2>3, <2>4, <2>5
  <2>7. IsInjective(y)
    BY <2>2, <2>6 DEF IsInjective
  <2>8. ASSUME NEW x \in 1..Len(y)
        PROVE  \E j \in 1..(i + 1) : y[x] = q[j] /\ st.status[q[j]] = "ALLOC_PEND"
    <3>1. CASE x \in 1..Len(z)
      <4>1. PICK j \in 1..i : z[x] = q[j] /\ st.status[q[j]] = "ALLOC_PEND"
        BY <1>10, <3>1
      <4>2. j \in 1..(i + 1)
        OBVIOUS
      <4> QED
        BY <2>2, <3>1, <4>1, <4>2
    <3>2. CASE x = Len(z) + 1
      BY <1>10, <2>2, <3>2
    <3> QED
      BY <2>3, <3>1, <3>2
  <2> QED
    BY <2>2, <2>7, <2>8
<1> HIDE DEF Sofar
<1>11. 0 \in S
  <2>1. 0 \in 0..n
    BY <1>1
  <2> QED
    BY <2>1, <1>7, <1>8
<1>12. \A i \in 0..(n - 1) : i \in S => i + 1 \in S
  <2> SUFFICES ASSUME NEW i \in 0..(n - 1), i \in S PROVE i + 1 \in S
    OBVIOUS
  <2>1. i + 1 \in 1..n /\ (i + 1) - 1 = i /\ i + 1 \in 0..n
    BY <1>1
  <2>2. after[i + 1] = IF st.status[q[i + 1]] = "ALLOC_PEND"
                       THEN Append(after[i], q[i + 1]) ELSE after[i]
    BY <1>7, <2>1
  <2>3. Sofar(after[i + 1], i + 1)
    BY <1>9, <1>10, <2>2
  <2> QED
    BY <2>1, <2>3
<1>13. n \in S
  <2> HIDE DEF S
  <2>1. 0..n \subseteq S
    BY <1>1, <1>11, <1>12, UpTo
  <2> QED
    BY <1>1, <2>1
<1>14. Sofar(after[n], n)
  BY <1>13
<1>15. \A g \in ToSet(after[n]) : st.status[g] = "ALLOC_PEND"
  BY <1>14 DEF ToSet, Sofar
<1> QED
  BY <1>3, <1>14, <1>15 DEF Sofar

LEMMA PendingReady ==
    ASSUME NEW st \in Allocator, NEW p \in Ipcps, NEW f, f = MgmtOf(p), NEW t, NEW a \in Allocator,
           TableOK(a, p), PendingOK(st, p), \A g \in Flow : Local(st, p, g),
           st.status[f] = "ALLOC_PEND",
           t.status = [st.status EXCEPT ![f] = "TRANSFER"], t.made = st.made,
           a.status = t.status, a.pendingFlows = st.pendingFlows,
           t.pendingFlows = PendingAfterMgmt(a)
    PROVE  PendingOK(t, p)
<1>1. f \in Flow /\ f \in Mgmt /\ \A g \in DataOf(p) : g \in Flow /\ g # f
  BY Ends
<1>2. \A g \in DataOf(p) : st.made[g] = 0
  BY DEF PendingOK
<1>3. st.pendingFlows = <<>>
  BY DEF PendingOK
<1>4. /\ t.pendingFlows \in Seq(Flow)
      /\ IsInjective(t.pendingFlows)
      /\ \A g \in ToSet(t.pendingFlows) : t.status[g] = "ALLOC_PEND"
  <2>1. a.pendingFlows = <<>>
    BY <1>3
  <2>2. /\ PendingAfterMgmt(a) \in Seq(Flow)
        /\ IsInjective(PendingAfterMgmt(a))
        /\ \A g \in ToSet(PendingAfterMgmt(a)) : a.status[g] = "ALLOC_PEND"
    BY <2>1, Affected
  <2> QED
    BY <2>2
<1>5. t.status[f] = "TRANSFER" /\ \A g \in Flow : g # f => t.status[g] = st.status[g]
  BY <1>1, AllocatorFields
<1>6. ASSUME NEW g \in ToSet(t.pendingFlows) PROVE g \in DataOf(p)
  <2>1. g \in Flow /\ t.status[g] = "ALLOC_PEND"
    BY <1>4 DEF ToSet
  <2>2. g # f /\ st.status[g] = "ALLOC_PEND"
    BY <1>5, <2>1
  <2>3. p # Callee(g)
    BY <2>1, <2>2 DEF Local, Fits
  <2>4. Caller(g) = p
    BY <2>1, <2>3, Ends
  <2>5. g \notin Mgmt
    BY <2>2, <2>4, Ends
  <2> QED
    BY <2>1, <2>4, <2>5, Ends
<1> QED
  BY <1>2, <1>4, <1>5, <1>6 DEF PendingOK

-----------------------------------------------------------------------------
(* Management comes first, step by step: p becomes t, a message may have   *)
(* been taken from those under way to p and one may be sent.               *)
Taken(in, q, t, p) ==
    \/ in = q
    \/ /\ q # <<>> /\ in = Tail(q)
       /\ Head(q) = Msg("M_CREATE_R+", MgmtOf(p)) => t.status[MgmtOf(p)] = "TRANSFER"

SentOn(out, q, st, p) ==
    \/ out = q
    \/ \E type \in MessageTypes, f \in Flow :
          /\ out = Append(q, Msg(type, f))
          /\ type = "M_CREATE" /\ f \in Data =>
                Up(st) \/ Has(q, "M_CREATE_R+", MgmtOf(p))

LEMMA ManagedKept ==
    ASSUME NEW F, NEW N, NEW L \in Nat, Managed(F, N, L), NEW p \in Ipcps, NEW t,
           N \in [Ipcps -> Seq(Message)],
           \A m \in Mgmt : F[p].status[m] = "TRANSFER" => t.status[m] = "TRANSFER",
           \A f \in Data : t.made[f] > 0 =>
              F[p].made[f] > 0 \/ Up(t) \/ (p = Callee(f) /\ L > 0),
           NEW F2, F2[p] = t, F2[Peer(p)] = F[Peer(p)],
           NEW N2,
           L = 0 =>
              /\ \A m \in Mgmt : p = Callee(m) /\ t.status[m] = "TRANSFER" =>
                    F[p].status[m] = "TRANSFER" \/ Has(N2[Caller(m)], "M_CREATE_R+", m)
              /\ Taken(N2[p], N[p], t, p)
              /\ SentOn(N2[Peer(p)], N[Peer(p)], F[Peer(p)], Peer(p))
    PROVE  Managed(F2, N2, L)
<1>1. \A q \in Ipcps : q = p \/ q = Peer(p)
  BY Ends
<1>2. Up(F[p]) => Up(t)
  BY DEF Up
<1>3. \A q \in Ipcps : \A f \in Data :
          F2[q].made[f] > 0 => Up(F2[q]) \/ (q = Callee(f) /\ L > 0)
  <2>1. \A q \in Ipcps : \A f \in Data :
          F[q].made[f] > 0 => Up(F[q]) \/ (q = Callee(f) /\ L > 0)
    BY DEF Managed
  <2> QED
    BY <1>1, <1>2, <2>1
<1>4. ASSUME L = 0, NEW m \in Mgmt, F2[Callee(m)].status[m] = "TRANSFER"
      PROVE  F2[Caller(m)].status[m] = "TRANSFER" \/ Has(N2[Caller(m)], "M_CREATE_R+", m)
  <2>1. \/ Caller(m) = p /\ Callee(m) = Peer(p)
        \/ Caller(m) = Peer(p) /\ Callee(m) = p
    BY Ends
  <2>2. CASE Caller(m) = p /\ Callee(m) = Peer(p)
    <3>1. m = MgmtOf(p)
      BY <2>2, Ends
    <3>2. F[Callee(m)].status[m] = "TRANSFER"
      BY <1>4, <2>2
    <3>3. F[p].status[m] = "TRANSFER" \/ Has(N[p], "M_CREATE_R+", m)
      BY <1>4, <2>2, <3>2 DEF Managed
    <3>4. ASSUME Has(N[p], "M_CREATE_R+", m)
          PROVE  Has(N2[p], "M_CREATE_R+", m) \/ t.status[m] = "TRANSFER"
      <4>1. CASE N2[p] = N[p]
        BY <3>4, <4>1
      <4>2. CASE N[p] # <<>> /\ N2[p] = Tail(N[p])
        <5>1. PICK i \in 1..Len(N[p]) : N[p][i] = Msg("M_CREATE_R+", m)
          BY <3>4 DEF Has
        <5>2. CASE i = 1
          <6>1. Head(N[p]) = Msg("M_CREATE_R+", MgmtOf(p))
            BY <3>1, <4>2, <5>1, <5>2
          <6> QED
            BY <1>4, <3>1, <4>2, <6>1 DEF Taken
        <5>3. CASE i # 1
          <6>1. N[p] \in Seq(Message)
            OBVIOUS
          <6>2. /\ i - 1 \in 1..Len(Tail(N[p]))
                /\ Tail(N[p])[i - 1] = Msg("M_CREATE_R+", m)
            BY <4>2, <5>1, <5>3, <6>1
          <6> QED
            BY <4>2, <6>2 DEF Has
        <5> QED
          BY <5>2, <5>3
      <4> QED
        BY <1>4, <4>1, <4>2 DEF Taken
    <3> QED
      BY <2>2, <3>3, <3>4
  <2>3. CASE Caller(m) = Peer(p) /\ Callee(m) = p
    <3>1. F[p].status[m] = "TRANSFER" \/ Has(N2[Caller(m)], "M_CREATE_R+", m)
      BY <1>4, <2>3
    <3>2. ASSUME F[p].status[m] = "TRANSFER", ~Has(N2[Peer(p)], "M_CREATE_R+", m)
          PROVE  F[Peer(p)].status[m] = "TRANSFER"
      <4>1. F[Peer(p)].status[m] = "TRANSFER" \/ Has(N[Peer(p)], "M_CREATE_R+", m)
        BY <1>4, <2>3, <3>2 DEF Managed
      <4>2. Has(N[Peer(p)], "M_CREATE_R+", m) => Has(N2[Peer(p)], "M_CREATE_R+", m)
        <5>1. CASE N2[Peer(p)] = N[Peer(p)]
          BY <5>1
        <5>2. CASE N2[Peer(p)] # N[Peer(p)]
          <6>1. PICK type \in MessageTypes, f \in Flow : N2[Peer(p)] = Append(N[Peer(p)], Msg(type, f))
            BY <1>4, <5>2 DEF SentOn
          <6>2. N[Peer(p)] \in Seq(Message)
            BY Ends
          <6>3. Gains(N2[Peer(p)], N[Peer(p)], type, f)
            BY <6>1, <6>2, AppendGains
          <6> QED
            BY <6>3 DEF Gains
        <5> QED
          BY <5>1, <5>2
      <4> QED
        BY <3>2, <4>1, <4>2
    <3> QED
      BY <2>3, <3>1, <3>2
  <2> QED
    BY <2>1, <2>2, <2>3
<1>5. ASSUME L = 0, NEW j \in 1..Len(N2[p]), N2[p][j].type = "M_CREATE", N2[p][j].flow \in Data
      PROVE  Up(t) \/ \E i \in 1..(j - 1) : N2[p][i] = Msg("M_CREATE_R+", MgmtOf(p))
  <2>1. \A k \in 1..Len(N[p]) : N[p][k].type = "M_CREATE" /\ N[p][k].flow \in Data =>
            Up(F[p]) \/ \E i \in 1..(k - 1) : N[p][i] = Msg("M_CREATE_R+", MgmtOf(p))
    BY <1>5 DEF Managed
  <2>2. CASE N2[p] = N[p]
    BY <1>2, <1>5, <2>1, <2>2
  <2>3. CASE N[p] # <<>> /\ N2[p] = Tail(N[p])
    <3>1. N[p] \in Seq(Message)
      OBVIOUS
    <3>2. /\ j + 1 \in 1..Len(N[p]) /\ N[p][j + 1] = N2[p][j]
          /\ \A i \in 2..j : i - 1 \in 1..(j - 1) /\ N2[p][i - 1] = N[p][i]
      BY <2>3, <3>1
    <3>3. Up(F[p]) \/ \E i \in 1..j : N[p][i] = Msg("M_CREATE_R+", MgmtOf(p))
      <4>1. Up(F[p]) \/ \E i \in 1..((j + 1) - 1) : N[p][i] = Msg("M_CREATE_R+", MgmtOf(p))
        BY <1>5, <2>1, <3>2
      <4>2. (j + 1) - 1 = j
        OBVIOUS
      <4> QED
        BY <4>1, <4>2
    <3>4. ASSUME NEW i \in 1..j, N[p][i] = Msg("M_CREATE_R+", MgmtOf(p))
          PROVE  Up(t) \/ \E k \in 1..(j - 1) : N2[p][k] = Msg("M_CREATE_R+", MgmtOf(p))
      <4>1. CASE i = 1
        <5>1. Head(N[p]) = Msg("M_CREATE_R+", MgmtOf(p))
          BY <3>1, <3>4, <4>1, <2>3
        <5>2. t.status[MgmtOf(p)] = "TRANSFER"
          BY <1>5, <2>3, <5>1 DEF Taken
        <5> QED
          BY <5>2, Ends DEF Up
      <4>2. CASE i \in 2..j
        BY <3>2, <3>4, <4>2
      <4> QED
        BY <4>1, <4>2
    <3> QED
      BY <1>2, <3>3, <3>4
  <2> QED
    BY <1>5, <2>2, <2>3 DEF Taken
<1>6. ASSUME L = 0, NEW q, q = Peer(p), NEW j \in 1..Len(N2[q]), N2[q][j].type = "M_CREATE",
             N2[q][j].flow \in Data
      PROVE  Up(F[q]) \/ \E i \in 1..(j - 1) : N2[q][i] = Msg("M_CREATE_R+", MgmtOf(q))
  <2>1. q \in Ipcps /\ N[q] \in Seq(Message)
    BY <1>6, Ends
  <2>2. \A k \in 1..Len(N[q]) : N[q][k].type = "M_CREATE" /\ N[q][k].flow \in Data =>
            Up(F[q]) \/ \E i \in 1..(k - 1) : N[q][i] = Msg("M_CREATE_R+", MgmtOf(q))
    BY <1>6, <2>1 DEF Managed
  <2>3. CASE N2[q] = N[q]
    BY <1>6, <2>2, <2>3
  <2>4. CASE N2[q] # N[q]
    <3>1. PICK type \in MessageTypes, f \in Flow :
              /\ N2[q] = Append(N[q], Msg(type, f))
              /\ type = "M_CREATE" /\ f \in Data =>
                    Up(F[q]) \/ Has(N[q], "M_CREATE_R+", MgmtOf(q))
      BY <1>6, <2>4 DEF SentOn
    <3>2. Msg(type, f) \in Message /\ Msg(type, f).type = type /\ Msg(type, f).flow = f
      BY DEF Msg, Message
    <3>3. /\ Len(N2[q]) = Len(N[q]) + 1
          /\ \A i \in 1..Len(N[q]) : N2[q][i] = N[q][i]
          /\ N2[q][Len(N[q]) + 1] = Msg(type, f)
          /\ Len(N[q]) \in Nat
      BY <2>1, <3>1, <3>2
    <3>4. CASE j \in 1..Len(N[q])
      <4>1. \A i \in 1..(j - 1) : i \in 1..Len(N[q])
        BY <3>3, <3>4
      <4> QED
        BY <1>6, <2>2, <3>3, <3>4, <4>1
    <3>5. CASE j = Len(N[q]) + 1
      <4>1. Up(F[q]) \/ Has(N[q], "M_CREATE_R+", MgmtOf(q))
        BY <1>6, <3>1, <3>2, <3>3, <3>5
      <4>2. j - 1 = Len(N[q])
        BY <3>3, <3>5
      <4> QED
        BY <3>3, <4>1, <4>2 DEF Has
    <3> QED
      BY <3>3, <3>4, <3>5
  <2> QED
    BY <2>3, <2>4
<1> QED
  BY <1>1, <1>3, <1>4, <1>5, <1>6 DEF Managed

-----------------------------------------------------------------------------
(* p becomes t, in silence or with a message to its peer. *)
Turns(F2, N2, F, N, p, t) ==
    /\ F2 \in [Ipcps -> Allocator] /\ F2[p] = t /\ F2[Peer(p)] = F[Peer(p)]
    /\ N2 \in [Ipcps -> Seq(Message)] /\ N2[p] = N[p]

Quiet(F2, N2, F, N, p, t) == Turns(F2, N2, F, N, p, t) /\ N2[Peer(p)] = N[Peer(p)]

Speaks(F2, N2, F, N, p, t, type, f) ==
    Turns(F2, N2, F, N, p, t) /\ N2[Peer(p)] = Append(N[Peer(p)], Msg(type, f))

(* All that FlowActs asks of the allocator. *)
Sound(t, st, p, f, s, made, deleted, e) ==
    /\ Effect(t, st, f, s, made, deleted, e)
    /\ Fits(p, f, s, made, deleted, e)
    /\ made = 0 => st.made[f] = 0
    /\ TableOK(t, p) /\ PendingOK(t, p)

LEMMA QuietStep ==
    ASSUME NEW F, NEW N, Base(F, N), NEW p \in Ipcps, NEW f \in Flow, NEW t, NEW s, NEW made,
           NEW deleted, NEW e, Sound(t, F[p], p, f, s, made, deleted, e),
           NEW F2, NEW N2, Quiet(F2, N2, F, N, p, t),
           JointAfter(F, N, p, f, s, made, N[p], N[Peer(p)])
    PROVE  Base(F2, N2)
<1>1. \A g \in Flow \ {f} : Fewer(N2[Peer(p)], N[Peer(p)], g)
  BY DEF Quiet, Turns, Fewer
<1>2. JointAfter(F, N, p, f, s, made, N2[p], N2[Peer(p)])
  BY DEF Quiet, Turns
<1> QED
  BY <1>1, <1>2, FlowActs DEF Quiet, Turns, Sound

LEMMA SpeakStep ==
    ASSUME NEW F, NEW N, Base(F, N), NEW p \in Ipcps, NEW f \in Flow, NEW t, NEW s, NEW made,
           NEW deleted, NEW e, Sound(t, F[p], p, f, s, made, deleted, e), NEW type \in MessageTypes,
           NEW F2, NEW N2, Speaks(F2, N2, F, N, p, t, type, f),
           \A x : Gains(x, N[Peer(p)], type, f) => JointAfter(F, N, p, f, s, made, N[p], x)
    PROVE  Base(F2, N2)
<1>1. N[Peer(p)] \in Seq(Message)
  BY Ends DEF Base
<1>2. N2[Peer(p)] = Append(N[Peer(p)], Msg(type, f)) /\ N2[p] = N[p]
  BY DEF Speaks, Turns
<1>3. /\ Gains(N2[Peer(p)], N[Peer(p)], type, f)
      /\ \A g \in Flow \ {f} : Fewer(N2[Peer(p)], N[Peer(p)], g)
  BY <1>1, <1>2, AppendGains
<1>4. JointAfter(F, N, p, f, s, made, N2[p], N2[Peer(p)])
  BY <1>2, <1>3
<1> QED
  BY <1>3, <1>4, FlowActs DEF Speaks, Turns, Sound

(* What the invariant says of a flow, seen from p. *)
LEMMA Here ==
    ASSUME NEW F, NEW N, Base(F, N), NEW p \in Ipcps, NEW f \in Flow
    PROVE  /\ F[p] \in Allocator /\ Local(F[p], p, f) /\ Local(F[Peer(p)], Peer(p), f)
           /\ TableOK(F[p], p) /\ PendingOK(F[p], p)
           /\ N[p] \in Seq(Message) /\ N[Peer(p)] \in Seq(Message)
           /\ JointAfter(F, N, p, f, F[p].status[f], F[p].made[f], N[p], N[Peer(p)])
           /\ p = Caller(f) <=> p # Callee(f)
           /\ f \in Data => F[p].ae[f] \in Entity
<1>1. /\ F[p] \in Allocator /\ TableOK(F[p], p) /\ PendingOK(F[p], p)
      /\ Local(F[p], p, f) /\ Local(F[Peer(p)], Peer(p), f) /\ JointIn(F, N, f)
      /\ N[p] \in Seq(Message) /\ N[Peer(p)] \in Seq(Message)
  BY Ends DEF Base
<1>2. \/ p = Caller(f) /\ Callee(f) = Peer(p) /\ p # Callee(f)
      \/ p # Caller(f) /\ Caller(f) = Peer(p) /\ Callee(f) = p
  BY Ends
<1>3. JointAfter(F, N, p, f, F[p].status[f], F[p].made[f], N[p], N[Peer(p)])
  BY <1>1, <1>2 DEF JointIn, JointAfter
<1>4. f \in Data => F[p].ae[f] \in Entity
  BY <1>1, AllocatorFields
<1> QED
  BY <1>1, <1>2, <1>3, <1>4

(* A flow that has neither waited in vain nor been bound. *)
LEMMA NotPending ==
    ASSUME NEW st, NEW p \in Ipcps, NEW f, PendingOK(st, p),
           st.status[f] # "ALLOC_PEND" \/ st.made[f] # 0
    PROVE  f \notin ToSet(st.pendingFlows)
  BY DEF PendingOK

-----------------------------------------------------------------------------
(* The steps of a flow, one by one. *)
LEMMA FlowRequested ==
    ASSUME NEW F, NEW N, Base(F, N), NEW p \in Ipcps, NEW f \in DataOf(p), NEW t,
           F[p].status[f] = "none",
           Effect(t, F[p], f, "ALLOC_PEND", 0, 0, InsertFlow(F[p].ae[f])), Appended(t, F[p], f),
           NEW F2, NEW N2, Quiet(F2, N2, F, N, p, t)
    PROVE  Base(F2, N2)
<1> DEFINE st == F[p]
           e == InsertFlow(F[p].ae[f])
<1>1. f \in Data /\ f \in Flow /\ Caller(f) = p /\ f \notin Mgmt
  BY Ends
<1>2. /\ st \in Allocator /\ Local(st, p, f) /\ TableOK(st, p) /\ PendingOK(st, p)
      /\ JointAfter(F, N, p, f, st.status[f], st.made[f], N[p], N[Peer(p)])
      /\ p # Callee(f) /\ st.ae[f] \in Entity
  BY <1>1, Here
<1>3. st.made[f] = 0 /\ st.deleted[f] = 0 /\ Follows(st.ae[f], "none", f)
  BY <1>1, <1>2 DEF Local, Fits
<1>4. Follows(e, "ALLOC_PEND", f)
  BY <1>2, <1>3, EntityFollows
<1> HIDE DEF st, e
<1>5. Fits(p, f, "ALLOC_PEND", 0, 0, e)
  BY <1>1, <1>2, <1>4 DEF Fits
<1>6. TableOK(t, p)
  <2>1. f # MgmtOf(p)
    BY <1>1, Ends
  <2>2. Effect(t, st, f, "ALLOC_PEND", 0, 0, e) /\ Appended(t, st, f) /\ st.status[f] = "none"
    BY DEF st, e
  <2> QED
    BY ONLY <1>1, <1>2, <2>1, <2>2, p \in Ipcps, TableGrows
<1>7. PendingOK(t, p)
  <2>1. f # MgmtOf(p)
    BY <1>1, Ends
  <2>2. SamePending(t, st)
    BY DEF Appended, SamePending, st
  <2> QED
    BY <1>1, <1>2, <1>3, <2>1, <2>2, PendingStays DEF st, e
<1>8. Sound(t, F[p], p, f, "ALLOC_PEND", 0, 0, e)
  BY <1>3, <1>5, <1>6, <1>7 DEF Sound, st, e
<1>9. JointAfter(F, N, p, f, "ALLOC_PEND", 0, N[p], N[Peer(p)])
  BY <1>1, <1>2, <1>3, JointUnasked DEF JointAfter
<1> QED
  BY <1>1, <1>8, <1>9, QuietStep

LEMMA ManagementRequested ==
    ASSUME NEW F, NEW N, Base(F, N), NEW p \in Ipcps, NEW f, f = MgmtOf(p), NEW t, NEW e,
           MgmtEntry(F[p]) = {}, \A g \in DataOf(p) : F[p].made[g] = 0,
           Effect(t, F[p], f, "ALLOC_PEND", 0, 0, e), Appended(t, F[p], f),
           NEW F2, NEW N2, Quiet(F2, N2, F, N, p, t)
    PROVE  Base(F2, N2) /\ F[p].status[f] = "none"
<1> DEFINE st == F[p]
<1>1. f \notin Data /\ f \in Flow /\ Caller(f) = p /\ f \in Mgmt
  BY Ends
<1>2. /\ st \in Allocator /\ Local(st, p, f) /\ TableOK(st, p) /\ PendingOK(st, p)
      /\ JointAfter(F, N, p, f, st.status[f], st.made[f], N[p], N[Peer(p)])
      /\ p # Callee(f)
  BY <1>1, Here
<1> HIDE DEF st
<1>3. st.status[f] = "none" /\ NoManagement(st)
  BY <1>1, <1>2, Entries DEF st
<1>4. st.made[f] = 0
  BY <1>2, <1>3 DEF Local, Fits
<1>5. Fits(p, f, "ALLOC_PEND", 0, 0, e)
  BY <1>1, <1>2 DEF Fits
<1>6. TableOK(t, p)
  <2>2. Effect(t, st, f, "ALLOC_PEND", 0, 0, e) /\ Appended(t, st, f)
    BY DEF st
  <2> QED
    BY ONLY <1>1, <1>2, <1>3, <2>2, p \in Ipcps, TableGrows
<1>7. PendingOK(t, p)
  <2>1. \A g \in DataOf(p) : st.made[g] = 0
    BY DEF st
  <2>2. SamePending(t, st)
    BY DEF Appended, SamePending, st
  <2> QED
    BY <1>1, <1>2, <1>3, <2>1, <2>2, PendingOwn DEF st
<1>8. Sound(t, F[p], p, f, "ALLOC_PEND", 0, 0, e)
  BY <1>4, <1>5, <1>6, <1>7 DEF Sound, st
<1>9. JointAfter(F, N, p, f, "ALLOC_PEND", 0, N[p], N[Peer(p)])
  BY <1>1, <1>2, <1>4, JointUnasked DEF JointAfter
<1>10. Base(F2, N2)
  BY <1>1, <1>8, <1>9, QuietStep
<1> QED
  BY <1>3, <1>10 DEF st

(* Any flow but the management flow of p. *)
LEMMA SoundStep ==
    ASSUME NEW st \in Allocator, NEW t, NEW p \in Ipcps, NEW f \in Flow, NEW s, NEW made,
           NEW deleted, NEW e, TableOK(st, p), PendingOK(st, p),
           Effect(t, st, f, s, made, deleted, e), Fits(p, f, s, made, deleted, e),
           made = 0 => st.made[f] = 0, f # MgmtOf(p), s # "none",
           \/ SameQueues(t, st) /\ st.status[f] # "none"
           \/ Appended(t, st, f) /\ st.status[f] = "none",
           \/ s = "ALLOC_PEND" /\ made = 0
           \/ f \notin ToSet(st.pendingFlows),
           \/ made = st.made[f]
           \/ f \notin DataOf(p)
           \/ st.status[MgmtOf(p)] # "ALLOC_PEND"
    PROVE  Sound(t, st, p, f, s, made, deleted, e)
<1>1. SamePending(t, st)
  BY DEF SameQueues, Appended, SamePending
<1>2. TableOK(t, p)
  <2>1. CASE SameQueues(t, st) /\ st.status[f] # "none"
    BY <2>1, TableStays
  <2>2. CASE Appended(t, st, f) /\ st.status[f] = "none"
    BY <2>2, TableGrows
  <2> QED
    BY <2>1, <2>2
<1>3. PendingOK(t, p)
  BY <1>1, PendingStays
<1> QED
  BY <1>2, <1>3 DEF Sound

(* FAI::receiveAllocateRequest for a data flow, feasible or not. *)
LEMMA FlowStarted ==
    ASSUME NEW F, NEW N, Base(F, N), NEW p \in Ipcps, NEW f \in DataOf(p), NEW t,
           F[p].status[f] = "ALLOC_PEND", F[p].made[f] = 0, f \notin ToSet(F[p].pendingFlows),
           F[p].status[MgmtOf(p)] # "ALLOC_PEND",
           Effect(t, F[p], f, "ALLOC_PEND", 1, 0, F[p].ae[f]), SameQueues(t, F[p]),
           NEW F2, NEW N2, Speaks(F2, N2, F, N, p, t, "M_CREATE", f)
    PROVE  Base(F2, N2)
<1>1. f \in Data /\ f \in Flow /\ Caller(f) = p /\ f \notin Mgmt /\ f # MgmtOf(p)
  BY Ends
<1>2. /\ F[p] \in Allocator /\ Local(F[p], p, f) /\ TableOK(F[p], p) /\ PendingOK(F[p], p)
      /\ JointAfter(F, N, p, f, F[p].status[f], F[p].made[f], N[p], N[Peer(p)])
      /\ p # Callee(f)
  BY <1>1, Here
<1>3. Fits(p, f, "ALLOC_PEND", 1, 0, F[p].ae[f])
  BY <1>1, <1>2 DEF Local, Fits
<1>4. Sound(t, F[p], p, f, "ALLOC_PEND", 1, 0, F[p].ae[f])
  BY <1>1, <1>2, <1>3, SoundStep
<1>5. \A x : Gains(x, N[Peer(p)], "M_CREATE", f) =>
          JointAfter(F, N, p, f, "ALLOC_PEND", 1, N[p], x)
  BY <1>1, <1>2, JointAsk DEF JointAfter
<1> QED
  BY <1>1, <1>4, <1>5, SpeakStep DEF MessageTypes

LEMMA FlowInfeasible ==
    ASSUME NEW F, NEW N, Base(F, N), NEW p \in Ipcps, NEW f \in DataOf(p), NEW t,
           F[p].status[f] = "ALLOC_PEND", F[p].made[f] = 0, f \notin ToSet(F[p].pendingFlows),
           Effect(t, F[p], f, "ALLOC_NEGA", 0, 0, AllocationNegative(F[p].ae[f])),
           SameQueues(t, F[p]), NEW F2, NEW N2, Quiet(F2, N2, F, N, p, t)
    PROVE  Base(F2, N2)
<1> DEFINE e == AllocationNegative(F[p].ae[f])
<1>1. f \in Data /\ f \in Flow /\ Caller(f) = p /\ f \notin Mgmt /\ f # MgmtOf(p)
  BY Ends
<1>2. /\ F[p] \in Allocator /\ Local(F[p], p, f) /\ TableOK(F[p], p) /\ PendingOK(F[p], p)
      /\ JointAfter(F, N, p, f, F[p].status[f], F[p].made[f], N[p], N[Peer(p)])
      /\ p # Callee(f) /\ F[p].ae[f] \in Entity
  BY <1>1, Here
<1>3. Follows(F[p].ae[f], "ALLOC_PEND", f)
  BY <1>1, <1>2 DEF Local, Fits
<1>4. Follows(e, "ALLOC_NEGA", f)
  BY <1>2, <1>3, EntityFollows
<1>5. Effect(t, F[p], f, "ALLOC_NEGA", 0, 0, e)
  OBVIOUS
<1> HIDE DEF e
<1>6. Fits(p, f, "ALLOC_NEGA", 0, 0, e)
  BY <1>1, <1>2, <1>4 DEF Fits
<1>7. Sound(t, F[p], p, f, "ALLOC_NEGA", 0, 0, e)
  BY <1>1, <1>2, <1>5, <1>6, SoundStep
<1>8. JointAfter(F, N, p, f, "ALLOC_NEGA", 0, N[p], N[Peer(p)])
  BY <1>1, <1>2, JointUnasked DEF JointAfter
<1> QED
  BY <1>1, <1>7, <1>8, QuietStep

(* AE::sendAllocationRequest when the call returns. *)
LEMMA ApplicationWaits ==
    ASSUME NEW F, NEW N, Base(F, N), NEW p \in Ipcps, NEW f \in DataOf(p), NEW t, NEW s, NEW e,
           F[p].status[f] = s, NEW made, F[p].made[f] = made, NEW deleted, F[p].deleted[f] = deleted,
           s = "ALLOC_PEND" \/ (s = "ALLOC_NEGA" /\ f \in Infeasible),
           e = [F[p].ae[f] EXCEPT !.con = "FLOW_PENDING"],
           Effect(t, F[p], f, s, made, deleted, e),
           SameQueues(t, F[p]), NEW F2, NEW N2, Quiet(F2, N2, F, N, p, t)
    PROVE  Base(F2, N2)
<1>1. f \in Data /\ f \in Flow /\ Caller(f) = p /\ f \notin Mgmt /\ f # MgmtOf(p)
  BY Ends
<1>2. /\ F[p] \in Allocator /\ Local(F[p], p, f) /\ TableOK(F[p], p) /\ PendingOK(F[p], p)
      /\ JointAfter(F, N, p, f, F[p].status[f], F[p].made[f], N[p], N[Peer(p)])
      /\ p # Callee(f) /\ F[p].ae[f] \in Entity
  BY <1>1, Here
<1>3. Follows(F[p].ae[f], s, f)
  BY <1>1, <1>2 DEF Local, Fits
<1>4. Follows(e, s, f)
  BY <1>2, <1>3, EntityFollows
<1>5. Fits(p, f, s, made, deleted, e)
  BY <1>1, <1>2, <1>4 DEF Local, Fits
<1>6. s # "none"
  OBVIOUS
<1>7. (s = "ALLOC_PEND" /\ made = 0) \/ f \notin ToSet(F[p].pendingFlows)
  BY <1>2, <1>5, NotPending DEF Fits
<1>8. Sound(t, F[p], p, f, s, made, deleted, e)
  BY <1>1, <1>2, <1>5, <1>6, <1>7, SoundStep
<1>9. JointAfter(F, N, p, f, s, made, N[p], N[Peer(p)])
  BY <1>2
<1> QED
  BY <1>1, <1>8, <1>9, QuietStep

LEMMA ManagementStarted ==
    ASSUME NEW F, NEW N, Base(F, N), NEW p \in Ipcps, NEW f, f = MgmtOf(p), NEW t, NEW e,
           F[p].status[f] = "ALLOC_PEND", \A g \in DataOf(p) : F[p].made[g] = 0,
           Effect(t, F[p], f, "ALLOC_PEND", 1, 0, e), SameQueues(t, F[p]),
           NEW F2, NEW N2, Speaks(F2, N2, F, N, p, t, "M_CREATE", f)
    PROVE  Base(F2, N2)
<1>1. f \notin Data /\ f \in Flow /\ Caller(f) = p /\ f \in Mgmt
  BY Ends
<1>2. /\ F[p] \in Allocator /\ Local(F[p], p, f) /\ TableOK(F[p], p) /\ PendingOK(F[p], p)
      /\ JointAfter(F, N, p, f, F[p].status[f], F[p].made[f], N[p], N[Peer(p)])
      /\ p # Callee(f)
  BY <1>1, Here
<1>3. Fits(p, f, "ALLOC_PEND", 1, 0, e)
  BY <1>1, <1>2 DEF Fits
<1>4. SamePending(t, F[p])
  BY DEF SameQueues, SamePending
<1>5. TableOK(t, p)
  BY <1>1, <1>2, TableStays
<1>6. PendingOK(t, p)
  BY <1>2, <1>4, PendingOwn
<1>7. Sound(t, F[p], p, f, "ALLOC_PEND", 1, 0, e)
  BY <1>3, <1>5, <1>6 DEF Sound
<1>8. \A x : Gains(x, N[Peer(p)], "M_CREATE", f) =>
          JointAfter(F, N, p, f, "ALLOC_PEND", 1, N[p], x)
  BY <1>1, <1>2, JointAsk DEF JointAfter
<1> QED
  BY <1>1, <1>7, <1>8, SpeakStep DEF MessageTypes

(* A request and its answer, at the callee. *)
LEMMA FlowAnswered ==
    ASSUME NEW F, NEW N, Base(F, N), NEW p \in Ipcps, NEW f \in Flow, p = Callee(f), NEW t,
           F[p].status[f] = "none", F[Peer(p)].made[f] = 1, NEW type, NEW s, NEW made, NEW e,
           \/ type = "M_CREATE_R+" /\ s = "TRANSFER" /\ made = 1 /\ e = AllocationAccepted(F[p].ae[f])
           \/ type = "M_CREATE_R-" /\ s = "ALLOC_NEGA" /\ made = 0 /\ e = F[p].ae[f] /\ f \in Data,
           Effect(t, F[p], f, s, made, 0, e), Appended(t, F[p], f),
           NEW F2, NEW N2, Speaks(F2, N2, F, N, p, t, type, f)
    PROVE  Base(F2, N2)
<1>1. /\ F[p] \in Allocator /\ Local(F[p], p, f) /\ TableOK(F[p], p) /\ PendingOK(F[p], p)
      /\ JointAfter(F, N, p, f, F[p].status[f], F[p].made[f], N[p], N[Peer(p)])
      /\ p # Caller(f)
      /\ f \in Data => F[p].ae[f] \in Entity
  BY Here
<1>2. f \notin DataOf(p) /\ f # MgmtOf(p) /\ p # Caller(f)
  BY <1>1, Ends
<1>3. f \in Data => Follows(F[p].ae[f], "none", f)
  BY <1>1 DEF Local, Fits
<1>4. f \in Data => Follows(e, s, f)
  <2> SUFFICES ASSUME f \in Data PROVE Follows(e, s, f)
    OBVIOUS
  <2>1. /\ Follows(AllocationAccepted(F[p].ae[f]), "TRANSFER", f)
        /\ Follows(F[p].ae[f], "ALLOC_NEGA", f)
    BY <1>1, <1>3, EntityFollows
  <2> QED
    BY <2>1
<1>5. Fits(p, f, s, made, 0, e)
  BY <1>4, Ends DEF Fits
<1>6. f \notin ToSet(F[p].pendingFlows)
  BY <1>1, NotPending
<1>7. s # "none" /\ type \in MessageTypes
  BY DEF MessageTypes
<1>8. F[p].made[f] = 0
  BY <1>1 DEF Local, Fits
<1>9. Sound(t, F[p], p, f, s, made, 0, e)
  BY <1>1, <1>2, <1>5, <1>6, <1>7, <1>8, SoundStep
<1>10. \A x : Gains(x, N[Peer(p)], type, f) => JointAfter(F, N, p, f, s, made, N[p], x)
  BY <1>1, <1>2, JointAnswer DEF JointAfter
<1> QED
  BY <1>7, <1>9, <1>10, SpeakStep

(* The answer, at the caller. *)
LEMMA AnswerHeard ==
    ASSUME NEW F, NEW N, Base(F, N), NEW p \in Ipcps, NEW f \in Flow, p = Caller(f), NEW t,
           F[p].status[f] = "ALLOC_PEND", F[Peer(p)].status[f] # "none",
           \A type \in Answers : ~Has(N[p], type, f), NEW s, NEW e,
           \/ s = "TRANSFER" /\ (f \in Data => e = AllocationPositive(F[p].ae[f]))
           \/ s = "ALLOC_NEGA" /\ f \in Data /\ e = AllocationNegative(F[p].ae[f]),
           Effect(t, F[p], f, s, F[p].made[f], F[p].deleted[f], e),
           TableOK(t, p), f \in Data => SameQueues(t, F[p]), f \in Mgmt => PendingOK(t, p),
           NEW F2, NEW N2, Quiet(F2, N2, F, N, p, t)
    PROVE  Base(F2, N2)
<1> DEFINE made == F[p].made[f]
           deleted == F[p].deleted[f]
<1>1. /\ F[p] \in Allocator /\ Local(F[p], p, f) /\ TableOK(F[p], p) /\ PendingOK(F[p], p)
      /\ JointAfter(F, N, p, f, F[p].status[f], made, N[p], N[Peer(p)])
      /\ p # Callee(f)
  BY Here
<1>2. made = 1
  <2>1. made \in {0, 1} /\ Joint(f, "ALLOC_PEND", F[Peer(p)].status[f], made, N[p], N[Peer(p)])
    BY <1>1 DEF JointAfter, Local, Fits
  <2> QED
    BY <2>1 DEF Joint
<1>3. deleted = 0 /\ (f \in Data => Follows(F[p].ae[f], "ALLOC_PEND", f))
  BY <1>1 DEF Local, Fits
<1>4. f \in Data => Follows(e, s, f)
  <2> SUFFICES ASSUME f \in Data PROVE Follows(e, s, f)
    OBVIOUS
  <2>1. F[p].ae[f] \in Entity
    BY Here
  <2>2. /\ Follows(AllocationPositive(F[p].ae[f]), "TRANSFER", f)
        /\ Follows(AllocationNegative(F[p].ae[f]), "ALLOC_NEGA", f)
    BY <1>3, <2>1, EntityFollows
  <2> QED
    BY <2>2
<1>5. Effect(t, F[p], f, s, made, deleted, e)
  OBVIOUS
<1> HIDE DEF made, deleted
<1>6. Fits(p, f, s, made, deleted, e)
  BY <1>1, <1>2, <1>3, <1>4, Ends DEF Fits
<1>7. f \in Data => PendingOK(t, p)
  <2> SUFFICES ASSUME f \in Data PROVE PendingOK(t, p)
    OBVIOUS
  <2>1. SamePending(t, F[p]) /\ f # MgmtOf(p)
    BY Ends DEF SameQueues, SamePending
  <2>2. f \notin ToSet(F[p].pendingFlows)
    BY <1>1, <1>2, NotPending DEF made
  <2>3. made = F[p].made[f]
    BY DEF made
  <2> QED
    BY <1>1, <1>5, <2>1, <2>2, <2>3, PendingStays
<1>8. Sound(t, F[p], p, f, s, made, deleted, e)
  BY <1>2, <1>5, <1>6, <1>7, Ends DEF Sound
<1>9. JointAfter(F, N, p, f, s, made, N[p], N[Peer(p)])
  BY <1>1, <1>2, JointAnswered DEF JointAfter
<1> QED
  BY <1>8, <1>9, QuietStep

LEMMA AskedAgain ==
    ASSUME NEW F, NEW N, Base(F, N), NEW p \in Ipcps, NEW f \in Data, p = Caller(f), NEW t,
           F[p].status[f] = "ALLOC_PEND", F[p].made[f] = 1,
           Effect(t, F[p], f, "ALLOC_PEND", F[p].made[f], F[p].deleted[f], F[p].ae[f]),
           SameQueues(t, F[p]), NEW F2, NEW N2, Speaks(F2, N2, F, N, p, t, "M_CREATE", f)
    PROVE  Base(F2, N2)
<1> DEFINE made == F[p].made[f]
           deleted == F[p].deleted[f]
<1>0. f \in Flow /\ f \notin Mgmt /\ f # MgmtOf(p)
  BY Ends
<1>1. /\ F[p] \in Allocator /\ Local(F[p], p, f) /\ TableOK(F[p], p) /\ PendingOK(F[p], p)
      /\ JointAfter(F, N, p, f, F[p].status[f], made, N[p], N[Peer(p)])
      /\ p # Callee(f)
  BY <1>0, Here
<1>2. Fits(p, f, "ALLOC_PEND", made, deleted, F[p].ae[f])
  BY <1>1 DEF Local
<1>3. f \notin ToSet(F[p].pendingFlows)
  BY <1>1, NotPending
<1>4. made = F[p].made[f] /\ made = 1 /\ Effect(t, F[p], f, "ALLOC_PEND", made, deleted, F[p].ae[f])
  OBVIOUS
<1> HIDE DEF made, deleted
<1>5. Sound(t, F[p], p, f, "ALLOC_PEND", made, deleted, F[p].ae[f])
  BY <1>0, <1>1, <1>2, <1>3, <1>4, SoundStep
<1>6. \A x : Gains(x, N[Peer(p)], "M_CREATE", f) =>
          JointAfter(F, N, p, f, "ALLOC_PEND", made, N[p], x)
  BY <1>1, <1>4, JointAsk DEF JointAfter
<1> QED
  BY <1>0, <1>5, <1>6, SpeakStep DEF MessageTypes

(* The end of a flow: asked for, followed, heard of. *)
LEMMA FlowClosing ==
    ASSUME NEW F, NEW N, Base(F, N), NEW p \in Ipcps, NEW f \in Data, NEW t,
           F[p].status[f] = "TRANSFER",
           Effect(t, F[p], f, "DEALLOC_PEND", 1, 1, F[p].ae[f]),
           SameQueues(t, F[p]), NEW F2, NEW N2, Speaks(F2, N2, F, N, p, t, "M_DELETE", f)
    PROVE  Base(F2, N2)
<1>0. f \in Flow /\ f \notin Mgmt /\ f # MgmtOf(p)
  BY Ends
<1>1. /\ F[p] \in Allocator /\ Local(F[p], p, f) /\ TableOK(F[p], p) /\ PendingOK(F[p], p)
      /\ JointAfter(F, N, p, f, F[p].status[f], F[p].made[f], N[p], N[Peer(p)])
      /\ F[p].ae[f] \in Entity /\ Local(F[Peer(p)], Peer(p), f)
  BY <1>0, Here
<1>2. F[p].made[f] = 1 /\ Follows(F[p].ae[f], "TRANSFER", f) /\ F[Peer(p)].made[f] \in {0, 1}
  BY <1>1 DEF Local, Fits
<1>3. Follows(F[p].ae[f], "DEALLOC_PEND", f)
  BY <1>1, <1>2, EntityFollows
<1>4. Fits(p, f, "DEALLOC_PEND", 1, 1, F[p].ae[f])
  BY <1>0, <1>3 DEF Fits
<1>5. f \notin ToSet(F[p].pendingFlows)
  BY <1>1, NotPending
<1>6. Sound(t, F[p], p, f, "DEALLOC_PEND", 1, 1, F[p].ae[f])
  BY <1>0, <1>1, <1>2, <1>4, <1>5, SoundStep
<1>7. \A x : Gains(x, N[Peer(p)], "M_DELETE", f) =>
          JointAfter(F, N, p, f, "DEALLOC_PEND", 1, N[p], x)
  <2>1. CASE p = Caller(f)
    BY <1>1, <1>2, <2>1, JointCloseCaller DEF JointAfter
  <2>2. CASE p # Caller(f)
    <3>1. Joint(f, F[Peer(p)].status[f], "TRANSFER", F[Peer(p)].made[f], N[Peer(p)], N[p])
      BY <1>1, <2>2 DEF JointAfter
    <3>2. F[Peer(p)].made[f] # 0
      BY <3>1 DEF Joint
    <3> QED
      BY <2>2, <3>1, <3>2, JointCloseCallee DEF JointAfter
  <2> QED
    BY <2>1, <2>2
<1> QED
  BY <1>0, <1>6, <1>7, SpeakStep DEF MessageTypes

LEMMA FlowFollows ==
    ASSUME NEW F, NEW N, Base(F, N), NEW p \in Ipcps, NEW f \in Data, NEW t,
           F[p].status[f] = "TRANSFER", F[Peer(p)].status[f] = "DEALLOC_PEND",
           Effect(t, F[p], f, "DEALLOCATED", 1, 1, Deallocation(F[p].ae[f])),
           SameQueues(t, F[p]), NEW F2, NEW N2, Speaks(F2, N2, F, N, p, t, "M_DELETE_R", f)
    PROVE  Base(F2, N2)
<1> DEFINE e == Deallocation(F[p].ae[f])
<1>0. f \in Flow /\ f \notin Mgmt /\ f # MgmtOf(p)
  BY Ends
<1>1. /\ F[p] \in Allocator /\ Local(F[p], p, f) /\ TableOK(F[p], p) /\ PendingOK(F[p], p)
      /\ JointAfter(F, N, p, f, F[p].status[f], F[p].made[f], N[p], N[Peer(p)])
      /\ F[p].ae[f] \in Entity /\ Local(F[Peer(p)], Peer(p), f)
  BY <1>0, Here
<1>2. F[p].made[f] = 1 /\ Follows(F[p].ae[f], "TRANSFER", f) /\ F[Peer(p)].made[f] = 1
  BY <1>1 DEF Local, Fits
<1>3. Follows(e, "DEALLOCATED", f)
  BY <1>1, <1>2, EntityFollows
<1>4. Effect(t, F[p], f, "DEALLOCATED", 1, 1, e)
  OBVIOUS
<1> HIDE DEF e
<1>5. Fits(p, f, "DEALLOCATED", 1, 1, e)
  BY <1>0, <1>3 DEF Fits
<1>6. f \notin ToSet(F[p].pendingFlows)
  BY <1>1, NotPending
<1>7. Sound(t, F[p], p, f, "DEALLOCATED", 1, 1, e)
  BY <1>0, <1>1, <1>2, <1>4, <1>5, <1>6, SoundStep
<1>8. \A x : Gains(x, N[Peer(p)], "M_DELETE_R", f) =>
          JointAfter(F, N, p, f, "DEALLOCATED", 1, N[p], x)
  <2>1. CASE p = Caller(f)
    BY <1>1, <1>2, <2>1, JointFollowCaller DEF JointAfter
  <2>2. CASE p # Caller(f)
    BY <1>1, <1>2, <2>2, JointFollowCallee DEF JointAfter
  <2> QED
    BY <2>1, <2>2
<1> QED
  BY <1>0, <1>7, <1>8, SpeakStep DEF MessageTypes

LEMMA EndHeard ==
    ASSUME NEW F, NEW N, Base(F, N), NEW p \in Ipcps, NEW f \in Data, NEW t,
           F[p].status[f] = "DEALLOC_PEND", F[Peer(p)].status[f] = "DEALLOCATED",
           Effect(t, F[p], f, "DEALLOCATED", F[p].made[f], F[p].deleted[f], Deallocation(F[p].ae[f])),
           SameQueues(t, F[p]), NEW F2, NEW N2, Quiet(F2, N2, F, N, p, t)
    PROVE  Base(F2, N2)
<1> DEFINE e == Deallocation(F[p].ae[f])
<1>0. f \in Flow /\ f \notin Mgmt /\ f # MgmtOf(p)
  BY Ends
<1>1. /\ F[p] \in Allocator /\ Local(F[p], p, f) /\ TableOK(F[p], p) /\ PendingOK(F[p], p)
      /\ JointAfter(F, N, p, f, F[p].status[f], F[p].made[f], N[p], N[Peer(p)])
      /\ F[p].ae[f] \in Entity /\ Local(F[Peer(p)], Peer(p), f)
  BY <1>0, Here
<1>2. /\ F[p].made[f] = 1 /\ F[p].deleted[f] = 1
      /\ Follows(F[p].ae[f], "DEALLOC_PEND", f) /\ F[Peer(p)].made[f] = 1
  BY <1>1 DEF Local, Fits
<1>3. Follows(e, "DEALLOCATED", f)
  BY <1>1, <1>2, EntityFollows
<1>4. Effect(t, F[p], f, "DEALLOCATED", 1, 1, e)
  BY <1>2
<1> HIDE DEF e
<1>5. Fits(p, f, "DEALLOCATED", 1, 1, e)
  BY <1>0, <1>3 DEF Fits
<1>6. f \notin ToSet(F[p].pendingFlows)
  BY <1>1, NotPending
<1>7. Sound(t, F[p], p, f, "DEALLOCATED", 1, 1, e)
  BY <1>0, <1>1, <1>2, <1>4, <1>5, <1>6, SoundStep
<1>8. JointAfter(F, N, p, f, "DEALLOCATED", 1, N[p], N[Peer(p)])
  <2>1. CASE p = Caller(f)
    BY <1>1, <1>2, <2>1, JointEnd DEF JointAfter
  <2>2. CASE p # Caller(f)
    BY <1>1, <1>2, <2>2, JointEnd DEF JointAfter
  <2> QED
    BY <2>1, <2>2
<1> QED
  BY <1>0, <1>7, <1>8, QuietStep

-----------------------------------------------------------------------------
(* Management comes first, for a step about one flow. *)
LEMMA RequestCovered ==
    ASSUME NEW F, NEW N, Base(F, N), Managed(F, N, 0), NEW p \in Ipcps, Up(F[p])
    PROVE  Up(F[Peer(p)]) \/ Has(N[Peer(p)], "M_CREATE_R+", MgmtOf(Peer(p)))
<1> DEFINE q == Peer(p)
<1>1. PICK m \in Mgmt : F[p].status[m] = "TRANSFER"
  BY DEF Up
<1>2. q \in Ipcps /\ m \in Flow /\ MgmtOf(q) \in Mgmt
  BY Ends
<1>3. CASE Caller(m) = p
  <2>1. /\ JointAfter(F, N, p, m, "TRANSFER", F[p].made[m], N[p], N[q])
        /\ Local(F[p], p, m) /\ Local(F[q], q, m) /\ q = Callee(m)
    BY <1>1, <1>2, <1>3, Here, Ends
  <2>2. Joint(m, "TRANSFER", F[q].status[m], F[p].made[m], N[p], N[q])
    BY <1>3, <2>1 DEF JointAfter
  <2>3. F[p].made[m] = 1
    BY <1>1, <2>1 DEF Local, Fits
  <2>4. F[q].status[m] \in {"none", "TRANSFER"}
    BY <2>1 DEF Local, Fits
  <2>5. F[q].status[m] # "none"
    BY <2>2, <2>3 DEF Joint
  <2> QED
    BY <2>4, <2>5 DEF Up
<1>4. CASE Caller(m) = q
  <2>1. Callee(m) = p /\ m = MgmtOf(q)
    BY <1>2, <1>4, Ends
  <2>2. F[Callee(m)].status[m] = "TRANSFER"
    BY <1>1, <2>1
  <2>3. F[Caller(m)].status[m] = "TRANSFER" \/ Has(N[Caller(m)], "M_CREATE_R+", m)
    BY <2>2 DEF Managed
  <2> QED
    BY <1>4, <2>1, <2>3 DEF Up
<1> QED
  BY <1>2, <1>3, <1>4, Ends

LEMMA ManagedStep ==
    ASSUME NEW F, NEW N, NEW L \in Nat, Base(F, N), Managed(F, N, L), NEW p \in Ipcps,
           NEW f \in Flow, NEW t, NEW s, NEW made, NEW deleted, NEW e,
           Effect(t, F[p], f, s, made, deleted, e),
           NEW C, Taken(C[p], N[p], t, p), C[Peer(p)] = N[Peer(p)],
           f \in Mgmt /\ F[p].status[f] = "TRANSFER" => s = "TRANSFER",
           f \in Data /\ made > 0 => F[p].made[f] > 0 \/ Up(F[p]) \/ (p = Callee(f) /\ L > 0),
           NEW F2, NEW N2,
           \/ /\ Quiet(F2, N2, F, C, p, t)
              /\ f \in Mgmt /\ p = Callee(f) /\ s = "TRANSFER" => F[p].status[f] = "TRANSFER"
           \/ \E type \in MessageTypes :
                 /\ Speaks(F2, N2, F, C, p, t, type, f)
                 /\ type = "M_CREATE" /\ f \in Data => Up(F[p])
                 /\ f \in Mgmt /\ p = Callee(f) /\ s = "TRANSFER" =>
                       F[p].status[f] = "TRANSFER" \/ type = "M_CREATE_R+"
    PROVE  Managed(F2, N2, L)
<1>1. F[p] \in Allocator /\ N \in [Ipcps -> Seq(Message)] /\ Peer(p) \in Ipcps
  BY Ends DEF Base
<1>2. t.status[f] = s /\ t.made[f] = made
  BY <1>1, EffectOn
<1>3. \A g \in Flow : g # f => t.status[g] = F[p].status[g] /\ t.made[g] = F[p].made[g]
  <2>1. PICK st \in Allocator : st = F[p]
    BY <1>1
  <2>2. Effect(t, st, f, s, made, deleted, e)
    BY <2>1
  <2>3. Others(t, st, f)
    BY ONLY <2>2, st \in Allocator, f \in Flow, EffectOn
  <2> QED
    BY <2>1, <2>3 DEF Others, Untouched
<1>4. \A m \in Mgmt : F[p].status[m] = "TRANSFER" => t.status[m] = "TRANSFER"
  BY <1>2, <1>3, Ends
<1>5. Up(F[p]) => Up(t)
  BY <1>4 DEF Up
<1>6. \A g \in Data : t.made[g] > 0 => F[p].made[g] > 0 \/ Up(t) \/ (p = Callee(g) /\ L > 0)
  BY <1>2, <1>3, <1>5, Ends
<1>7. F2[p] = t /\ F2[Peer(p)] = F[Peer(p)] /\ N2[p] = C[p]
  BY DEF Quiet, Speaks, Turns
<1>8. Taken(N2[p], N[p], t, p)
  BY <1>7
<1>9. CASE /\ Quiet(F2, N2, F, C, p, t)
           /\ f \in Mgmt /\ p = Callee(f) /\ s = "TRANSFER" => F[p].status[f] = "TRANSFER"
  <2>1. \A m \in Mgmt : p = Callee(m) /\ t.status[m] = "TRANSFER" => F[p].status[m] = "TRANSFER"
    BY <1>2, <1>3, <1>9, Ends
  <2>2. SentOn(N2[Peer(p)], N[Peer(p)], F[Peer(p)], Peer(p))
    BY <1>9 DEF Quiet, SentOn
  <2> QED
    BY <1>1, <1>4, <1>6, <1>7, <1>8, <2>1, <2>2, ManagedKept
<1>10. ASSUME NEW type \in MessageTypes, Speaks(F2, N2, F, C, p, t, type, f),
              type = "M_CREATE" /\ f \in Data => Up(F[p]),
              f \in Mgmt /\ p = Callee(f) /\ s = "TRANSFER" =>
                 F[p].status[f] = "TRANSFER" \/ type = "M_CREATE_R+"
       PROVE  Managed(F2, N2, L)
  <2>1. N2[Peer(p)] = Append(N[Peer(p)], Msg(type, f))
    BY <1>10 DEF Speaks
  <2>2. Gains(N2[Peer(p)], N[Peer(p)], type, f)
    BY <1>1, <2>1, AppendGains
  <2>3. ASSUME NEW m \in Mgmt, p = Callee(m), t.status[m] = "TRANSFER"
        PROVE  F[p].status[m] = "TRANSFER" \/ Has(N2[Caller(m)], "M_CREATE_R+", m)
    <3>1. Caller(m) = Peer(p) /\ m \in Flow
      BY <2>3, Ends
    <3>2. CASE m = f
      BY <1>2, <1>10, <2>2, <2>3, <3>1, <3>2 DEF Gains
    <3>3. CASE m # f
      BY <1>3, <2>3, <3>1, <3>3
    <3> QED
      BY <3>2, <3>3
  <2>4. ASSUME L = 0 PROVE SentOn(N2[Peer(p)], N[Peer(p)], F[Peer(p)], Peer(p))
    <3>1. Managed(F, N, 0)
      BY <2>4
    <3>2. Up(F[p]) => Up(F[Peer(p)]) \/ Has(N[Peer(p)], "M_CREATE_R+", MgmtOf(Peer(p)))
      BY <3>1, RequestCovered
    <3> QED
      BY <1>10, <2>1, <3>2 DEF SentOn
  <2> QED
    BY <1>1, <1>4, <1>6, <1>7, <1>8, <2>3, <2>4, ManagedKept
<1> QED
  BY <1>9, <1>10

-----------------------------------------------------------------------------
(* An outcome in its surroundings. *)
FaWith(F, p, o) == [F EXCEPT ![p] = o.st]
NetWith(N, p, o) == [N EXCEPT ![Peer(p)] = @ \o o.out]

Placed(F1, N1, F, N, p, o) ==
    /\ F1 \in [Ipcps -> Allocator] /\ F1[p] = o.st /\ F1[Peer(p)] = F[Peer(p)]
    /\ N1 \in [Ipcps -> Seq(Message)] /\ N1[p] = N[p] /\ N1[Peer(p)] = N[Peer(p)] \o o.out

LEMMA Surroundings ==
    ASSUME NEW F \in [Ipcps -> Allocator], NEW N \in [Ipcps -> Seq(Message)], NEW p \in Ipcps,
           NEW o \in Outcomes
    PROVE  Placed(FaWith(F, p, o), NetWith(N, p, o), F, N, p, o)
<1>1. o.st \in Allocator /\ o.out \in Seq(Message) /\ Peer(p) \in Ipcps /\ Peer(p) # p
  BY Ends DEF Outcomes
<1>2. N[Peer(p)] \in Seq(Message)
  BY <1>1
<1>3. N[Peer(p)] \o o.out \in Seq(Message)
  BY ONLY <1>1, <1>2
<1>4. /\ FaWith(F, p, o) \in [Ipcps -> Allocator]
      /\ FaWith(F, p, o)[p] = o.st /\ FaWith(F, p, o)[Peer(p)] = F[Peer(p)]
  BY <1>1 DEF FaWith
<1>5. /\ NetWith(N, p, o) \in [Ipcps -> Seq(Message)]
      /\ NetWith(N, p, o)[p] = N[p] /\ NetWith(N, p, o)[Peer(p)] = N[Peer(p)] \o o.out
  BY <1>1, <1>3 DEF NetWith
<1> QED
  BY <1>4, <1>5 DEF Placed

LEMMA Between ==
    ASSUME NEW F \in [Ipcps -> Allocator], NEW N \in [Ipcps -> Seq(Message)], NEW p \in Ipcps,
           NEW o \in Outcomes, NEW r \in Outcomes
    PROVE  LET F1 == FaWith(F, p, o)
               N1 == NetWith(N, p, o)
               F2 == FaWith(F, p, r)
               N2 == NetWith(N, p, r)
           IN  /\ r.out = o.out => Quiet(F2, N2, F1, N1, p, r.st)
               /\ \A type \in MessageTypes, f \in Flow :
                     r.out = Append(o.out, Msg(type, f)) => Speaks(F2, N2, F1, N1, p, r.st, type, f)
<1> DEFINE F1 == FaWith(F, p, o)
           N1 == NetWith(N, p, o)
           F2 == FaWith(F, p, r)
           N2 == NetWith(N, p, r)
<1>0. Placed(F1, N1, F, N, p, o) /\ Placed(F2, N2, F, N, p, r)
  BY Surroundings
<1> HIDE DEF F1, N1, F2, N2
<1>1. /\ F1[Peer(p)] = F[Peer(p)] /\ N1[p] = N[p] /\ N1[Peer(p)] = N[Peer(p)] \o o.out
  BY <1>0 DEF Placed
<1>2. /\ F2 \in [Ipcps -> Allocator] /\ F2[p] = r.st /\ F2[Peer(p)] = F[Peer(p)]
      /\ N2 \in [Ipcps -> Seq(Message)] /\ N2[p] = N[p] /\ N2[Peer(p)] = N[Peer(p)] \o r.out
  BY <1>0 DEF Placed
<1>3. Turns(F2, N2, F1, N1, p, r.st)
  BY <1>1, <1>2 DEF Turns
<1>4. r.out = o.out => Quiet(F2, N2, F1, N1, p, r.st)
  BY <1>1, <1>2, <1>3 DEF Quiet
<1>5. ASSUME NEW type \in MessageTypes, NEW f \in Flow, r.out = Append(o.out, Msg(type, f))
      PROVE  Speaks(F2, N2, F1, N1, p, r.st, type, f)
  <2>1. o.out \in Seq(Message) /\ N[Peer(p)] \in Seq(Message) /\ Msg(type, f) \in Message
    BY Ends DEF Outcomes, Msg, Message
  <2>2. \A q, w \in Seq(Message), m \in Message : q \o Append(w, m) = Append(q \o w, m)
    OBVIOUS
  <2>3. N[Peer(p)] \o Append(o.out, Msg(type, f)) = Append(N[Peer(p)] \o o.out, Msg(type, f))
    BY <2>1, <2>2
  <2> QED
    BY <1>1, <1>2, <1>3, <1>5, <2>3 DEF Speaks
<1> QED
  BY <1>4, <1>5 DEF F1, N1, F2, N2

Begins(o, st) == o = Outcome(st, <<>>)

Idling(o, F, N, p) ==
    o \in Outcomes /\ FaWith(F, p, o) = F /\ NetWith(N, p, o) = N /\ o.st = F[p] /\ o.out = <<>>

LEMMA NothingDone ==
    ASSUME NEW F \in [Ipcps -> Allocator], NEW N \in [Ipcps -> Seq(Message)], NEW p \in Ipcps,
           NEW o, Begins(o, F[p])
    PROVE  Idling(o, F, N, p)
<1>1. o.st = F[p] /\ o.out = <<>> /\ F[p] \in Allocator
  BY DEF Outcome, Begins
<1>2. o \in Outcomes
  BY <1>1 DEF Outcome, Outcomes, Begins
<1>3. FaWith(F, p, o) = F
  BY <1>1 DEF FaWith
<1>4. \A q \in Seq(Message) : q \o <<>> = q
  OBVIOUS
<1>5. N[Peer(p)] \o o.out = N[Peer(p)]
  <2>1. N[Peer(p)] \in Seq(Message)
    BY Ends
  <2> QED
    BY <1>1, <1>4, <2>1
<1>6. NetWith(N, p, o) = N
  BY <1>5 DEF NetWith
<1> QED
  BY <1>1, <1>2, <1>3, <1>6 DEF Idling

-----------------------------------------------------------------------------
(* A request, step by step. *)
Good(F, N, L) == Base(F, N) /\ Managed(F, N, L)

GoodAt(o, F, N, L, p) == o \in Outcomes /\ Good(FaWith(F, p, o), NetWith(N, p, o), L)

(* Management comes first, for a step that takes no message. *)
LEMMA ManagedAlone ==
    ASSUME NEW F, NEW N, NEW L \in Nat, Good(F, N, L), NEW p \in Ipcps,
           NEW f \in Flow, NEW t, NEW s, NEW made, NEW deleted, NEW e,
           Effect(t, F[p], f, s, made, deleted, e),
           f \in Mgmt => s = F[p].status[f] \/ (s = "ALLOC_PEND" /\ F[p].status[f] = "none"),
           f \in Data /\ made > 0 => F[p].made[f] > 0 \/ Up(F[p]),
           NEW F2, NEW N2,
           \/ Quiet(F2, N2, F, N, p, t)
           \/ \E type \in MessageTypes :
                 /\ Speaks(F2, N2, F, N, p, t, type, f)
                 /\ type = "M_CREATE" /\ f \in Data => Up(F[p])
    PROVE  Managed(F2, N2, L)
<1>1. Taken(N[p], N[p], t, p) /\ Base(F, N) /\ Managed(F, N, L)
  BY DEF Taken, Good
<1>2. /\ f \in Mgmt /\ F[p].status[f] = "TRANSFER" => s = "TRANSFER"
      /\ f \in Mgmt /\ s = "TRANSFER" => F[p].status[f] = "TRANSFER"
  OBVIOUS
<1>3. CASE Quiet(F2, N2, F, N, p, t)
  BY <1>1, <1>2, <1>3, ManagedStep
<1>4. CASE \E type \in MessageTypes :
                 /\ Speaks(F2, N2, F, N, p, t, type, f)
                 /\ type = "M_CREATE" /\ f \in Data => Up(F[p])
  BY <1>1, <1>2, <1>4, ManagedStep
<1> QED
  BY <1>3, <1>4

WithEntity(r, o, f, x) == r = [o EXCEPT !.st.ae[f] = x]

LEMMA EntityDoes ==
    ASSUME NEW o \in Outcomes, NEW f \in Data, NEW x \in Entity, NEW r, WithEntity(r, o, f, x)
    PROVE  /\ r \in Outcomes
           /\ r.out = o.out
           /\ r.st.ae = [o.st.ae EXCEPT ![f] = x]
           /\ Keeps(r.st, o.st, {"ae"})
<1> DEFINE X == [o.st.ae EXCEPT ![f] = x]
           t == [o.st EXCEPT !.ae = X]
<1>1. o.st \in Allocator
  BY DEF Outcomes
<1>2. X \in [Data -> Entity]
  BY <1>1, AllocatorFields
<1>3. r = [o EXCEPT !.st = t]
  BY <1>1 DEF Outcomes, WithEntity
<1> HIDE DEF X
<1>4. t \in Allocator
  BY <1>1, <1>2, FieldUpdates
<1>5. t.ae = X /\ Keeps(t, o.st, {"ae"})
  BY <1>1 DEF Allocator, Keeps
<1> HIDE DEF t
<1> QED
  BY <1>3, <1>4, <1>5, NewState DEF X

AllLocal(st, p) == \A f \in Flow : Local(st, p, f)

(* What is at hand about an outcome. *)
LEMMA AtHand ==
    ASSUME NEW F \in [Ipcps -> Allocator], NEW N \in [Ipcps -> Seq(Message)], NEW L, NEW p \in Ipcps,
           NEW o, GoodAt(o, F, N, L, p)
    PROVE  /\ o \in Outcomes /\ o.st \in Allocator
           /\ Base(FaWith(F, p, o), NetWith(N, p, o)) /\ Managed(FaWith(F, p, o), NetWith(N, p, o), L)
           /\ FaWith(F, p, o)[p] = o.st
           /\ TableOK(o.st, p) /\ PendingOK(o.st, p) /\ AllLocal(o.st, p)
<1>1. Placed(FaWith(F, p, o), NetWith(N, p, o), F, N, p, o)
  BY Surroundings DEF GoodAt
<1>2. FaWith(F, p, o)[p] = o.st /\ o \in Outcomes /\ o.st \in Allocator
  BY <1>1 DEF Placed, GoodAt, Outcomes
<1>3. Base(FaWith(F, p, o), NetWith(N, p, o)) /\ Managed(FaWith(F, p, o), NetWith(N, p, o), L)
  BY DEF GoodAt, Good
<1>4. TableOK(o.st, p) /\ PendingOK(o.st, p) /\ AllLocal(o.st, p)
  BY <1>2, <1>3 DEF Base, AllLocal
<1> QED
  BY <1>2, <1>3, <1>4

(* A flow that waits for management, which is up. *)
Startable(st, p, f) ==
    /\ st.status[f] = "ALLOC_PEND" /\ st.made[f] = 0 /\ f \notin ToSet(st.pendingFlows)
    /\ st.status[MgmtOf(p)] # "ALLOC_PEND" /\ Up(st)

(* Started, or refused. *)
Started(r, o, f) ==
    /\ SameQueues(r.st, o.st)
    /\ Others(r.st, o.st, f)
    /\ r.st.status[f] = "ALLOC_PEND" \/ (r.st.status[f] = "ALLOC_NEGA" /\ f \in Infeasible)

LEMMA StartGood ==
    ASSUME NEW F \in [Ipcps -> Allocator], NEW N \in [Ipcps -> Seq(Message)], NEW L \in Nat,
           NEW p \in Ipcps, NEW o, GoodAt(o, F, N, L, p), NEW f \in DataOf(p),
           Startable(o.st, p, f), NEW r, r = Start(o, f)
    PROVE  GoodAt(r, F, N, L, p) /\ Started(r, o, f)
<1>0. /\ o.st.status[f] = "ALLOC_PEND" /\ o.st.made[f] = 0 /\ f \notin ToSet(o.st.pendingFlows)
      /\ o.st.status[MgmtOf(p)] # "ALLOC_PEND" /\ Up(o.st)
  BY DEF Startable
<1> DEFINE F1 == FaWith(F, p, o)
           N1 == NetWith(N, p, o)
           F2 == FaWith(F, p, r)
           N2 == NetWith(N, p, r)
<1>1. /\ o \in Outcomes /\ o.st \in Allocator /\ F1[p] = o.st /\ Good(F1, N1, L) /\ Base(F1, N1)
      /\ AllLocal(o.st, p)
  <2>1. /\ o \in Outcomes /\ o.st \in Allocator /\ F1[p] = o.st /\ Base(F1, N1)
        /\ AllLocal(o.st, p)
    BY AtHand
  <2> QED
    BY <2>1 DEF GoodAt
<1>2. f \in Flow /\ f \in Data /\ f \notin Mgmt
  BY Ends
<1>3. Tied(o.st, f) /\ o.st.deleted[f] = 0 /\ o.st.efcpis[f] = 0
  BY <1>0, <1>1, <1>2 DEF AllLocal, Local, Tied, Fits
<1>4. CASE f \in Infeasible
  <2> DEFINE e == AllocationNegative(o.st.ae[f])
  <2>1. /\ r \in Outcomes /\ r.out = o.out /\ SameQueues(r.st, o.st)
        /\ Effect(r.st, o.st, f, "ALLOC_NEGA", o.st.made[f], o.st.deleted[f], e)
    BY <1>0, <1>1, <1>3, <1>4, StartRefuses
  <2>2. Effect(r.st, o.st, f, "ALLOC_NEGA", 0, 0, e)
    BY <1>0, <1>3, <2>1
  <2>3. Quiet(F2, N2, F1, N1, p, r.st)
    BY <1>1, <2>1, Between
  <2> HIDE DEF F1, N1, F2, N2
  <2>4. Effect(r.st, F1[p], f, "ALLOC_NEGA", 0, 0, AllocationNegative(F1[p].ae[f]))
    BY <1>1, <2>2
  <2>5. Base(F2, N2)
    BY <1>1, <2>1, <2>3, <2>4, <1>0, FlowInfeasible
  <2>6. Managed(F2, N2, L)
    BY <1>1, <1>2, <2>3, <2>4, <1>0, ManagedAlone
  <2>7. GoodAt(r, F, N, L, p)
    BY <2>1, <2>5, <2>6 DEF GoodAt, Good, F2, N2
  <2>8. r.st.status[f] = "ALLOC_NEGA" /\ Others(r.st, o.st, f)
    BY <1>1, <1>2, <2>2, EffectOn
  <2> QED
    BY <1>4, <2>1, <2>7, <2>8 DEF Started
<1>5. CASE f \notin Infeasible
  <2> DEFINE e == o.st.ae[f]
  <2>1. /\ r \in Outcomes /\ r.out = Append(o.out, Msg("M_CREATE", f)) /\ SameQueues(r.st, o.st)
        /\ Effect(r.st, o.st, f, "ALLOC_PEND", 1, 0, e)
    BY <1>1, <1>2, <1>3, <1>0, <1>5, StartBinds DEF Msg
  <2>2. "M_CREATE" \in MessageTypes
    BY DEF MessageTypes
  <2>3. Speaks(F2, N2, F1, N1, p, r.st, "M_CREATE", f)
    BY <1>1, <1>2, <2>1, <2>2, Between
  <2> HIDE DEF F1, N1, F2, N2
  <2>4. Effect(r.st, F1[p], f, "ALLOC_PEND", 1, 0, F1[p].ae[f])
    BY <1>1, <2>1
  <2>5. Base(F2, N2)
    BY <1>1, <2>1, <2>3, <2>4, <1>0, FlowStarted
  <2>6. Managed(F2, N2, L)
    BY <1>1, <1>2, <2>2, <2>3, <2>4, <1>0, ManagedAlone
  <2>7. GoodAt(r, F, N, L, p)
    BY <2>1, <2>5, <2>6 DEF GoodAt, Good, F2, N2
  <2>8. r.st.status[f] = "ALLOC_PEND" /\ Others(r.st, o.st, f)
    BY <1>1, <1>2, <2>1, EffectOn
  <2> QED
    BY <2>1, <2>7, <2>8 DEF Started
<1> QED
  BY <1>4, <1>5

(* The entry in the table, and the entity bound to the IRM. *)
Enters(r, o, f) == r = Insert([o EXCEPT !.st.ae[f] = InsertFlow(@)], f)

Entered(t, st, f) ==
    /\ SamePending(t, st) /\ Others(t, st, f)
    /\ t.status[f] = "ALLOC_PEND" /\ t.made[f] = 0

LEMMA RequestEnters ==
    ASSUME NEW F \in [Ipcps -> Allocator], NEW N \in [Ipcps -> Seq(Message)], NEW L \in Nat,
           NEW p \in Ipcps, NEW o, GoodAt(o, F, N, L, p), NEW f \in DataOf(p),
           o.st.status[f] = "none", NEW r, Enters(r, o, f)
    PROVE  GoodAt(r, F, N, L, p) /\ Entered(r.st, o.st, f)
<1>0. PICK q : q = [o EXCEPT !.st.ae[f] = InsertFlow(@)] /\ r = Insert(q, f)
  BY DEF Enters
<1> DEFINE F1 == FaWith(F, p, o)
           N1 == NetWith(N, p, o)
           F2 == FaWith(F, p, r)
           N2 == NetWith(N, p, r)
           e == InsertFlow(o.st.ae[f])
<1>1. /\ o \in Outcomes /\ o.st \in Allocator /\ F1[p] = o.st /\ Good(F1, N1, L) /\ Base(F1, N1)
      /\ AllLocal(o.st, p)
  <2>1. /\ o \in Outcomes /\ o.st \in Allocator /\ F1[p] = o.st /\ Base(F1, N1)
        /\ AllLocal(o.st, p)
    BY ONLY F \in [Ipcps -> Allocator], N \in [Ipcps -> Seq(Message)], p \in Ipcps,
       GoodAt(o, F, N, L, p), AtHand
  <2> QED
    BY <2>1 DEF GoodAt
<1>2. f \in Flow /\ f \in Data /\ f \notin Mgmt
  BY Ends
<1>3. Tied(o.st, f) /\ o.st.deleted[f] = 0 /\ o.st.made[f] = 0
  BY <1>1, <1>2 DEF AllLocal, Local, Tied, Fits
<1>4. e \in Entity /\ WithEntity(q, o, f, e)
  <2>1. o.st.ae[f] \in Entity /\ o.st.ae \in [Data -> Entity]
    BY <1>1, <1>2, AllocatorFields
  <2>2. e \in Entity
    BY <2>1, EntityType
  <2>3. WithEntity(q, o, f, e)
    BY <1>0, <1>1, <1>2 DEF Outcomes, WithEntity
  <2> QED
    BY <2>2, <2>3
<1>5. /\ q \in Outcomes /\ q.out = o.out
      /\ q.st.ae = [o.st.ae EXCEPT ![f] = e]
      /\ Keeps(q.st, o.st, {"ae"})
  <2>1. PICK x \in Entity : x = e /\ WithEntity(q, o, f, x)
    BY <1>4
  <2>2. /\ q \in Outcomes /\ q.out = o.out
        /\ q.st.ae = [o.st.ae EXCEPT ![f] = x]
        /\ Keeps(q.st, o.st, {"ae"})
    BY ONLY <1>1, <1>2, <2>1, EntityDoes
  <2> HIDE DEF e
  <2> QED
    BY <2>1, <2>2
<1>6. /\ Works(r, q, f, "ALLOC_PEND", q.st.made[f], q.st.deleted[f], q.st.ae[f], q.out)
      /\ Appended(r.st, q.st, f)
  <2>1. Tied(q.st, f)
    BY <1>3, <1>5 DEF Tied, Keeps
  <2> QED
    BY <1>0, <1>2, <1>5, <2>1, InsertWorks
<1>7. /\ r \in Outcomes /\ r.out = o.out /\ Appended(r.st, o.st, f)
      /\ Effect(r.st, o.st, f, "ALLOC_PEND", 0, 0, e)
  <2>1. q.st.ae[f] = e /\ o.st.ae \in [Data -> Entity]
    BY <1>1, <1>2, <1>5, AllocatorFields
  <2>2. r \in Outcomes /\ r.out = o.out /\ Appended(r.st, o.st, f)
    BY <1>5, <1>6 DEF Works, Appended, Keeps
  <2>3. q.st.made[f] = 0 /\ q.st.deleted[f] = 0
    BY <1>3, <1>5 DEF Keeps
  <2>4. Effect(r.st, q.st, f, "ALLOC_PEND", 0, 0, e)
    BY <1>6, <2>1, <2>3 DEF Works
  <2>5. [q.st.ae EXCEPT ![f] = e] = [o.st.ae EXCEPT ![f] = e]
    <3> HIDE DEF e
    <3> QED
      BY <1>5, <2>1
  <2>6. Effect(r.st, o.st, f, "ALLOC_PEND", 0, 0, e)
    <3> HIDE DEF e
    <3> QED
      BY <1>2, <1>5, <2>4, <2>5 DEF Effect, Keeps
  <2> QED
    BY <2>2, <2>6
<1>8. Quiet(F2, N2, F1, N1, p, r.st)
  BY <1>1, <1>7, Between
<1> HIDE DEF F1, N1, F2, N2, e
<1>9. /\ Effect(r.st, F1[p], f, "ALLOC_PEND", 0, 0, InsertFlow(F1[p].ae[f]))
      /\ Appended(r.st, F1[p], f) /\ F1[p].status[f] = "none"
  BY <1>1, <1>7 DEF e
<1>10. Base(F2, N2)
  BY <1>1, <1>8, <1>9, FlowRequested
<1>11. Managed(F2, N2, L)
  <2>1. Effect(r.st, F1[p], f, "ALLOC_PEND", 0, 0, InsertFlow(F1[p].ae[f]))
    BY <1>9
  <2>2. Good(F1, N1, L)
    BY <1>1
  <2>3. ~(0 > 0)
    OBVIOUS
  <2> QED
    BY ONLY <1>2, <1>8, <2>1, <2>2, <2>3, L \in Nat, p \in Ipcps, ManagedAlone
<1>12. GoodAt(r, F, N, L, p)
  BY <1>7, <1>10, <1>11 DEF GoodAt, Good, F2, N2
<1>13. Others(r.st, o.st, f) /\ r.st.status[f] = "ALLOC_PEND" /\ r.st.made[f] = 0
  <2> HIDE DEF e
  <2> QED
    BY <1>1, <1>2, <1>7, EffectOn
<1> QED
  BY <1>7, <1>12, <1>13 DEF Appended, SamePending, Entered

(* FA::receiveLocalMgmtAllocateRequest where there is no management flow. *)
LEMMA ManagementGood ==
    ASSUME NEW F \in [Ipcps -> Allocator], NEW N \in [Ipcps -> Seq(Message)], NEW L \in Nat,
           NEW p \in Ipcps, NEW o, GoodAt(o, F, N, L, p), NEW f, f = MgmtOf(p),
           MgmtEntry(o.st) = {}, NEW q, q = Insert(o, f), NEW r, r = Start(q, f)
    PROVE  /\ GoodAt(r, F, N, L, p)
           /\ \A g \in Data : Untouched(r.st, o.st, g)
           /\ ~MgmtReady(r.st)
<1> DEFINE F1 == FaWith(F, p, o)
           N1 == NetWith(N, p, o)
           F2 == FaWith(F, p, q)
           N2 == NetWith(N, p, q)
           F3 == FaWith(F, p, r)
           N3 == NetWith(N, p, r)
           e == o.st.ae[f]
           d == q.st.ae[f]
<1>1. /\ o \in Outcomes /\ o.st \in Allocator /\ F1[p] = o.st /\ Good(F1, N1, L) /\ Base(F1, N1)
      /\ Managed(F1, N1, L) /\ AllLocal(o.st, p) /\ TableOK(o.st, p)
  <2>1. /\ o \in Outcomes /\ o.st \in Allocator /\ F1[p] = o.st /\ Base(F1, N1)
        /\ Managed(F1, N1, L) /\ AllLocal(o.st, p) /\ TableOK(o.st, p)
    BY AtHand
  <2> QED
    BY <2>1 DEF GoodAt
<1>2. f \in Flow /\ f \notin Data /\ f \in Mgmt /\ f \notin Infeasible
  BY Ends
<1>3. \A m \in Mgmt : o.st.status[m] = "none"
  BY <1>1, Entries
<1>4. Tied(o.st, f) /\ o.st.deleted[f] = 0 /\ o.st.made[f] = 0
  BY <1>1, <1>2, <1>3 DEF AllLocal, Local, Tied, Fits
<1>5. \A g \in DataOf(p) : o.st.made[g] = 0
  <2> SUFFICES ASSUME NEW g \in DataOf(p) PROVE o.st.made[g] = 0
    OBVIOUS
  <2>1. g \in Data /\ g \in Flow /\ p # Callee(g)
    BY Ends
  <2>2. ~Up(o.st)
    BY <1>3 DEF Up
  <2>3. ~(F1[p].made[g] > 0)
    BY <1>1, <2>1, <2>2 DEF Managed
  <2>4. o.st.made[g] \in {0, 1}
    BY <1>1, <2>1 DEF AllLocal, Local, Fits
  <2> QED
    BY <1>1, <2>3, <2>4
<1>6. /\ q \in Outcomes /\ q.out = o.out /\ Appended(q.st, o.st, f)
      /\ Effect(q.st, o.st, f, "ALLOC_PEND", 0, 0, e)
  <2>1. /\ Works(q, o, f, "ALLOC_PEND", o.st.made[f], o.st.deleted[f], o.st.ae[f], o.out)
        /\ Appended(q.st, o.st, f)
    BY <1>1, <1>2, <1>4, InsertWorks
  <2> QED
    BY <1>4, <2>1 DEF Works
<1>7. Quiet(F2, N2, F1, N1, p, q.st)
  BY <1>1, <1>6, Between
<1>8. GoodAt(q, F, N, L, p)
  <2> HIDE DEF F1, N1, F2, N2, e
  <2>1. /\ Effect(q.st, F1[p], f, "ALLOC_PEND", 0, 0, e) /\ Appended(q.st, F1[p], f)
        /\ MgmtEntry(F1[p]) = {} /\ \A g \in DataOf(p) : F1[p].made[g] = 0
        /\ F1[p].status[f] = "none"
    BY <1>1, <1>2, <1>3, <1>5, <1>6
  <2>2. Base(F2, N2)
    BY <1>1, <1>7, <2>1, ManagementRequested
  <2>3. Managed(F2, N2, L)
    BY <1>1, <1>2, <1>7, <2>1, ManagedAlone
  <2> QED
    BY <1>6, <2>2, <2>3 DEF GoodAt, Good, F2, N2
<1>9. /\ q.st \in Allocator /\ F2[p] = q.st /\ Good(F2, N2, L) /\ Base(F2, N2)
      /\ AllLocal(q.st, p)
  <2>1. /\ q.st \in Allocator /\ F2[p] = q.st /\ Base(F2, N2) /\ AllLocal(q.st, p)
    BY ONLY <1>8, F \in [Ipcps -> Allocator], N \in [Ipcps -> Seq(Message)], p \in Ipcps, AtHand DEF F2, N2
  <2> QED
    BY <1>8, <2>1 DEF GoodAt
<1>10. /\ q.st.status[f] = "ALLOC_PEND" /\ q.st.made[f] = 0 /\ q.st.deleted[f] = 0
       /\ q.st.efcpis[f] = 0 /\ Others(q.st, o.st, f)
  <2> HIDE DEF e
  <2> QED
    BY <1>1, <1>2, <1>6, EffectOn
<1>11. \A g \in DataOf(p) : q.st.made[g] = 0
  BY <1>2, <1>5, <1>10, Ends DEF Others, Untouched
<1>12. /\ r \in Outcomes /\ r.out = Append(q.out, Msg("M_CREATE", f)) /\ SameQueues(r.st, q.st)
       /\ Effect(r.st, q.st, f, "ALLOC_PEND", 1, 0, d)
  BY <1>2, <1>6, <1>10, StartBinds DEF Msg
<1>13. "M_CREATE" \in MessageTypes
  BY DEF MessageTypes
<1>14. Speaks(F3, N3, F2, N2, p, r.st, "M_CREATE", f)
  BY <1>2, <1>6, <1>12, <1>13, Between
<1>15. GoodAt(r, F, N, L, p)
  <2> HIDE DEF F2, N2, F3, N3, d
  <2>1. /\ Effect(r.st, F2[p], f, "ALLOC_PEND", 1, 0, d) /\ SameQueues(r.st, F2[p])
        /\ \A g \in DataOf(p) : F2[p].made[g] = 0
        /\ F2[p].status[f] = "ALLOC_PEND"
    BY <1>9, <1>10, <1>11, <1>12
  <2>2. Base(F3, N3)
    BY <1>9, <1>14, <2>1, ManagementStarted
  <2>3. Managed(F3, N3, L)
    BY <1>2, <1>9, <1>13, <1>14, <2>1, ManagedAlone
  <2> QED
    BY <1>12, <2>2, <2>3 DEF GoodAt, Good, F3, N3
<1>16. Others(r.st, q.st, f) /\ r.st.status[f] = "ALLOC_PEND"
  <2> HIDE DEF d
  <2> QED
    BY <1>2, <1>9, <1>12, EffectOn
<1>17. \A g \in Data : Untouched(r.st, o.st, g)
  BY <1>2, <1>10, <1>16, Ends DEF Others, Untouched
<1>18. ~MgmtReady(r.st)
  <2>1. r.st \in Allocator /\ TableOK(r.st, p)
    BY <1>15, AtHand
  <2>2. MgmtEntry(r.st) = {f}
    BY <1>16, <2>1, Entries
  <2> QED
    BY <1>16, <2>2 DEF MgmtReady
<1> QED
  BY <1>15, <1>17, <1>18

-----------------------------------------------------------------------------
(* Management that is ready is up, and not asked for again. *)
LEMMA ReadyIsUp ==
    ASSUME NEW st \in Allocator, NEW p \in Ipcps, TableOK(st, p), MgmtReady(st)
    PROVE  Up(st) /\ st.status[MgmtOf(p)] # "ALLOC_PEND"
<1>1. PICK m \in MgmtEntry(st) : st.status[m] = "TRANSFER"
  BY DEF MgmtReady
<1>2. MgmtEntry(st) \subseteq Mgmt
  BY Entries
<1>3. st.status[MgmtOf(p)] # "none" => MgmtEntry(st) = {MgmtOf(p)}
  BY Entries
<1> QED
  BY <1>1, <1>2, <1>3 DEF Up

(* FA::receiveAllocateRequest, once the flow has its entry. *)
Proceeds(r, o, p, f) ==
    LET q == EnsureMgmt(o, MgmtOf(p))
    IN  r = IF MgmtReady(q.st) THEN Start(q, f) ELSE q

Proceeded(t, st, f) ==
    /\ \A g \in Data : g # f => Untouched(t, st, g)
    /\ t.status[f] = "ALLOC_PEND" \/ (t.status[f] = "ALLOC_NEGA" /\ f \in Infeasible)

LEMMA RequestStarted ==
    ASSUME NEW F \in [Ipcps -> Allocator], NEW N \in [Ipcps -> Seq(Message)], NEW L \in Nat,
           NEW p \in Ipcps, NEW o, GoodAt(o, F, N, L, p), NEW f \in DataOf(p),
           o.st.status[f] = "ALLOC_PEND", o.st.made[f] = 0, f \notin ToSet(o.st.pendingFlows),
           NEW r, Proceeds(r, o, p, f)
    PROVE  GoodAt(r, F, N, L, p) /\ Proceeded(r.st, o.st, f)
<1>0. PICK q : q = EnsureMgmt(o, MgmtOf(p)) /\ r = IF MgmtReady(q.st) THEN Start(q, f) ELSE q
  BY DEF Proceeds
<1>1. o \in Outcomes /\ o.st \in Allocator /\ TableOK(o.st, p)
  BY AtHand
<1>2. f \in Data /\ f \in Flow /\ Data \subseteq Flow
  BY Ends
<1>3. CASE MgmtEntry(o.st) = {}
  <2> DEFINE a == Insert(o, MgmtOf(p))
             b == Start(a, MgmtOf(p))
  <2>1. q = b
    BY <1>0, <1>3 DEF EnsureMgmt
  <2>2. /\ GoodAt(b, F, N, L, p)
        /\ \A g \in Data : Untouched(b.st, o.st, g)
        /\ ~MgmtReady(b.st)
    BY <1>3, ManagementGood
  <2> HIDE DEF b
  <2>3. r = b
    BY <1>0, <2>1, <2>2
  <2> QED
    BY <1>2, <2>2, <2>3 DEF Untouched, Proceeded
<1>4. CASE MgmtEntry(o.st) # {} /\ ~MgmtReady(o.st)
  <2>1. r = o
    BY <1>0, <1>4 DEF EnsureMgmt
  <2> QED
    BY <2>1 DEF Untouched, Proceeded
<1>5. CASE MgmtEntry(o.st) # {} /\ MgmtReady(o.st)
  <2>1. r = Start(o, f)
    BY <1>0, <1>5 DEF EnsureMgmt
  <2>2. Up(o.st) /\ o.st.status[MgmtOf(p)] # "ALLOC_PEND"
    BY <1>1, <1>5, ReadyIsUp
  <2>3. Startable(o.st, p, f)
    BY <2>2 DEF Startable
  <2>4. GoodAt(r, F, N, L, p) /\ Started(r, o, f)
    BY ONLY <2>1, <2>3, F \in [Ipcps -> Allocator], N \in [Ipcps -> Seq(Message)], L \in Nat,
       p \in Ipcps, GoodAt(o, F, N, L, p), f \in DataOf(p), StartGood
  <2> QED
    BY <1>2, <2>4 DEF Others, Started, Proceeded
<1> QED
  BY <1>3, <1>4, <1>5

(* The application waits when the call returns. *)
Returns(r, o, f) == r = [o EXCEPT !.st.ae[f].con = "FLOW_PENDING"]

LEMMA RequestReturns ==
    ASSUME NEW F \in [Ipcps -> Allocator], NEW N \in [Ipcps -> Seq(Message)], NEW L \in Nat,
           NEW p \in Ipcps, NEW o, GoodAt(o, F, N, L, p), NEW f \in DataOf(p), NEW s,
           o.st.status[f] = s, s = "ALLOC_PEND" \/ (s = "ALLOC_NEGA" /\ f \in Infeasible),
           NEW r, Returns(r, o, f)
    PROVE  GoodAt(r, F, N, L, p) /\ Proceeded(r.st, o.st, f)
<1> DEFINE F1 == FaWith(F, p, o)
           N1 == NetWith(N, p, o)
           F2 == FaWith(F, p, r)
           N2 == NetWith(N, p, r)
           e == [o.st.ae[f] EXCEPT !.con = "FLOW_PENDING"]
           made == o.st.made[f]
           deleted == o.st.deleted[f]
<1>1. /\ o \in Outcomes /\ o.st \in Allocator /\ F1[p] = o.st /\ Good(F1, N1, L) /\ Base(F1, N1)
      /\ AllLocal(o.st, p)
  <2>1. /\ o \in Outcomes /\ o.st \in Allocator /\ F1[p] = o.st /\ Base(F1, N1)
        /\ AllLocal(o.st, p)
    BY ONLY F \in [Ipcps -> Allocator], N \in [Ipcps -> Seq(Message)], p \in Ipcps,
       GoodAt(o, F, N, L, p), AtHand
  <2> QED
    BY <2>1 DEF GoodAt
<1>2. f \in Flow /\ f \in Data /\ f \notin Mgmt /\ Data \subseteq Flow
  BY Ends
<1>3. Tied(o.st, f)
  BY <1>1, <1>2 DEF AllLocal, Local
<1>4. e \in Entity /\ WithEntity(r, o, f, e)
  <2>1. o.st.ae[f] \in Entity /\ o.st.ae \in [Data -> Entity]
    BY <1>1, <1>2, AllocatorFields
  <2>2. e \in Entity
    BY <2>1 DEF Entity
  <2>3. WithEntity(r, o, f, e)
    BY <1>1, <1>2 DEF Outcomes, WithEntity, Returns
  <2> QED
    BY <2>2, <2>3
<1>5. /\ r \in Outcomes /\ r.out = o.out
      /\ r.st.ae = [o.st.ae EXCEPT ![f] = e]
      /\ Keeps(r.st, o.st, {"ae"})
  <2>1. PICK x \in Entity : x = e /\ WithEntity(r, o, f, x)
    BY <1>4
  <2>2. o \in Outcomes /\ f \in Data /\ WithEntity(r, o, f, x)
    BY <1>1, <1>2, <2>1
  <2> HIDE DEF e
  <2>3. /\ r \in Outcomes /\ r.out = o.out
        /\ r.st.ae = [o.st.ae EXCEPT ![f] = x]
        /\ Keeps(r.st, o.st, {"ae"})
    BY ONLY <2>2, x \in Entity, EntityDoes
  <2> QED
    BY <2>1, <2>3
<1>6. SameQueues(r.st, o.st) /\ Effect(r.st, o.st, f, s, made, deleted, e)
  <2> HIDE DEF e
  <2>1. r.st \in Allocator /\ SameQueues(r.st, o.st)
    BY <1>5 DEF Outcomes, Keeps, SameQueues
  <2>2. /\ r.st.status = o.st.status /\ r.st.made = o.st.made /\ r.st.deleted = o.st.deleted
        /\ r.st.efcpis = o.st.efcpis /\ r.st.efcpTable = o.st.efcpTable
    BY <1>5 DEF Keeps
  <2>3. r.st.status = [o.st.status EXCEPT ![f] = s]
    BY <1>1, <1>2, <2>2, AllocatorFields
  <2>4. r.st.ae = IF f \in Data THEN [o.st.ae EXCEPT ![f] = e] ELSE o.st.ae
    BY <1>2, <1>5
  <2>5. PICK x : x = e
    OBVIOUS
  <2>6. r.st.ae = IF f \in Data THEN [o.st.ae EXCEPT ![f] = x] ELSE o.st.ae
    BY <2>4, <2>5
  <2>7. Effect(r.st, o.st, f, s, o.st.made[f], o.st.deleted[f], x)
    BY ONLY <1>1, <1>2, <1>3, <2>1, <2>2, <2>3, <2>6, EffectOnStatus
  <2> QED
    BY <2>1, <2>5, <2>7
<1>7. Quiet(F2, N2, F1, N1, p, r.st)
  BY <1>1, <1>5, Between
<1>8. Others(r.st, o.st, f) /\ r.st.status[f] = s
  <2> HIDE DEF e, made, deleted
  <2> QED
    BY <1>1, <1>2, <1>6, EffectOn
<1> HIDE DEF F1, N1, F2, N2
<1>9. /\ Effect(r.st, F1[p], f, s, made, deleted, e) /\ SameQueues(r.st, F1[p])
      /\ F1[p].status[f] = s /\ F1[p].made[f] = made /\ F1[p].deleted[f] = deleted
      /\ e = [F1[p].ae[f] EXCEPT !.con = "FLOW_PENDING"]
  BY <1>1, <1>6
<1> HIDE DEF e, made, deleted
<1>10. Base(F2, N2)
  BY <1>1, <1>7, <1>9, ApplicationWaits
<1>11. Managed(F2, N2, L)
  <2>1. f \in Data /\ made > 0 => F1[p].made[f] > 0 \/ Up(F1[p])
    BY <1>9
  <2>2. f \in Mgmt => s = F1[p].status[f] \/ (s = "ALLOC_PEND" /\ F1[p].status[f] = "none")
    BY <1>2
  <2>3. Good(F1, N1, L) /\ Effect(r.st, F1[p], f, s, made, deleted, e)
    BY <1>1, <1>9
  <2> QED
    BY ONLY <1>2, <1>7, <2>1, <2>2, <2>3, L \in Nat, p \in Ipcps, ManagedAlone
<1>12. GoodAt(r, F, N, L, p)
  BY <1>5, <1>10, <1>11 DEF GoodAt, Good, F2, N2
<1> QED
  BY <1>2, <1>8, <1>12 DEF Others, Proceeded

LEMMA RequestGood ==
    ASSUME NEW F, NEW N, NEW L \in Nat, Good(F, N, L), NEW p \in Ipcps, NEW f \in DataOf(p),
           F[p].status[f] = "none", NEW o, Begins(o, F[p]),
           NEW r, r = SendAllocationRequest([o EXCEPT !.st.ae[f] = InsertFlow(@)], p, f)
    PROVE  GoodAt(r, F, N, L, p) /\ Proceeded(r.st, F[p], f)
<1>1. F \in [Ipcps -> Allocator] /\ N \in [Ipcps -> Seq(Message)] /\ PendingOK(F[p], p)
  BY DEF Good, Base
<1>2. GoodAt(o, F, N, L, p) /\ o.st = F[p]
  <2>1. Idling(o, F, N, p)
    BY ONLY <1>1, p \in Ipcps, Begins(o, F[p]), NothingDone
  <2> QED
    BY <2>1 DEF GoodAt, Idling
<1>3. \E b, d : Enters(b, o, f) /\ Proceeds(d, b, p, f) /\ Returns(r, d, f)
  BY DEF SendAllocationRequest, ReceiveAllocateRequest, Enters, Proceeds, Returns
<1>4. PICK b, d : Enters(b, o, f) /\ Proceeds(d, b, p, f) /\ Returns(r, d, f)
  BY <1>3
<1>5. GoodAt(b, F, N, L, p) /\ Entered(b.st, o.st, f)
  <2>1. o.st.status[f] = "none"
    BY <1>2
  <2> QED
    BY ONLY <1>1, <1>2, <1>4, <2>1, L \in Nat, p \in Ipcps, f \in DataOf(p), RequestEnters
<1>6. f \notin ToSet(b.st.pendingFlows) /\ b.st.status[f] = "ALLOC_PEND" /\ b.st.made[f] = 0
  <2>1. f \notin ToSet(F[p].pendingFlows)
    BY <1>1, NotPending
  <2> QED
    BY <1>2, <1>5, <2>1 DEF SamePending, Entered
<1>7. GoodAt(d, F, N, L, p) /\ Proceeded(d.st, b.st, f)
  BY ONLY <1>1, <1>4, <1>5, <1>6, L \in Nat, p \in Ipcps, f \in DataOf(p), RequestStarted
<1>8. GoodAt(r, F, N, L, p) /\ Proceeded(r.st, d.st, f)
  <2>1. PICK s : d.st.status[f] = s
    OBVIOUS
  <2>2. s = "ALLOC_PEND" \/ (s = "ALLOC_NEGA" /\ f \in Infeasible)
    BY <1>7, <2>1 DEF Proceeded
  <2> QED
    BY ONLY <1>1, <1>4, <1>7, <2>1, <2>2, L \in Nat, p \in Ipcps, f \in DataOf(p), RequestReturns
<1>9. ASSUME NEW g \in Data, g # f PROVE Untouched(r.st, F[p], g)
  <2>1. g \in Flow
    BY Ends
  <2>2. /\ Untouched(r.st, d.st, g) /\ Untouched(d.st, b.st, g)
        /\ Untouched(b.st, o.st, g) /\ o.st = F[p]
    BY <1>2, <1>5, <1>7, <1>8, <1>9, <2>1 DEF Others, Entered, Proceeded
  <2> QED
    BY ONLY <2>2 DEF Untouched
<1> QED
  BY <1>8, <1>9 DEF Proceeded

-----------------------------------------------------------------------------
(* TIM_FAPENDFLOWS. *)
Clears(r, o) == r = [o EXCEPT !.st.pendingFlows = <<>>, !.st.wakeups = @ - 1]

LEMMA ClearsDoes ==
    ASSUME NEW o \in Outcomes, NEW r, Clears(r, o), o.st.wakeups > 0
    PROVE  /\ r \in Outcomes /\ r.out = o.out
           /\ r.st.pendingFlows = <<>>
           /\ Keeps(r.st, o.st, {"pendingFlows", "wakeups"})
<1> DEFINE k == o.st.wakeups - 1
           t == [o.st EXCEPT !.pendingFlows = <<>>]
           u == [t EXCEPT !.wakeups = k]
<1>1. o.st \in Allocator /\ k \in Nat /\ <<>> \in Seq(Flow)
  <2>1. o.st \in Allocator
    BY DEF Outcomes
  <2> QED
    BY <2>1, AllocatorFields
<1>2. r = [o EXCEPT !.st = u]
  <2>1. o = [st |-> o.st, out |-> o.out]
    BY DEF Outcomes
  <2> QED
    BY <1>1, <2>1 DEF Allocator, Clears
<1> HIDE DEF k
<1>3. t \in Allocator
  BY <1>1, FieldUpdates
<1>4. t.pendingFlows = <<>> /\ Keeps(t, o.st, {"pendingFlows"})
  BY <1>1 DEF Allocator, Keeps
<1> HIDE DEF t
<1>5. u \in Allocator
  BY <1>1, <1>3, FieldUpdates
<1>6. u.pendingFlows = <<>> /\ Keeps(u, o.st, {"pendingFlows", "wakeups"})
  BY <1>3, <1>4 DEF Allocator, Keeps
<1> HIDE DEF u
<1> QED
  BY <1>2, <1>5, <1>6, NewState

LEMMA ClearsGood ==
    ASSUME NEW F, NEW N, NEW L \in Nat, Good(F, N, L), NEW p \in Ipcps,
           F[p].wakeups > 0, NEW o, Begins(o, F[p]), NEW r, Clears(r, o)
    PROVE  /\ GoodAt(r, F, N, L, p)
           /\ r.st.pendingFlows = <<>>
           /\ r.st.status = F[p].status /\ r.st.made = F[p].made
           /\ F[p].status[MgmtOf(p)] = "TRANSFER"
<1>1. /\ F \in [Ipcps -> Allocator] /\ N \in [Ipcps -> Seq(Message)] /\ Base(F, N)
  BY DEF Good, Base
<1>2. o \in Outcomes /\ FaWith(F, p, o) = F /\ NetWith(N, p, o) = N /\ o.st = F[p]
  <2>1. F \in [Ipcps -> Allocator] /\ N \in [Ipcps -> Seq(Message)]
    BY <1>1
  <2>2. Idling(o, F, N, p)
    BY ONLY <2>1, p \in Ipcps, Begins(o, F[p]), NothingDone
  <2> QED
    BY <2>2 DEF Idling
<1> DEFINE f == MgmtOf(p)
           F2 == FaWith(F, p, r)
           N2 == NetWith(N, p, r)
<1>3. f \in Flow /\ f \in Mgmt /\ f \notin Data
  BY Ends
<1>4. /\ r \in Outcomes /\ r.out = o.out
      /\ r.st.pendingFlows = <<>>
      /\ Keeps(r.st, o.st, {"pendingFlows", "wakeups"})
  BY <1>2, ClearsDoes
<1>5. r.st \in Allocator
  BY <1>4 DEF Outcomes
<1>6. Quiet(F2, N2, F, N, p, r.st)
  BY <1>1, <1>2, <1>4, Between
<1>7. /\ F[p] \in Allocator /\ Local(F[p], p, f) /\ TableOK(F[p], p) /\ PendingOK(F[p], p)
      /\ JointAfter(F, N, p, f, F[p].status[f], F[p].made[f], N[p], N[Peer(p)])
  BY <1>1, <1>3, Here
<1>8. F[p].status[f] = "TRANSFER"
  BY <1>7 DEF PendingOK
<1>9. r.st.status = F[p].status /\ r.st.made = F[p].made /\ r.st.table = F[p].table
  BY <1>2, <1>4 DEF Keeps
<1>10. Effect(r.st, F[p], f, "TRANSFER", F[p].made[f], F[p].deleted[f], F[p].ae[f])
  <2>1. F[p].status = [F[p].status EXCEPT ![f] = "TRANSFER"]
    BY <1>7, <1>8, AllocatorFields
  <2>2. /\ r.st.status = [F[p].status EXCEPT ![f] = "TRANSFER"]
        /\ r.st.made = F[p].made /\ r.st.deleted = F[p].deleted
        /\ r.st.efcpis = F[p].efcpis /\ r.st.efcpTable = F[p].efcpTable /\ r.st.ae = F[p].ae
    BY <1>2, <1>4, <2>1 DEF Keeps
  <2>3. r.st.ae = IF f \in Data THEN [F[p].ae EXCEPT ![f] = F[p].ae[f]] ELSE F[p].ae
    BY <1>3, <2>2
  <2>4. Tied(F[p], f)
    BY <1>7 DEF Local
  <2>5. PICK st \in Allocator : st = F[p]
    BY <1>7
  <2>6. /\ r.st.status = [st.status EXCEPT ![f] = "TRANSFER"]
        /\ r.st.made = st.made /\ r.st.deleted = st.deleted
        /\ r.st.efcpis = st.efcpis /\ r.st.efcpTable = st.efcpTable
        /\ r.st.ae = IF f \in Data THEN [st.ae EXCEPT ![f] = st.ae[f]] ELSE st.ae
        /\ Tied(st, f)
    BY <2>2, <2>3, <2>4, <2>5
  <2>7. Effect(r.st, st, f, "TRANSFER", st.made[f], st.deleted[f], st.ae[f])
    BY ONLY <1>3, <1>5, <2>6, st \in Allocator, EffectOnStatus
  <2> QED
    BY <2>5, <2>7
<1>11. Sound(r.st, F[p], p, f, "TRANSFER", F[p].made[f], F[p].deleted[f], F[p].ae[f])
  <2>1. Fits(p, f, "TRANSFER", F[p].made[f], F[p].deleted[f], F[p].ae[f])
    BY <1>7, <1>8 DEF Local
  <2>2. TableOK(r.st, p)
    BY <1>7, <1>9 DEF TableOK
  <2>3. PendingOK(r.st, p)
    <3>1. r.st.status[MgmtOf(p)] = "TRANSFER"
      BY <1>8, <1>9
    <3> QED
      BY <1>4, <3>1 DEF PendingOK, ToSet, IsInjective
  <2> QED
    BY <1>10, <2>1, <2>2, <2>3 DEF Sound
<1>12. JointAfter(F, N, p, f, "TRANSFER", F[p].made[f], N[p], N[Peer(p)])
  BY <1>7, <1>8
<1> HIDE DEF F2, N2, f
<1>13. Base(F2, N2)
  BY <1>1, <1>3, <1>6, <1>11, <1>12, QuietStep
<1>14. Managed(F2, N2, L)
  <2>1. /\ f \in Mgmt => "TRANSFER" = F[p].status[f] \/ ("TRANSFER" = "ALLOC_PEND" /\ F[p].status[f] = "none")
        /\ f \in Data /\ F[p].made[f] > 0 => F[p].made[f] > 0 \/ Up(F[p])
    BY <1>8
  <2> QED
    BY <1>3, <1>6, <1>10, <2>1, ManagedAlone
<1>15. GoodAt(r, F, N, L, p)
  BY <1>4, <1>13, <1>14 DEF GoodAt, Good, F2, N2
<1> QED
  BY <1>4, <1>8, <1>9, <1>15 DEF f

(* A round of the loop, after which the flows from i + 1 on still wait. *)
Woken(x, F, N, L, p, q, i) ==
    /\ GoodAt(x, F, N, L, p)
    /\ x.st.pendingFlows = <<>>
    /\ x.st.status[MgmtOf(p)] = "TRANSFER"
    /\ \A j \in (i + 1)..Len(q) : x.st.status[q[j]] = "ALLOC_PEND" /\ x.st.made[q[j]] = 0
    /\ \A g \in Data :
          \/ x.st.status[g] = F[p].status[g]
          \/ F[p].status[g] = "ALLOC_PEND" /\ x.st.status[g] = "ALLOC_NEGA" /\ F[p].made[g] = 0

LEMMA WakesOne ==
    ASSUME NEW F \in [Ipcps -> Allocator], NEW N \in [Ipcps -> Seq(Message)], NEW L \in Nat,
           NEW p \in Ipcps, NEW q \in Seq(Flow), IsInjective(q), ToSet(q) \subseteq DataOf(p),
           NEW i \in 0..(Len(q) - 1), NEW x, Woken(x, F, N, L, p, q, i),
           \A g \in ToSet(q) : F[p].status[g] = "ALLOC_PEND" /\ F[p].made[g] = 0,
           NEW r, r = Start(x, q[i + 1])
    PROVE  Woken(r, F, N, L, p, q, i + 1)
<1> DEFINE f == q[i + 1]
           m == MgmtOf(p)
<1>1. /\ GoodAt(x, F, N, L, p)
      /\ x.st.pendingFlows = <<>> /\ x.st.status[m] = "TRANSFER"
      /\ \A j \in (i + 1)..Len(q) : x.st.status[q[j]] = "ALLOC_PEND" /\ x.st.made[q[j]] = 0
      /\ \A g \in Data :
          \/ x.st.status[g] = F[p].status[g]
          \/ F[p].status[g] = "ALLOC_PEND" /\ x.st.status[g] = "ALLOC_NEGA" /\ F[p].made[g] = 0
  BY DEF Woken
<1>2. Len(q) \in Nat /\ i + 1 \in 1..Len(q) /\ i + 1 \in (i + 1)..Len(q) /\ DOMAIN q = 1..Len(q)
  OBVIOUS
<1>3. \A j \in 1..Len(q) : q[j] \in ToSet(q)
  BY <1>2 DEF ToSet
<1>4. f \in DataOf(p) /\ f \in Data /\ F[p].status[f] = "ALLOC_PEND" /\ F[p].made[f] = 0
  <2>1. f \in ToSet(q)
    BY <1>2, <1>3
  <2> QED
    BY <2>1, Ends
<1>5. m \in Mgmt /\ m \in Flow /\ m # f
  BY <1>4, Ends
<1>6. Startable(x.st, p, f)
  <2>1. f \notin ToSet(x.st.pendingFlows)
    BY <1>1 DEF ToSet
  <2>2. Up(x.st)
    BY <1>1, <1>5 DEF Up
  <2> QED
    BY <1>1, <1>2, <2>1, <2>2 DEF Startable
<1> HIDE DEF f
<1>7. GoodAt(r, F, N, L, p) /\ Started(r, x, f)
  <2>1. r = Start(x, f)
    BY DEF f
  <2> QED
    BY ONLY <1>1, <1>4, <1>6, <2>1, F \in [Ipcps -> Allocator], N \in [Ipcps -> Seq(Message)],
       L \in Nat, p \in Ipcps, StartGood
<1>8. \A g \in Flow : g # f => r.st.status[g] = x.st.status[g] /\ r.st.made[g] = x.st.made[g]
  BY <1>7 DEF Started, Others, Untouched
<1>9. r.st.pendingFlows = <<>> /\ r.st.status[m] = "TRANSFER"
  BY <1>1, <1>5, <1>7, <1>8 DEF Started, SameQueues
<1>10. ASSUME NEW j \in (i + 2)..Len(q) PROVE r.st.status[q[j]] = "ALLOC_PEND" /\ r.st.made[q[j]] = 0
  <2>1. j \in (i + 1)..Len(q) /\ j \in 1..Len(q) /\ j # i + 1
    BY <1>2
  <2>2. q[j] # f
    BY <1>2, <2>1 DEF IsInjective, f
  <2>3. q[j] \in Flow
    BY <2>1
  <2> QED
    BY <1>1, <1>8, <2>1, <2>2, <2>3
<1>11. ASSUME NEW g \in Data
       PROVE  \/ r.st.status[g] = F[p].status[g]
              \/ F[p].status[g] = "ALLOC_PEND" /\ r.st.status[g] = "ALLOC_NEGA" /\ F[p].made[g] = 0
  <2>1. CASE g = f
    BY <1>4, <1>7, <2>1 DEF Started
  <2>2. CASE g # f
    <3>1. g \in Flow
      BY Ends
    <3> QED
      BY <1>1, <1>8, <2>2, <3>1
  <2> QED
    BY <2>1, <2>2
<1>12. (i + 1) + 1 = i + 2
  OBVIOUS
<1> QED
  BY <1>7, <1>9, <1>10, <1>11, <1>12 DEF Woken

(* The loop of WakePendingFlows, as long as it produces outcomes. *)
LEMMA WakeLoop ==
    ASSUME NEW o, NEW x \in Outcomes, Clears(x, o), NEW q \in Seq(Flow), q = o.st.pendingFlows,
           NEW a, a \in [0..Len(q) -> Outcomes], a[0] = x,
           \A k \in 1..Len(q) : a[k] = Start(a[k - 1], q[k])
    PROVE  WakePendingFlows(o) = a[Len(q)]
<1> DEFINE n == Len(q)
           woken[i \in 0..n] ==
             IF i = 0 THEN [o EXCEPT !.st.pendingFlows = <<>>, !.st.wakeups = @ - 1]
             ELSE Start(woken[i - 1], q[i])
           G(z) == [i \in 0..n |->
             IF i = 0 THEN [o EXCEPT !.st.pendingFlows = <<>>, !.st.wakeups = @ - 1]
             ELSE Start(z[i - 1], q[i])]
<1>1. WakePendingFlows(o) = woken[n]
  BY DEF WakePendingFlows
<1>2. n \in Nat
  OBVIOUS
<1>3. a = G(a)
  <2>1. ASSUME NEW k \in 0..n PROVE a[k] = G(a)[k]
    <3>1. CASE k = 0
      BY <3>1 DEF Clears
    <3>2. CASE k # 0
      <4>1. k \in 1..n
        BY <1>2, <3>2
      <4> QED
        BY <3>2, <4>1
    <3> QED
      BY <3>1, <3>2
  <2> QED
    BY <2>1
<1>4. woken = G(woken)
  <2>1. \E z : z = G(z)
    BY <1>3
  <2>2. woken = CHOOSE z : z = G(z)
    OBVIOUS
  <2> HIDE DEF woken, G
  <2> QED
    BY <2>1, <2>2
<1>5. /\ woken[0] = x
      /\ \A i \in 1..n : woken[i] = Start(woken[i - 1], q[i])
  <2> HIDE DEF woken
  <2>1. \A i \in 0..n : woken[i] = G(woken)[i]
    BY <1>4
  <2>2. woken[0] = x
    BY <1>2, <2>1 DEF Clears
  <2>3. ASSUME NEW i \in 1..n PROVE woken[i] = Start(woken[i - 1], q[i])
    <3>1. i \in 0..n /\ i # 0
      BY <1>2
    <3> QED
      BY <2>1, <3>1
  <2> QED
    BY <2>2, <2>3
<1> HIDE DEF woken, n
<1> DEFINE S == {i \in 0..n : woken[i] = a[i]}
<1>6. 0 \in S
  BY <1>2, <1>5
<1>7. \A i \in 0..(n - 1) : i \in S => i + 1 \in S
  <2> SUFFICES ASSUME NEW i \in 0..(n - 1), i \in S PROVE i + 1 \in S
    OBVIOUS
  <2>1. i + 1 \in 1..n /\ i + 1 \in 0..n /\ (i + 1) - 1 = i
    BY <1>2
  <2>2. woken[i + 1] = Start(woken[i], q[i + 1])
    BY <1>5, <2>1
  <2>3. a[i + 1] = Start(a[i], q[i + 1])
    BY <2>1 DEF n
  <2> QED
    BY <2>1, <2>2, <2>3
<1>8. n \in S
  <2> HIDE DEF S
  <2>1. 0..n \subseteq S
    BY <1>2, <1>6, <1>7, UpTo
  <2> QED
    BY <1>2, <2>1
<1> QED
  BY <1>1, <1>8 DEF n

LEMMA WakeGood ==
    ASSUME NEW F, NEW N, NEW L \in Nat, Good(F, N, L), NEW p \in Ipcps,
           F[p].wakeups > 0, NEW o, Begins(o, F[p]), NEW r, r = WakePendingFlows(o)
    PROVE  /\ GoodAt(r, F, N, L, p)
           /\ \A g \in Data :
                 \/ r.st.status[g] = F[p].status[g]
                 \/ F[p].status[g] = "ALLOC_PEND" /\ r.st.status[g] = "ALLOC_NEGA" /\ F[p].made[g] = 0
<1> DEFINE q == F[p].pendingFlows
           n == Len(q)
<1>1. F \in [Ipcps -> Allocator] /\ N \in [Ipcps -> Seq(Message)] /\ PendingOK(F[p], p)
  BY DEF Good, Base
<1>2. q \in Seq(Flow) /\ n \in Nat /\ DOMAIN q = 1..n
  <2>1. F[p] \in Allocator
    BY <1>1
  <2> QED
    BY <2>1, AllocatorFields
<1>3. /\ IsInjective(q) /\ ToSet(q) \subseteq DataOf(p)
      /\ \A g \in ToSet(q) : F[p].status[g] = "ALLOC_PEND" /\ F[p].made[g] = 0
  BY <1>1 DEF PendingOK
<1>4. PICK x : Clears(x, o)
  BY DEF Clears
<1>5. /\ GoodAt(x, F, N, L, p) /\ x \in Outcomes
      /\ x.st.pendingFlows = <<>>
      /\ x.st.status = F[p].status /\ x.st.made = F[p].made
      /\ F[p].status[MgmtOf(p)] = "TRANSFER"
  <2>1. /\ GoodAt(x, F, N, L, p)
        /\ x.st.pendingFlows = <<>>
        /\ x.st.status = F[p].status /\ x.st.made = F[p].made
        /\ F[p].status[MgmtOf(p)] = "TRANSFER"
    BY ONLY <1>4, L \in Nat, Good(F, N, L), p \in Ipcps, F[p].wakeups > 0,
       Begins(o, F[p]), ClearsGood
  <2> QED
    BY <2>1 DEF GoodAt
<1>6. o.st.pendingFlows = q
  BY DEF Outcome, Begins
<1> HIDE DEF q, n
<1> DEFINE X == Outcomes
           H == [k \in 1..n |-> [y \in X |->
                    IF Start(y, q[k]) \in X THEN Start(y, q[k]) ELSE y]]
<1>7. H \in [1..n -> [X -> X]]
  OBVIOUS
<1>8. PICK a : Loops(a, n, X, x, H)
  <2> HIDE DEF H, X
  <2>1. x \in X
    BY <1>5 DEF X
  <2> QED
    BY ONLY <1>2, <1>7, <2>1, Looping
<1>9. a \in [0..n -> X] /\ a[0] = x /\ \A k \in 1..n : a[k] = H[k][a[k - 1]]
  BY <1>8 DEF Loops
<1>10. Woken(x, F, N, L, p, q, 0)
  <2>1. \A j \in 1..Len(q) : q[j] \in ToSet(q)
    BY <1>2 DEF ToSet, n
  <2>2. \A j \in (0 + 1)..Len(q) : x.st.status[q[j]] = "ALLOC_PEND" /\ x.st.made[q[j]] = 0
    BY <1>3, <1>5, <2>1
  <2> QED
    BY <1>5, <2>2 DEF Woken
<1> DEFINE S == {i \in 0..n : /\ Woken(a[i], F, N, L, p, q, i)
                              /\ i > 0 => a[i] = Start(a[i - 1], q[i])}
<1>11. 0 \in S
  BY <1>2, <1>9, <1>10
<1>12. \A i \in 0..(n - 1) : i \in S => i + 1 \in S
  <2> SUFFICES ASSUME NEW i \in 0..(n - 1), i \in S PROVE i + 1 \in S
    OBVIOUS
  <2>1. i + 1 \in 1..n /\ i + 1 \in 0..n /\ i \in 0..n /\ (i + 1) - 1 = i
    BY <1>2
  <2>2. Woken(Start(a[i], q[i + 1]), F, N, L, p, q, i + 1)
    <3>1. i \in 0..(Len(q) - 1)
      BY DEF n
    <3>2. \A g \in ToSet(q) : F[p].status[g] = "ALLOC_PEND" /\ F[p].made[g] = 0
      BY <1>3
    <3>3. Woken(a[i], F, N, L, p, q, i)
      OBVIOUS
    <3>4. PICK y : y = a[i]
      OBVIOUS
    <3>5. Woken(y, F, N, L, p, q, i)
      BY <3>3, <3>4
    <3>6. PICK z : z = Start(y, q[i + 1])
      OBVIOUS
    <3>7. Woken(z, F, N, L, p, q, i + 1)
      BY ONLY <1>1, <1>2, <1>3, <3>1, <3>2, <3>5, <3>6, L \in Nat, p \in Ipcps, WakesOne
    <3> QED
      BY <3>4, <3>6, <3>7
  <2>3. Start(a[i], q[i + 1]) \in X
    BY <2>2 DEF Woken, GoodAt
  <2>4. a[i + 1] = Start(a[i], q[i + 1])
    <3>1. a[i] \in X /\ a[i + 1] = H[i + 1][a[i]]
      BY <1>9, <2>1
    <3> QED
      BY <2>1, <2>3, <3>1
  <2> HIDE DEF H, X
  <2> QED
    BY <2>1, <2>2, <2>4
<1>13. 0..n \subseteq S
  <2> HIDE DEF S
  <2> QED
    BY ONLY <1>2, <1>11, <1>12, UpTo
<1>14. \A k \in 1..n : a[k] = Start(a[k - 1], q[k])
  <2> SUFFICES ASSUME NEW k \in 1..n PROVE a[k] = Start(a[k - 1], q[k])
    OBVIOUS
  <2>1. k \in 0..n /\ k > 0
    BY <1>2
  <2>2. k \in S
    BY ONLY <1>13, <2>1
  <2> QED
    BY ONLY <2>1, <2>2
<1>15. Woken(a[n], F, N, L, p, q, n)
  <2>1. n \in S
    BY <1>2, <1>13
  <2> QED
    BY ONLY <2>1
<1> HIDE DEF H, S
<1>16. r = a[n]
  <2>1. a \in [0..Len(q) -> Outcomes] /\ \A k \in 1..Len(q) : a[k] = Start(a[k - 1], q[k])
    BY <1>9, <1>14 DEF n, X
  <2>2. WakePendingFlows(o) = a[Len(q)]
    BY ONLY <1>2, <1>4, <1>5, <1>6, <1>9, <2>1, WakeLoop
  <2> QED
    BY <2>2 DEF n
<1> QED
  BY <1>15, <1>16 DEF Woken

-----------------------------------------------------------------------------
(* What may happen to a flow at one end, p: from s to t, when its status   *)
(* at the other end is other.                                              *)
Turn(p, f, s, t, other) ==
    \/ t = s
    \/ p = Caller(f) /\ s = "none" /\ t = "ALLOC_PEND"
    \/ p = Caller(f) /\ s \in {"none", "ALLOC_PEND"} /\ t = "ALLOC_NEGA" /\ other \in {"none", "ALLOC_NEGA"}
    \/ p = Caller(f) /\ s = "ALLOC_PEND" /\ t = "TRANSFER" /\ other \in {"TRANSFER", "DEALLOC_PEND"}
    \/ p = Callee(f) /\ s = "none" /\ t \in {"TRANSFER", "ALLOC_NEGA"} /\ other = "ALLOC_PEND"
    \/ s = "TRANSFER" /\ t = "DEALLOC_PEND"
    \/ s = "TRANSFER" /\ t = "DEALLOCATED" /\ other = "DEALLOC_PEND"
    \/ s = "DEALLOC_PEND" /\ t = "DEALLOCATED" /\ other = "DEALLOCATED"

Lives(t, F, p) == \A g \in Data : Turn(p, g, F[p].status[g], t.status[g], F[Peer(p)].status[g])

LEMMA LivesOne ==
    ASSUME NEW F, NEW p, F[p] \in Allocator, NEW t, NEW f \in Flow, NEW s, NEW made,
           NEW deleted, NEW e, Effect(t, F[p], f, s, made, deleted, e),
           f \in Data => Turn(p, f, F[p].status[f], s, F[Peer(p)].status[f])
    PROVE  Lives(t, F, p)
<1>1. PICK st \in Allocator : st = F[p]
  OBVIOUS
<1>2. Effect(t, st, f, s, made, deleted, e)
  BY <1>1
<1>3. t.status[f] = s /\ Others(t, st, f)
  BY ONLY <1>2, st \in Allocator, f \in Flow, EffectOn
<1>4. ASSUME NEW g \in Data, g # f PROVE t.status[g] = F[p].status[g]
  <2>1. g \in Flow
    BY Ends
  <2> QED
    BY <1>1, <1>3, <1>4, <2>1 DEF Others, Untouched
<1> QED
  BY <1>3, <1>4 DEF Lives, Turn

-----------------------------------------------------------------------------
(* The arrival of a message m at p leaves C of the messages under way. *)
Heard(C, N, p, m) == N[p] # <<>> /\ Head(N[p]) = m /\ C = [N EXCEPT ![p] = Tail(@)]

LEMMA Hearing ==
    ASSUME NEW F, NEW N, Base(F, N), NEW p \in Ipcps, NEW C, NEW type \in MessageTypes, NEW f \in Flow,
           Heard(C, N, p, Msg(type, f))
    PROVE  /\ Base(F, C)
           /\ C[p] = Tail(N[p]) /\ C[Peer(p)] = N[Peer(p)]
           /\ C \in [Ipcps -> Seq(Message)] /\ F \in [Ipcps -> Allocator]
           /\ Has(N[p], type, f)
           /\ 1 \in 1..Len(N[p]) /\ N[p][1] = Msg(type, f)
           /\ type \in Answers => \A t \in Answers : ~Has(C[p], t, f)
           /\ JointAfter(F, N, p, f, F[p].status[f], F[p].made[f], N[p], N[Peer(p)])
<1>1. N \in [Ipcps -> Seq(Message)] /\ F \in [Ipcps -> Allocator] /\ N[p] \in Seq(Message)
  BY DEF Base
<1>2. N[p] # <<>> /\ Head(N[p]) = Msg(type, f) /\ C = [N EXCEPT ![p] = Tail(N[p])]
  BY DEF Heard
<1>3. 1 \in 1..Len(N[p]) /\ N[p][1] = Msg(type, f) /\ Tail(N[p]) \in Seq(Message)
  BY <1>1, <1>2
<1>4. C[p] = Tail(N[p]) /\ C[Peer(p)] = N[Peer(p)] /\ C \in [Ipcps -> Seq(Message)]
  BY <1>1, <1>2, <1>3, Ends
<1>5. Has(N[p], type, f)
  BY <1>3 DEF Has
<1>6. Without(C[p], N[p], 1)
  BY <1>1, <1>2, <1>4, TailIsWithout
<1>7. Base(F, C)
  <2>1. PICK r : r = C[p]
    OBVIOUS
  <2>2. Without(r, N[p], 1) /\ C = [N EXCEPT ![p] = r]
    BY <1>2, <1>4, <1>6, <2>1
  <2> QED
    BY ONLY <1>3, <2>2, Base(F, N), p \in Ipcps, MessageGoes
<1>8. JointAfter(F, N, p, f, F[p].status[f], F[p].made[f], N[p], N[Peer(p)])
  BY Here
<1>9. ASSUME type \in Answers PROVE \A t \in Answers : ~Has(C[p], t, f)
  <2>1. OneAnswer(N[p], f)
    <3>1. JointIn(F, N, f)
      BY DEF Base
    <3>2. OneAnswer(N[Caller(f)], f) /\ ~Has(N[Callee(f)], "M_CREATE_R+", f) /\ ~Has(N[Callee(f)], "M_CREATE_R-", f)
      BY <3>1 DEF JointIn, Joint
    <3>3. p = Caller(f)
      <4>1. p = Caller(f) \/ p = Callee(f)
        BY Ends
      <4> QED
        BY <1>5, <1>9, <3>2, <4>1 DEF Answers
    <3> QED
      BY <3>2, <3>3
  <2>2. N[p][1].flow = f /\ N[p][1].type \in Answers
    BY <1>3, <1>9 DEF Msg
  <2>3. PICK q, r : q \in Seq(Message) /\ q = N[p] /\ r = C[p]
    BY <1>1
  <2>4. Without(r, q, 1) /\ OneAnswer(q, f) /\ q[1].flow = f /\ q[1].type \in Answers /\ 1 \in 1..Len(q)
    BY <1>3, <1>6, <2>1, <2>2, <2>3
  <2>5. \A t \in Answers : ~Has(r, t, f)
    BY ONLY <2>3, <2>4, WithoutHas
  <2> QED
    BY <2>3, <2>5
<1> QED
  BY <1>1, <1>3, <1>4, <1>5, <1>7, <1>8, <1>9

LEMMA HeardTaken ==
    ASSUME NEW N, NEW p, NEW C, NEW type, NEW f, Heard(C, N, p, Msg(type, f)), C[p] = Tail(N[p]),
           NEW t, type = "M_CREATE_R+" /\ f = MgmtOf(p) => t.status[MgmtOf(p)] = "TRANSFER"
    PROVE  Taken(C[p], N[p], t, p)
<1>1. N[p] # <<>> /\ Head(N[p]) = Msg(type, f)
  BY DEF Heard
<1>2. Msg(type, f) = Msg("M_CREATE_R+", MgmtOf(p)) => type = "M_CREATE_R+" /\ f = MgmtOf(p)
  BY DEF Msg
<1> QED
  BY <1>1, <1>2 DEF Taken

(* A message that is ignored. *)
LEMMA Ignored ==
    ASSUME NEW F, NEW N, NEW L \in Nat, Good(F, N, L), NEW p \in Ipcps, NEW C,
           NEW type \in MessageTypes, type # "M_CREATE_R+", NEW f \in Flow,
           Heard(C, N, p, Msg(type, f)), NEW o, Begins(o, F[p])
    PROVE  GoodAt(o, F, C, L, p) /\ Lives(o.st, F, p)
<1>1. Base(F, N) /\ Managed(F, N, L)
  BY DEF Good
<1>2. /\ Base(F, C) /\ C[p] = Tail(N[p]) /\ C[Peer(p)] = N[Peer(p)]
      /\ C \in [Ipcps -> Seq(Message)] /\ F \in [Ipcps -> Allocator]
  BY ONLY <1>1, p \in Ipcps, type \in MessageTypes, f \in Flow, Heard(C, N, p, Msg(type, f)), Hearing
<1>3. Idling(o, F, C, p)
  BY ONLY <1>2, p \in Ipcps, Begins(o, F[p]), NothingDone
<1>4. Managed(F, C, L)
  <2>1. Taken(C[p], N[p], F[p], p)
    BY <1>2, HeardTaken
  <2>2. SentOn(C[Peer(p)], N[Peer(p)], F[Peer(p)], Peer(p))
    BY <1>2 DEF SentOn
  <2>3. N \in [Ipcps -> Seq(Message)]
    BY <1>1 DEF Base
  <2>4. PICK t : t = F[p]
    OBVIOUS
  <2>5. /\ Taken(C[p], N[p], t, p) /\ F[p] = t
        /\ \A m \in Mgmt : F[p].status[m] = "TRANSFER" => t.status[m] = "TRANSFER"
        /\ \A g \in Data : t.made[g] > 0 => F[p].made[g] > 0 \/ Up(t) \/ (p = Callee(g) /\ L > 0)
        /\ \A m \in Mgmt : p = Callee(m) /\ t.status[m] = "TRANSFER" =>
                    F[p].status[m] = "TRANSFER" \/ Has(C[Caller(m)], "M_CREATE_R+", m)
    BY <2>1, <2>4
  <2> QED
    BY ONLY <1>1, <2>2, <2>3, <2>5, L \in Nat, p \in Ipcps, ManagedKept
<1> QED
  BY <1>2, <1>3, <1>4 DEF GoodAt, Good, Idling, Lives, Turn

-----------------------------------------------------------------------------
(* Messages, type by type. p hears of f; o is where it starts from.        *)
Hears(F, N, L, C, p, type, f, o) ==
    /\ Good(F, N, L) /\ L \in Nat
    /\ Heard(C, N, p, Msg(type, f))
    /\ Begins(o, F[p])

(* What is known at the arrival. *)
Hearkens(F, N, L, C, p, type, f, o) ==
    /\ Base(F, N) /\ Managed(F, N, L) /\ L \in Nat
    /\ Base(F, C) /\ C[p] = Tail(N[p]) /\ C[Peer(p)] = N[Peer(p)]
    /\ C \in [Ipcps -> Seq(Message)] /\ F \in [Ipcps -> Allocator]
    /\ o \in Outcomes /\ o.st = F[p] /\ o.out = <<>>
    /\ FaWith(F, p, o) = F /\ NetWith(C, p, o) = C
    /\ Local(F[p], p, f) /\ Local(F[Peer(p)], Peer(p), f)
    /\ TableOK(F[p], p) /\ PendingOK(F[p], p)
    /\ 1 \in 1..Len(N[p]) /\ N[p][1] = Msg(type, f)

LEMMA Hearer ==
    ASSUME NEW F, NEW N, NEW L, NEW C, NEW p \in Ipcps, NEW type \in MessageTypes, NEW f \in Flow,
           NEW o, Hears(F, N, L, C, p, type, f, o)
    PROVE  Hearkens(F, N, L, C, p, type, f, o)
<1>1. /\ Base(F, N) /\ Managed(F, N, L) /\ L \in Nat /\ Begins(o, F[p])
      /\ Heard(C, N, p, Msg(type, f))
  BY DEF Good, Hears
<1>2. /\ Base(F, C) /\ C[p] = Tail(N[p]) /\ C[Peer(p)] = N[Peer(p)]
      /\ C \in [Ipcps -> Seq(Message)] /\ F \in [Ipcps -> Allocator]
      /\ 1 \in 1..Len(N[p]) /\ N[p][1] = Msg(type, f)
  BY ONLY <1>1, p \in Ipcps, type \in MessageTypes, f \in Flow, Hearing
<1>3. Idling(o, F, C, p)
  BY ONLY <1>1, <1>2, p \in Ipcps, NothingDone
<1>4. /\ Local(F[p], p, f) /\ Local(F[Peer(p)], Peer(p), f)
      /\ TableOK(F[p], p) /\ PendingOK(F[p], p)
  BY ONLY <1>1, p \in Ipcps, f \in Flow, Here
<1> QED
  BY <1>1, <1>2, <1>3, <1>4 DEF Idling, Hearkens

(* What the invariant says of the flow, given the message.                 *)
LEMMA WhatIsHeard ==
    ASSUME NEW F, NEW N, NEW L, NEW C, NEW p \in Ipcps, NEW type \in MessageTypes, NEW f \in Flow,
           NEW o, Hears(F, N, L, C, p, type, f, o)
    PROVE  LET s == F[p].status[f]
               other == F[Peer(p)].status[f]
           IN  /\ type = "M_CREATE" => p = Callee(f) /\ p # Caller(f) /\ F[Peer(p)].made[f] = 1
               /\ type = "M_CREATE" /\ s = "none" => other = "ALLOC_PEND"
               /\ type \in Answers =>
                     p = Caller(f) /\ s = "ALLOC_PEND" /\ F[p].made[f] = 1
                     /\ \A t \in Answers : ~Has(C[p], t, f)
               /\ type = "M_CREATE_R+" => other \in {"TRANSFER", "DEALLOC_PEND"}
               /\ type = "M_CREATE_R-" => other = "ALLOC_NEGA" /\ f \in Data
               /\ type = "M_DELETE" /\ s = "TRANSFER" => other = "DEALLOC_PEND" /\ f \in Data
               /\ type = "M_DELETE_R" /\ s = "DEALLOC_PEND" => other = "DEALLOCATED" /\ f \in Data
<1>1. /\ Base(F, N) /\ Heard(C, N, p, Msg(type, f))
  BY DEF Good, Hears
<1>2. /\ Has(N[p], type, f)
      /\ type \in Answers => \A t \in Answers : ~Has(C[p], t, f)
      /\ JointAfter(F, N, p, f, F[p].status[f], F[p].made[f], N[p], N[Peer(p)])
  BY ONLY <1>1, p \in Ipcps, type \in MessageTypes, f \in Flow, Hearing
<1>3. /\ Local(F[p], p, f) /\ Local(F[Peer(p)], Peer(p), f)
      /\ p = Caller(f) <=> p # Callee(f)
  BY ONLY <1>1, p \in Ipcps, f \in Flow, Here
<1>4. /\ F[p].made[f] \in {0, 1} /\ F[Peer(p)].made[f] \in {0, 1}
      /\ f \in Mgmt => /\ F[p].status[f] \in {"none", "ALLOC_PEND", "TRANSFER"}
                       /\ F[Peer(p)].status[f] \in {"none", "ALLOC_PEND", "TRANSFER"}
  BY <1>3 DEF Local, Fits
<1>5. f \in Data \/ f \in Mgmt
  BY Ends
<1>6. CASE p = Caller(f)
  <2>1. Joint(f, F[p].status[f], F[Peer(p)].status[f], F[p].made[f], N[p], N[Peer(p)])
    BY <1>2, <1>6 DEF JointAfter
  <2> QED
    BY <1>2, <1>3, <1>4, <1>5, <1>6, <2>1 DEF Joint, Answers, MessageTypes
<1>7. CASE p # Caller(f)
  <2>1. Joint(f, F[Peer(p)].status[f], F[p].status[f], F[Peer(p)].made[f], N[Peer(p)], N[p])
    BY <1>2, <1>7 DEF JointAfter
  <2>2. F[Peer(p)].made[f] = 1
    BY <1>2, <1>4, <2>1 DEF Joint
  <2> QED
    BY <1>2, <1>3, <1>4, <1>5, <1>7, <2>1, <2>2 DEF Joint, Answers, MessageTypes
<1> QED
  BY <1>6, <1>7

(* A request that is not covered by management, at the callee. *)
LEMMA RequestHeard ==
    ASSUME NEW F, NEW N, NEW L, NEW C, NEW p \in Ipcps, NEW f \in Data,
           NEW o, Hears(F, N, L, C, p, "M_CREATE", f, o)
    PROVE  Up(F[p]) \/ L > 0
<1>1. /\ Base(F, N) /\ Managed(F, N, L) /\ L \in Nat /\ Heard(C, N, p, Msg("M_CREATE", f))
  BY DEF Good, Hears
<1>2. PICK type \in MessageTypes : type = "M_CREATE"
  BY DEF MessageTypes
<1>3. 1 \in 1..Len(N[p]) /\ N[p][1] = Msg("M_CREATE", f)
  <2>1. f \in Flow /\ Hears(F, N, L, C, p, type, f, o)
    BY <1>2, Ends
  <2>2. Hearkens(F, N, L, C, p, type, f, o)
    BY <2>1, Hearer
  <2> QED
    BY <1>2, <2>2 DEF Hearkens
<1>4. CASE L = 0
  <2>1. \A j \in 1..Len(N[p]) :
          N[p][j].type = "M_CREATE" /\ N[p][j].flow \in Data =>
            Up(F[p]) \/ \E i \in 1..(j - 1) : N[p][i] = Msg("M_CREATE_R+", MgmtOf(p))
    BY <1>1, <1>4 DEF Managed
  <2>2. N[p][1].type = "M_CREATE" /\ N[p][1].flow \in Data
    BY <1>3 DEF Msg
  <2>3. Up(F[p]) \/ \E i \in 1..(1 - 1) : N[p][i] = Msg("M_CREATE_R+", MgmtOf(p))
    BY <1>3, <2>1, <2>2
  <2> QED
    BY <2>3
<1> QED
  BY <1>1, <1>4

(* The outcome of a message, quiet or with an answer. *)
Tells(F2, N2, F, C, p, t, f, s) ==
    \/ /\ Quiet(F2, N2, F, C, p, t)
       /\ f \in Mgmt /\ p = Callee(f) /\ s = "TRANSFER" => F[p].status[f] = "TRANSFER"
    \/ \E type \in MessageTypes :
          /\ Speaks(F2, N2, F, C, p, t, type, f)
          /\ type = "M_CREATE" /\ f \in Data => Up(F[p])
          /\ f \in Mgmt /\ p = Callee(f) /\ s = "TRANSFER" =>
                F[p].status[f] = "TRANSFER" \/ type = "M_CREATE_R+"

MayBind(F, p, f, made, L) ==
    f \in Data /\ made > 0 => F[p].made[f] > 0 \/ Up(F[p]) \/ (p = Callee(f) /\ L > 0)

LEMMA ManagedTold ==
    ASSUME NEW F, NEW N, NEW L \in Nat, Base(F, N), Managed(F, N, L), NEW p \in Ipcps,
           NEW f \in Flow, NEW t, NEW s, NEW made, NEW deleted, NEW e,
           Effect(t, F[p], f, s, made, deleted, e),
           NEW C, Taken(C[p], N[p], t, p), C[Peer(p)] = N[Peer(p)],
           f \in Mgmt /\ F[p].status[f] = "TRANSFER" => s = "TRANSFER",
           MayBind(F, p, f, made, L),
           NEW F2, NEW N2, Tells(F2, N2, F, C, p, t, f, s)
    PROVE  Managed(F2, N2, L)
  BY ManagedStep DEF Tells, MayBind

LEMMA HeardManaged ==
    ASSUME NEW F, NEW N, NEW L, NEW C, NEW p \in Ipcps, NEW type \in MessageTypes, NEW f \in Flow,
           NEW o, Hears(F, N, L, C, p, type, f, o),
           NEW r \in Outcomes, NEW s, NEW made, NEW deleted, NEW e,
           Effect(r.st, F[p], f, s, made, deleted, e),
           type = "M_CREATE_R+" /\ f = MgmtOf(p) => s = "TRANSFER",
           f \in Mgmt /\ F[p].status[f] = "TRANSFER" => s = "TRANSFER",
           f \in Data /\ made > 0 => F[p].made[f] > 0 \/ Up(F[p]) \/ (p = Callee(f) /\ L > 0),
           \/ /\ r.out = o.out
              /\ f \in Mgmt /\ p = Callee(f) /\ s = "TRANSFER" => F[p].status[f] = "TRANSFER"
           \/ \E answer \in MessageTypes :
                 /\ r.out = Append(o.out, Msg(answer, f))
                 /\ answer = "M_CREATE" /\ f \in Data => Up(F[p])
                 /\ f \in Mgmt /\ p = Callee(f) /\ s = "TRANSFER" =>
                       F[p].status[f] = "TRANSFER" \/ answer = "M_CREATE_R+"
    PROVE  Managed(FaWith(F, p, r), NetWith(C, p, r), L)
<1> DEFINE F2 == FaWith(F, p, r)
           N2 == NetWith(C, p, r)
<1>1. /\ Base(F, N) /\ Managed(F, N, L) /\ L \in Nat
      /\ C[p] = Tail(N[p]) /\ C[Peer(p)] = N[Peer(p)]
      /\ C \in [Ipcps -> Seq(Message)] /\ F \in [Ipcps -> Allocator]
      /\ o \in Outcomes /\ FaWith(F, p, o) = F /\ NetWith(C, p, o) = C
  <2>1. Hearkens(F, N, L, C, p, type, f, o)
    BY Hearer
  <2> QED
    BY <2>1 DEF Hearkens
<1>2. F[p] \in Allocator /\ Heard(C, N, p, Msg(type, f))
  BY <1>1 DEF Hears
<1>3. Taken(C[p], N[p], r.st, p)
  <2>1. r.st.status[f] = s
    <3>1. PICK st \in Allocator : st = F[p]
      BY <1>2
    <3>2. Effect(r.st, st, f, s, made, deleted, e)
      BY <3>1
    <3> QED
      BY ONLY <3>2, st \in Allocator, f \in Flow, EffectOn
  <2> QED
    BY <1>1, <1>2, <2>1, HeardTaken
<1>4. r.out = o.out => Quiet(F2, N2, F, C, p, r.st)
  BY <1>1, Between
<1>5. \A answer \in MessageTypes :
          r.out = Append(o.out, Msg(answer, f)) => Speaks(F2, N2, F, C, p, r.st, answer, f)
  BY <1>1, Between
<1> HIDE DEF F2, N2
<1>6. Tells(F2, N2, F, C, p, r.st, f, s)
  BY <1>4, <1>5 DEF Tells
<1>7. PICK t : t = r.st
  OBVIOUS
<1>8. /\ Effect(t, F[p], f, s, made, deleted, e) /\ Taken(C[p], N[p], t, p)
      /\ Tells(F2, N2, F, C, p, t, f, s) /\ MayBind(F, p, f, made, L)
  BY <1>3, <1>6, <1>7 DEF MayBind
<1>9. Managed(F2, N2, L)
  BY ONLY <1>1, <1>8, p \in Ipcps, f \in Flow,
     f \in Mgmt /\ F[p].status[f] = "TRANSFER" => s = "TRANSFER", ManagedTold
<1> QED
  BY <1>9 DEF F2, N2

LEMMA HeardCreate ==
    ASSUME NEW F, NEW N, NEW L, NEW C, NEW p \in Ipcps, NEW type \in MessageTypes, NEW f \in Flow,
           type = "M_CREATE", NEW o, Hears(F, N, L, C, p, type, f, o), NEW r, r = ReceiveCreate(o, f)
    PROVE  GoodAt(r, F, C, L, p) /\ Lives(r.st, F, p)
<1> DEFINE F2 == FaWith(F, p, r)
           N2 == NetWith(C, p, r)
<1>1. /\ Base(F, N) /\ L \in Nat /\ Base(F, C)
      /\ C \in [Ipcps -> Seq(Message)] /\ F \in [Ipcps -> Allocator]
      /\ o \in Outcomes /\ o.st = F[p] /\ o.out = <<>>
      /\ FaWith(F, p, o) = F /\ NetWith(C, p, o) = C
      /\ Local(F[p], p, f)
  <2>1. Hearkens(F, N, L, C, p, type, f, o)
    BY Hearer
  <2> QED
    BY <2>1 DEF Hearkens
<1>2. /\ p = Callee(f) /\ p # Caller(f) /\ F[Peer(p)].made[f] = 1
      /\ F[p].status[f] = "none" => F[Peer(p)].status[f] = "ALLOC_PEND"
  BY WhatIsHeard
<1>3. CASE F[p].status[f] # "none"
  <2>1. r = o
    BY <1>1, <1>3 DEF ReceiveCreate
  <2>2. Good(F, N, L) /\ Heard(C, N, p, Msg(type, f)) /\ Begins(o, F[p]) /\ type # "M_CREATE_R+"
    BY DEF Hears
  <2>3. GoodAt(o, F, C, L, p) /\ Lives(o.st, F, p)
    BY ONLY <1>1, <2>2, p \in Ipcps, type \in MessageTypes, f \in Flow, Ignored
  <2> QED
    BY <2>1, <2>3
<1>4. CASE F[p].status[f] = "none"
  <2>1. o.st.status[f] = "none" /\ o.st.made[f] = 0 /\ o.st.deleted[f] = 0 /\ o.st.efcpis[f] = 0 /\ Tied(o.st, f)
    BY <1>1, <1>4 DEF Local, Fits, Tied
  <2>2. \E answer \in MessageTypes : \E s, made, e :
          /\ Works(r, o, f, s, made, 0, e, Append(o.out, Msg(answer, f)))
          /\ Appended(r.st, o.st, f)
          /\ \/ answer = "M_CREATE_R+" /\ s = "TRANSFER" /\ made = 1 /\ e = AllocationAccepted(F[p].ae[f])
             \/ answer = "M_CREATE_R-" /\ s = "ALLOC_NEGA" /\ made = 0 /\ e = F[p].ae[f] /\ f \in Data
    <3>1. CASE f \in Rejected
      <4>1. /\ Works(r, o, f, "ALLOC_NEGA", o.st.made[f], o.st.deleted[f], o.st.ae[f],
                     Append(o.out, Msg("M_CREATE_R-", f)))
            /\ Appended(r.st, o.st, f)
        BY <1>1, <2>1, <3>1, CreateRefused
      <4>2. "M_CREATE_R-" \in MessageTypes /\ f \in Data
        BY <3>1, Ends DEF MessageTypes
      <4> QED
        BY <1>1, <2>1, <4>1, <4>2
    <3>2. CASE f \notin Rejected
      <4>1. /\ Works(r, o, f, "TRANSFER", 1, 0, AllocationAccepted(o.st.ae[f]),
                     Append(o.out, Msg("M_CREATE_R+", f)))
            /\ Appended(r.st, o.st, f)
        BY <1>1, <2>1, <3>2, CreateAccepted
      <4>2. "M_CREATE_R+" \in MessageTypes
        BY DEF MessageTypes
      <4> QED
        BY <1>1, <4>1, <4>2
    <3> QED
      BY <3>1, <3>2
  <2>3. PICK answer, s, made, e :
          /\ answer \in MessageTypes
          /\ Works(r, o, f, s, made, 0, e, Append(o.out, Msg(answer, f)))
          /\ Appended(r.st, o.st, f)
          /\ \/ answer = "M_CREATE_R+" /\ s = "TRANSFER" /\ made = 1 /\ e = AllocationAccepted(F[p].ae[f])
             \/ answer = "M_CREATE_R-" /\ s = "ALLOC_NEGA" /\ made = 0 /\ e = F[p].ae[f] /\ f \in Data
    BY <2>2
  <2>4. /\ r \in Outcomes /\ answer \in MessageTypes /\ r.out = Append(o.out, Msg(answer, f))
        /\ Effect(r.st, F[p], f, s, made, 0, e) /\ Appended(r.st, F[p], f)
    BY <1>1, <2>3 DEF Works
  <2>5. Speaks(F2, N2, F, C, p, r.st, answer, f)
    <3>1. Speaks(F2, N2, FaWith(F, p, o), NetWith(C, p, o), p, r.st, answer, f)
      BY <1>1, <2>4, Between
    <3> QED
      BY <1>1, <3>1
  <2> HIDE DEF F2, N2
  <2>6. PICK t : t = r.st
    OBVIOUS
  <2>7. /\ Effect(t, F[p], f, s, made, 0, e) /\ Appended(t, F[p], f)
        /\ Speaks(F2, N2, F, C, p, t, answer, f)
    BY <2>4, <2>5, <2>6
  <2>8. Base(F2, N2)
    BY ONLY <1>1, <1>2, <1>4, <2>3, <2>7, p \in Ipcps, f \in Flow, FlowAnswered
  <2>9. Managed(F2, N2, L)
    <3>1. f \in Data /\ made > 0 => F[p].made[f] > 0 \/ Up(F[p]) \/ (p = Callee(f) /\ L > 0)
      <4> SUFFICES ASSUME f \in Data PROVE Up(F[p]) \/ (p = Callee(f) /\ L > 0)
        OBVIOUS
      <4> QED
        BY <1>2, RequestHeard
    <3>2. /\ answer = "M_CREATE" /\ f \in Data => Up(F[p])
          /\ f \in Mgmt /\ p = Callee(f) /\ s = "TRANSFER" =>
                F[p].status[f] = "TRANSFER" \/ answer = "M_CREATE_R+"
      BY <2>3
    <3>3. type # "M_CREATE_R+" /\ F[p].status[f] # "TRANSFER"
      BY <1>4
    <3> QED
      BY <2>4, <3>1, <3>2, <3>3, HeardManaged DEF F2, N2
  <2>10. Lives(r.st, F, p)
    <3>1. Turn(p, f, F[p].status[f], s, F[Peer(p)].status[f])
      BY <1>2, <1>4, <2>3 DEF Turn
    <3>2. F[p] \in Allocator
      BY <1>1
    <3> QED
      BY <2>4, <3>1, <3>2, LivesOne
  <2> QED
    BY <2>4, <2>8, <2>9, <2>10 DEF GoodAt, Good, F2, N2
<1> QED
  BY <1>3, <1>4

(* All that Base asks of an outcome is there: the rest is the same for any *)
(* message.                                                                *)
BaseAt(r, F, C, p) == Base(FaWith(F, p, r), NetWith(C, p, r))

Reacts(F, p, type, f, o, r, s, made) ==
    /\ made = F[p].made[f]
    /\ type # "M_CREATE"
    /\ type = "M_CREATE_R+" => s = "TRANSFER"
    /\ p = Caller(f) \/ s # "TRANSFER"
    /\ f \in Mgmt => s = "TRANSFER"
    /\ \/ r.out = o.out
       \/ \E answer \in MessageTypes :
             r.out = Append(o.out, Msg(answer, f)) /\ (answer = "M_CREATE" => Up(F[p]))
    /\ f \in Data => Turn(p, f, F[p].status[f], s, F[Peer(p)].status[f])

LEMMA HeardGood ==
    ASSUME NEW F, NEW N, NEW L, NEW C, NEW p \in Ipcps, NEW type \in MessageTypes, NEW f \in Flow,
           NEW o, Hears(F, N, L, C, p, type, f, o),
           NEW r \in Outcomes, NEW s, NEW made, NEW deleted, NEW e,
           Effect(r.st, F[p], f, s, made, deleted, e), Reacts(F, p, type, f, o, r, s, made),
           BaseAt(r, F, C, p)
    PROVE  GoodAt(r, F, C, L, p) /\ Lives(r.st, F, p)
<1>1. F \in [Ipcps -> Allocator]
  <2>1. Hearkens(F, N, L, C, p, type, f, o)
    BY Hearer
  <2> QED
    BY <2>1 DEF Hearkens
<1>2. /\ made = F[p].made[f] /\ type # "M_CREATE"
      /\ type = "M_CREATE_R+" => s = "TRANSFER"
      /\ p = Caller(f) \/ s # "TRANSFER"
      /\ f \in Mgmt => s = "TRANSFER"
      /\ \/ r.out = o.out
         \/ \E answer \in MessageTypes :
               r.out = Append(o.out, Msg(answer, f)) /\ (answer = "M_CREATE" => Up(F[p]))
      /\ f \in Data => Turn(p, f, F[p].status[f], s, F[Peer(p)].status[f])
  BY DEF Reacts
<1>3. /\ Effect(r.st, F[p], f, s, made, deleted, e)
      /\ f \in Data /\ made > 0 => F[p].made[f] > 0 \/ Up(F[p]) \/ (p = Callee(f) /\ L > 0)
      /\ type = "M_CREATE_R+" /\ f = MgmtOf(p) => s = "TRANSFER"
      /\ f \in Mgmt /\ F[p].status[f] = "TRANSFER" => s = "TRANSFER"
      /\ ~(p = Callee(f) /\ s = "TRANSFER")
  BY <1>2, Ends
<1>4. Managed(FaWith(F, p, r), NetWith(C, p, r), L)
  BY <1>2, <1>3, HeardManaged
<1>5. Lives(r.st, F, p)
  <2>1. F[p] \in Allocator
    BY <1>1
  <2> QED
    BY <1>2, <1>3, <2>1, LivesOne
<1> QED
  BY <1>4, <1>5 DEF GoodAt, Good, BaseAt

(* From an outcome to the step of p. *)
LEMMA HeardMoves ==
    ASSUME NEW F, NEW N, NEW L, NEW C, NEW p \in Ipcps, NEW type \in MessageTypes, NEW f \in Flow,
           NEW o, Hears(F, N, L, C, p, type, f, o), NEW r \in Outcomes
    PROVE  /\ r.out = o.out => Quiet(FaWith(F, p, r), NetWith(C, p, r), F, C, p, r.st)
           /\ \A answer \in MessageTypes : r.out = Append(o.out, Msg(answer, f)) =>
                 Speaks(FaWith(F, p, r), NetWith(C, p, r), F, C, p, r.st, answer, f)
<1>1. /\ C \in [Ipcps -> Seq(Message)] /\ F \in [Ipcps -> Allocator]
      /\ o \in Outcomes /\ FaWith(F, p, o) = F /\ NetWith(C, p, o) = C
  <2>1. Hearkens(F, N, L, C, p, type, f, o)
    BY Hearer
  <2> QED
    BY <2>1 DEF Hearkens
<1> QED
  BY <1>1, Between

LEMMA HeardNegative ==
    ASSUME NEW F, NEW N, NEW L, NEW C, NEW p \in Ipcps, NEW type \in MessageTypes, NEW f \in Flow,
           type = "M_CREATE_R-", NEW o, Hears(F, N, L, C, p, type, f, o),
           NEW r, r = ReceiveCreateResponseNegative(o, f)
    PROVE  GoodAt(r, F, C, L, p) /\ Lives(r.st, F, p)
<1> DEFINE F2 == FaWith(F, p, r)
           N2 == NetWith(C, p, r)
<1>1. /\ Managed(F, N, L) /\ Base(F, C) /\ F \in [Ipcps -> Allocator]
      /\ o \in Outcomes /\ o.st = F[p] /\ o.out = <<>> /\ Local(F[p], p, f) /\ TableOK(F[p], p)
  <2>1. Hearkens(F, N, L, C, p, type, f, o)
    BY Hearer
  <2> QED
    BY <2>1 DEF Hearkens
<1>2. /\ p = Caller(f) /\ F[p].status[f] = "ALLOC_PEND" /\ F[p].made[f] = 1 /\ f \in Data
      /\ F[Peer(p)].status[f] = "ALLOC_NEGA" /\ \A t \in Answers : ~Has(C[p], t, f)
  BY WhatIsHeard DEF Answers
<1>3. Tied(F[p], f) /\ F[p] \in Allocator /\ p # Callee(f)
  BY <1>1, <1>2, Ends DEF Local
<1>4. /\ SameQueues(r.st, o.st)
      /\ \/ Works(r, o, f, "ALLOC_PEND", o.st.made[f], o.st.deleted[f], o.st.ae[f],
                  Append(o.out, Msg("M_CREATE", f)))
         \/ Works(r, o, f, "ALLOC_NEGA", o.st.made[f], o.st.deleted[f],
                  AllocationNegative(o.st.ae[f]), o.out)
  <2>1. Tied(o.st, f) /\ o.st.status[f] = "ALLOC_PEND"
    BY <1>1, <1>2, <1>3
  <2> QED
    BY <1>1, <2>1, Denied
<1>5. SameQueues(r.st, F[p]) /\ r \in Outcomes
  BY <1>1, <1>4 DEF Works
<1>6. CASE Works(r, o, f, "ALLOC_PEND", o.st.made[f], o.st.deleted[f], o.st.ae[f],
                  Append(o.out, Msg("M_CREATE", f)))
  <2>1. /\ r.out = Append(o.out, Msg("M_CREATE", f))
        /\ Effect(r.st, F[p], f, "ALLOC_PEND", F[p].made[f], F[p].deleted[f], F[p].ae[f])
    BY <1>1, <1>6 DEF Works
  <2>2. "M_CREATE" \in MessageTypes
    BY DEF MessageTypes
  <2>3. Speaks(F2, N2, F, C, p, r.st, "M_CREATE", f)
    BY <1>5, <2>1, <2>2, HeardMoves
  <2> HIDE DEF F2, N2
  <2>4. PICK t : t = r.st
    OBVIOUS
  <2>5. /\ Effect(t, F[p], f, "ALLOC_PEND", F[p].made[f], F[p].deleted[f], F[p].ae[f])
        /\ SameQueues(t, F[p]) /\ Speaks(F2, N2, F, C, p, t, "M_CREATE", f)
    BY <1>5, <2>1, <2>3, <2>4
  <2>6. Base(F2, N2)
    BY ONLY <1>1, <1>2, <2>5, p \in Ipcps, AskedAgain
  <2>7. Up(F[p])
    BY <1>1, <1>2, <1>3 DEF Managed
  <2>8. BaseAt(r, F, C, p)
    BY <2>6 DEF F2, N2, BaseAt
  <2>9. Turn(p, f, F[p].status[f], "ALLOC_PEND", F[Peer(p)].status[f])
    BY <1>2 DEF Turn
  <2>10. Reacts(F, p, type, f, o, r, "ALLOC_PEND", F[p].made[f])
    BY <1>2, <2>1, <2>2, <2>7, <2>9, Ends DEF Reacts
  <2> QED
    BY ONLY <1>5, <2>1, <2>8, <2>10, p \in Ipcps, type \in MessageTypes, f \in Flow,
       Hears(F, N, L, C, p, type, f, o), HeardGood
<1>7. CASE Works(r, o, f, "ALLOC_NEGA", o.st.made[f], o.st.deleted[f],
                  AllocationNegative(o.st.ae[f]), o.out)
  <2>1. /\ r.out = o.out
        /\ Effect(r.st, F[p], f, "ALLOC_NEGA", F[p].made[f], F[p].deleted[f],
                  AllocationNegative(F[p].ae[f]))
    BY <1>1, <1>7 DEF Works
  <2>2. Quiet(F2, N2, F, C, p, r.st)
    BY <1>5, <2>1, HeardMoves
  <2> HIDE DEF F2, N2
  <2>3. PICK e, s : e = AllocationNegative(F[p].ae[f]) /\ s = "ALLOC_NEGA"
    OBVIOUS
  <2>4. PICK t : t = r.st
    OBVIOUS
  <2>5. /\ Effect(t, F[p], f, s, F[p].made[f], F[p].deleted[f], e)
        /\ SameQueues(t, F[p]) /\ Quiet(F2, N2, F, C, p, t)
    BY <1>5, <2>1, <2>2, <2>3, <2>4
  <2>6. TableOK(t, p)
    <3>1. PICK st \in Allocator : st = F[p]
      BY <1>3
    <3>2. /\ Effect(t, st, f, s, F[p].made[f], F[p].deleted[f], e) /\ SameQueues(t, st)
          /\ TableOK(st, p) /\ s # "none" /\ st.status[f] # "none"
      BY <1>1, <1>2, <2>3, <2>5, <3>1
    <3> QED
      BY ONLY <3>2, st \in Allocator, p \in Ipcps, f \in Flow, TableStays
  <2>7. F[Peer(p)].status[f] # "none" /\ f \notin Mgmt
    BY <1>2, Ends
  <2>8. Base(F2, N2)
    BY ONLY <1>1, <1>2, <2>3, <2>5, <2>6, <2>7, p \in Ipcps, f \in Flow, AnswerHeard
  <2>9. BaseAt(r, F, C, p)
    BY <2>8 DEF F2, N2, BaseAt
  <2>10. /\ Turn(p, f, F[p].status[f], s, F[Peer(p)].status[f])
         /\ Effect(r.st, F[p], f, s, F[p].made[f], F[p].deleted[f], e)
    BY <1>2, <2>3, <2>4, <2>5 DEF Turn
  <2>11. Reacts(F, p, type, f, o, r, s, F[p].made[f])
    BY <1>2, <2>1, <2>3, <2>7, <2>10 DEF Reacts
  <2> QED
    BY ONLY <1>5, <2>9, <2>10, <2>11, p \in Ipcps, type \in MessageTypes, f \in Flow,
       Hears(F, N, L, C, p, type, f, o), HeardGood
<1> QED
  BY <1>4, <1>6, <1>7

LEMMA HeardDelete ==
    ASSUME NEW F, NEW N, NEW L, NEW C, NEW p \in Ipcps, NEW type \in MessageTypes, NEW f \in Flow,
           type = "M_DELETE", NEW o, Hears(F, N, L, C, p, type, f, o), NEW r, r = ReceiveDelete(o, f)
    PROVE  GoodAt(r, F, C, L, p) /\ Lives(r.st, F, p)
<1> DEFINE F2 == FaWith(F, p, r)
           N2 == NetWith(C, p, r)
<1>1. /\ L \in Nat /\ Base(F, C) /\ F \in [Ipcps -> Allocator]
      /\ o \in Outcomes /\ o.st = F[p] /\ o.out = <<>> /\ Local(F[p], p, f)
  <2>1. Hearkens(F, N, L, C, p, type, f, o)
    BY Hearer
  <2> QED
    BY <2>1 DEF Hearkens
<1>2. CASE F[p].status[f] # "TRANSFER"
  <2>1. r = o
    BY <1>1, <1>2 DEF ReceiveDelete
  <2>2. Good(F, N, L) /\ Heard(C, N, p, Msg(type, f)) /\ Begins(o, F[p]) /\ type # "M_CREATE_R+"
    BY DEF Hears
  <2>3. GoodAt(o, F, C, L, p) /\ Lives(o.st, F, p)
    BY ONLY <1>1, <2>2, p \in Ipcps, type \in MessageTypes, f \in Flow, Ignored
  <2> QED
    BY <2>1, <2>3
<1>3. CASE F[p].status[f] = "TRANSFER"
  <2>1. F[Peer(p)].status[f] = "DEALLOC_PEND" /\ f \in Data /\ f \notin Mgmt
    BY <1>3, WhatIsHeard, Ends
  <2>2. BoundOnce(o.st, f) /\ F[p].made[f] = 1
    BY <1>1, <1>3 DEF Local, Tied, Fits, BoundOnce
  <2>3. /\ Works(r, o, f, "DEALLOCATED", 1, 1, Deallocation(o.st.ae[f]), Append(o.out, Msg("M_DELETE_R", f)))
        /\ SameQueues(r.st, o.st)
    BY <1>1, <1>3, <2>2, FollowsSuit
  <2>4. /\ r \in Outcomes /\ r.out = Append(o.out, Msg("M_DELETE_R", f))
        /\ Effect(r.st, F[p], f, "DEALLOCATED", 1, 1, Deallocation(F[p].ae[f]))
        /\ SameQueues(r.st, F[p])
    BY <1>1, <2>3 DEF Works
  <2>5. "M_DELETE_R" \in MessageTypes
    BY DEF MessageTypes
  <2>6. Speaks(F2, N2, F, C, p, r.st, "M_DELETE_R", f)
    BY <2>4, <2>5, HeardMoves
  <2> HIDE DEF F2, N2
  <2>7. PICK t : t = r.st
    OBVIOUS
  <2>8. /\ Effect(t, F[p], f, "DEALLOCATED", 1, 1, Deallocation(F[p].ae[f]))
        /\ SameQueues(t, F[p]) /\ Speaks(F2, N2, F, C, p, t, "M_DELETE_R", f)
    BY <2>4, <2>6, <2>7
  <2>9. Base(F2, N2)
    BY ONLY <1>1, <1>3, <2>1, <2>8, p \in Ipcps, FlowFollows
  <2>10. BaseAt(r, F, C, p)
    BY <2>9 DEF F2, N2, BaseAt
  <2>11. Turn(p, f, F[p].status[f], "DEALLOCATED", F[Peer(p)].status[f])
    BY <1>3, <2>1 DEF Turn
  <2>12. Reacts(F, p, type, f, o, r, "DEALLOCATED", 1)
    BY <2>1, <2>2, <2>4, <2>5, <2>11 DEF Reacts
  <2> QED
    BY ONLY <2>4, <2>10, <2>12, p \in Ipcps, type \in MessageTypes, f \in Flow,
       Hears(F, N, L, C, p, type, f, o), HeardGood
<1> QED
  BY <1>2, <1>3

LEMMA HeardDeleteR ==
    ASSUME NEW F, NEW N, NEW L, NEW C, NEW p \in Ipcps, NEW type \in MessageTypes, NEW f \in Flow,
           type = "M_DELETE_R", NEW o, Hears(F, N, L, C, p, type, f, o),
           NEW r, r = ReceiveDeleteResponse(o, f)
    PROVE  GoodAt(r, F, C, L, p) /\ Lives(r.st, F, p)
<1> DEFINE F2 == FaWith(F, p, r)
           N2 == NetWith(C, p, r)
<1>1. /\ L \in Nat /\ Base(F, C) /\ F \in [Ipcps -> Allocator]
      /\ o \in Outcomes /\ o.st = F[p] /\ o.out = <<>> /\ Local(F[p], p, f)
  <2>1. Hearkens(F, N, L, C, p, type, f, o)
    BY Hearer
  <2> QED
    BY <2>1 DEF Hearkens
<1>2. CASE F[p].status[f] # "DEALLOC_PEND"
  <2>1. r = o
    BY <1>1, <1>2 DEF ReceiveDeleteResponse
  <2>2. Good(F, N, L) /\ Heard(C, N, p, Msg(type, f)) /\ Begins(o, F[p]) /\ type # "M_CREATE_R+"
    BY DEF Hears
  <2>3. GoodAt(o, F, C, L, p) /\ Lives(o.st, F, p)
    BY ONLY <1>1, <2>2, p \in Ipcps, type \in MessageTypes, f \in Flow, Ignored
  <2> QED
    BY <2>1, <2>3
<1>3. CASE F[p].status[f] = "DEALLOC_PEND"
  <2>1. F[Peer(p)].status[f] = "DEALLOCATED" /\ f \in Data /\ f \notin Mgmt
    BY <1>3, WhatIsHeard, Ends
  <2>2. Tied(o.st, f)
    BY <1>1 DEF Local
  <2>3. /\ Works(r, o, f, "DEALLOCATED", o.st.made[f], o.st.deleted[f], Deallocation(o.st.ae[f]), o.out)
        /\ SameQueues(r.st, o.st)
    BY <1>1, <1>3, <2>2, HearsOfEnd
  <2>4. /\ r \in Outcomes /\ r.out = o.out
        /\ Effect(r.st, F[p], f, "DEALLOCATED", F[p].made[f], F[p].deleted[f], Deallocation(F[p].ae[f]))
        /\ SameQueues(r.st, F[p])
    BY <1>1, <2>3 DEF Works
  <2>5. Quiet(F2, N2, F, C, p, r.st)
    BY <2>4, HeardMoves
  <2> HIDE DEF F2, N2
  <2>6. PICK t : t = r.st
    OBVIOUS
  <2>7. /\ Effect(t, F[p], f, "DEALLOCATED", F[p].made[f], F[p].deleted[f], Deallocation(F[p].ae[f]))
        /\ SameQueues(t, F[p]) /\ Quiet(F2, N2, F, C, p, t)
    BY <2>4, <2>5, <2>6
  <2>8. Base(F2, N2)
    BY ONLY <1>1, <1>3, <2>1, <2>7, p \in Ipcps, EndHeard
  <2>9. BaseAt(r, F, C, p)
    BY <2>8 DEF F2, N2, BaseAt
  <2>10. Turn(p, f, F[p].status[f], "DEALLOCATED", F[Peer(p)].status[f])
    BY <1>3, <2>1 DEF Turn
  <2>11. Reacts(F, p, type, f, o, r, "DEALLOCATED", F[p].made[f])
    BY <2>1, <2>4, <2>10 DEF Reacts
  <2> QED
    BY ONLY <2>4, <2>9, <2>11, p \in Ipcps, type \in MessageTypes, f \in Flow,
       Hears(F, N, L, C, p, type, f, o), HeardGood
<1> QED
  BY <1>2, <1>3

-----------------------------------------------------------------------------
(* The pending flows, and the timer. *)
Finishes(r, a) == r = AllocFinMgmt(a)

LEMMA FinishesDoes ==
    ASSUME NEW a \in Outcomes, NEW r, Finishes(r, a), PendingAfterMgmt(a.st) \in Seq(Flow)
    PROVE  /\ r \in Outcomes /\ r.out = a.out
           /\ r.st.pendingFlows = PendingAfterMgmt(a.st)
           /\ Keeps(r.st, a.st, {"pendingFlows", "wakeups"})
<1> DEFINE k == a.st.wakeups + 1
           q == PendingAfterMgmt(a.st)
           t == [a.st EXCEPT !.pendingFlows = q]
           u == [t EXCEPT !.wakeups = k]
<1>1. a.st \in Allocator /\ k \in Nat /\ q \in Seq(Flow)
  <2>1. a.st \in Allocator
    BY DEF Outcomes
  <2> QED
    BY <2>1, AllocatorFields
<1>2. r = [a EXCEPT !.st = u]
  <2>1. a = [st |-> a.st, out |-> a.out]
    BY DEF Outcomes
  <2>2. r = [a EXCEPT !.st.pendingFlows = q, !.st.wakeups = @ + 1]
    BY DEF Finishes, AllocFinMgmt
  <2> HIDE DEF q
  <2> QED
    BY <1>1, <2>1, <2>2 DEF Allocator
<1>3. q = PendingAfterMgmt(a.st)
  OBVIOUS
<1> HIDE DEF k, q
<1>4. t \in Allocator
  BY <1>1, FieldUpdates
<1>5. t.pendingFlows = q /\ Keeps(t, a.st, {"pendingFlows"})
  BY <1>1 DEF Allocator, Keeps
<1> HIDE DEF t
<1>6. u \in Allocator
  BY <1>1, <1>4, FieldUpdates
<1>7. u.pendingFlows = q /\ Keeps(u, a.st, {"pendingFlows", "wakeups"})
  BY <1>4, <1>5 DEF Allocator, Keeps
<1> HIDE DEF u
<1> QED
  BY <1>2, <1>3, <1>6, <1>7, NewState

(* The answer to the management flow of p, at p. *)
LEMMA ManagementUp ==
    ASSUME NEW o \in Outcomes, NEW p \in Ipcps, NEW f, f = MgmtOf(p), NEW s, s = "TRANSFER",
           NEW made, made = o.st.made[f], NEW deleted, deleted = o.st.deleted[f], NEW e,
           TableOK(o.st, p), PendingOK(o.st, p), AllLocal(o.st, p), o.st.status[f] = "ALLOC_PEND",
           NEW a, Works(a, o, f, s, made, deleted, e, o.out), SameQueues(a.st, o.st),
           NEW r, Finishes(r, a)
    PROVE  /\ r \in Outcomes /\ r.out = o.out
           /\ Effect(r.st, o.st, f, s, made, deleted, e)
           /\ TableOK(r.st, p) /\ PendingOK(r.st, p)
<1>1. /\ o.st \in Allocator /\ f \in Flow /\ f \in Mgmt /\ a \in Outcomes /\ a.out = o.out
      /\ Effect(a.st, o.st, f, s, made, deleted, e) /\ a.st \in Allocator
  BY Ends DEF Outcomes, Works
<1>2. TableOK(a.st, p)
  <2>1. PICK st \in Allocator : st = o.st
    BY <1>1
  <2>2. PICK t : t = a.st
    OBVIOUS
  <2>3. /\ Effect(t, st, f, s, made, deleted, e) /\ SameQueues(t, st)
        /\ TableOK(st, p) /\ s # "none" /\ st.status[f] # "none"
    BY <1>1, <2>1, <2>2
  <2>4. TableOK(t, p)
    BY ONLY <1>1, <2>3, st \in Allocator, p \in Ipcps, TableStays
  <2> QED
    BY <2>2, <2>4
<1>3. a.st.pendingFlows = <<>>
  BY <1>1 DEF PendingOK, SameQueues
<1>4. PendingAfterMgmt(a.st) \in Seq(Flow)
  BY <1>1, <1>2, <1>3, Affected
<1>5. /\ r \in Outcomes /\ r.out = o.out
      /\ r.st.pendingFlows = PendingAfterMgmt(a.st)
      /\ Keeps(r.st, a.st, {"pendingFlows", "wakeups"})
  BY <1>1, <1>4, FinishesDoes
<1>6. /\ r.st.table = a.st.table /\ r.st.status = a.st.status /\ r.st.made = a.st.made
      /\ r.st.deleted = a.st.deleted /\ r.st.efcpis = a.st.efcpis
      /\ r.st.efcpTable = a.st.efcpTable /\ r.st.ae = a.st.ae /\ r.st \in Allocator
  BY <1>5 DEF Keeps, Outcomes
<1>7. Effect(r.st, o.st, f, s, made, deleted, e)
  BY <1>1, <1>6 DEF Effect
<1>8. TableOK(r.st, p)
  BY <1>2, <1>6 DEF TableOK
<1>9. PendingOK(r.st, p)
  <2>1. /\ r.st.status = [o.st.status EXCEPT ![f] = "TRANSFER"]
        /\ a.st.status = r.st.status /\ a.st.pendingFlows = o.st.pendingFlows
    BY <1>1, <1>6, <1>7 DEF Effect, SameQueues
  <2>2. r.st.made = o.st.made
    <3>1. o.st.made \in [Flow -> Nat]
      BY <1>1, AllocatorFields
    <3> QED
      BY <1>1, <1>7, <3>1 DEF Effect
  <2>3. \A g \in Flow : Local(o.st, p, g)
    BY DEF AllLocal
  <2> QED
    BY <1>1, <1>2, <1>5, <2>1, <2>2, <2>3, PendingReady
<1> QED
  BY <1>5, <1>7, <1>8, <1>9
LEMMA HeardPositive ==
    ASSUME NEW F, NEW N, NEW L, NEW C, NEW p \in Ipcps, NEW type \in MessageTypes, NEW f \in Flow,
           type = "M_CREATE_R+", NEW o, Hears(F, N, L, C, p, type, f, o),
           NEW r, r = ReceiveCreateResponsePositive(o, f)
    PROVE  GoodAt(r, F, C, L, p) /\ Lives(r.st, F, p)
<1> DEFINE F2 == FaWith(F, p, r)
           N2 == NetWith(C, p, r)
           a == SetStatus([o EXCEPT !.st.knowsPeer[f] = TRUE], f, "TRANSFER")
<1>1. /\ Base(F, N) /\ Base(F, C) /\ F \in [Ipcps -> Allocator]
      /\ o \in Outcomes /\ o.st = F[p] /\ o.out = <<>> /\ Local(F[p], p, f)
      /\ TableOK(F[p], p) /\ PendingOK(F[p], p)
  <2>1. Hearkens(F, N, L, C, p, type, f, o)
    BY Hearer
  <2> QED
    BY <2>1 DEF Hearkens
<1>2. /\ p = Caller(f) /\ F[p].status[f] = "ALLOC_PEND" /\ F[p].made[f] = 1
      /\ F[Peer(p)].status[f] \in {"TRANSFER", "DEALLOC_PEND"} /\ \A t \in Answers : ~Has(C[p], t, f)
  BY WhatIsHeard DEF Answers
<1>3. Tied(F[p], f) /\ F[p] \in Allocator
  BY <1>1 DEF Local
<1>4. PICK s : s = "TRANSFER"
  OBVIOUS
<1>5. \E e : /\ r \in Outcomes /\ r.out = o.out
             /\ Effect(r.st, F[p], f, s, F[p].made[f], F[p].deleted[f], e)
             /\ TableOK(r.st, p)
             /\ f \in Data => e = AllocationPositive(F[p].ae[f])
             /\ f \in Data => SameQueues(r.st, F[p])
             /\ f \in Mgmt => PendingOK(r.st, p)
  <2>1. /\ f \in Data =>
             /\ Works(r, o, f, "TRANSFER", o.st.made[f], o.st.deleted[f],
                      AllocationPositive(o.st.ae[f]), o.out)
             /\ SameQueues(r.st, o.st)
        /\ f \in Mgmt =>
             /\ Works(a, o, f, "TRANSFER", o.st.made[f], o.st.deleted[f], o.st.ae[f], o.out)
             /\ SameQueues(a.st, o.st)
             /\ r = AllocFinMgmt(a)
    <3>1. Tied(o.st, f)
      BY <1>1, <1>3
    <3> QED
      BY <1>1, <3>1, Confirmed
  <2> HIDE DEF a
  <2>2. CASE f \in Data
    <3>1. PICK e : e = AllocationPositive(F[p].ae[f])
      OBVIOUS
    <3>2. /\ r \in Outcomes /\ r.out = o.out /\ SameQueues(r.st, F[p])
          /\ Effect(r.st, F[p], f, s, F[p].made[f], F[p].deleted[f], e)
      BY <1>1, <1>4, <2>1, <2>2, <3>1 DEF Works
    <3>3. TableOK(r.st, p)
      <4>1. PICK st \in Allocator : st = F[p]
        BY <1>3
      <4>2. PICK t : t = r.st
        OBVIOUS
      <4>3. /\ Effect(t, st, f, s, F[p].made[f], F[p].deleted[f], e) /\ SameQueues(t, st)
            /\ TableOK(st, p) /\ s # "none" /\ st.status[f] # "none"
        BY <1>1, <1>2, <1>4, <3>2, <4>1, <4>2
      <4>4. TableOK(t, p)
        BY ONLY <4>3, st \in Allocator, p \in Ipcps, f \in Flow, TableStays
      <4> QED
        BY <4>2, <4>4
    <3>4. f \notin Mgmt
      BY <2>2, Ends
    <3> QED
      BY <3>1, <3>2, <3>3, <3>4
  <2>3. CASE f \in Mgmt
    <3>1. f = MgmtOf(p) /\ f \notin Data
      BY <1>2, <2>3, Ends
    <3>2. PICK e, made, deleted : e = o.st.ae[f] /\ made = o.st.made[f] /\ deleted = o.st.deleted[f]
      OBVIOUS
    <3>3. /\ Works(a, o, f, s, made, deleted, e, o.out) /\ SameQueues(a.st, o.st) /\ Finishes(r, a)
      BY <1>4, <2>1, <2>3, <3>2 DEF Finishes
    <3>4. AllLocal(o.st, p) /\ TableOK(o.st, p) /\ PendingOK(o.st, p) /\ o.st.status[f] = "ALLOC_PEND"
      BY <1>1, <1>2 DEF AllLocal, Base
    <3>5. /\ r \in Outcomes /\ r.out = o.out
          /\ Effect(r.st, o.st, f, s, made, deleted, e)
          /\ TableOK(r.st, p) /\ PendingOK(r.st, p)
      <4>1. PICK b : b = a
        OBVIOUS
      <4>2. Works(b, o, f, s, made, deleted, e, o.out) /\ SameQueues(b.st, o.st) /\ Finishes(r, b)
        BY <3>3, <4>1
      <4>3. o \in Outcomes /\ f = MgmtOf(p)
        BY <1>1, <3>1
      <4> QED
        BY ONLY <1>4, <3>2, <3>4, <4>2, <4>3, p \in Ipcps, ManagementUp
    <3>6. Effect(r.st, F[p], f, s, F[p].made[f], F[p].deleted[f], e)
      BY <1>1, <3>2, <3>5
    <3> QED
      BY <3>1, <3>5, <3>6
  <2> QED
    BY <2>2, <2>3, Ends
<1>6. PICK e : /\ r \in Outcomes /\ r.out = o.out
               /\ Effect(r.st, F[p], f, s, F[p].made[f], F[p].deleted[f], e)
               /\ TableOK(r.st, p)
               /\ f \in Data => e = AllocationPositive(F[p].ae[f])
               /\ f \in Data => SameQueues(r.st, F[p])
               /\ f \in Mgmt => PendingOK(r.st, p)
  BY <1>5
<1>7. Quiet(F2, N2, F, C, p, r.st)
  BY <1>6, HeardMoves
<1> HIDE DEF F2, N2
<1>8. PICK t : t = r.st
  OBVIOUS
<1>9. f \in Mgmt => PendingOK(t, p)
  BY <1>6, <1>8
<1>10. Quiet(F2, N2, F, C, p, t)
  BY <1>7, <1>8
<1>11. \/ s = "TRANSFER" /\ (f \in Data => e = AllocationPositive(F[p].ae[f]))
       \/ s = "ALLOC_NEGA" /\ f \in Data /\ e = AllocationNegative(F[p].ae[f])
  BY <1>4, <1>6
<1>12. F[Peer(p)].status[f] # "none"
  BY <1>2
<1>13. Effect(t, F[p], f, s, F[p].made[f], F[p].deleted[f], e) /\ TableOK(t, p)
  BY <1>6, <1>8
<1>14. f \in Data => SameQueues(t, F[p])
  BY <1>6, <1>8
<1>15. Base(F2, N2)
  BY ONLY <1>1, <1>2, <1>9, <1>10, <1>11, <1>12, <1>13, <1>14, p \in Ipcps, f \in Flow, AnswerHeard
<1>16. BaseAt(r, F, C, p)
  BY <1>15 DEF F2, N2, BaseAt
<1>17. Turn(p, f, F[p].status[f], s, F[Peer(p)].status[f])
  BY <1>2, <1>4 DEF Turn
<1>18. Reacts(F, p, type, f, o, r, s, F[p].made[f])
  BY <1>2, <1>4, <1>6, <1>17 DEF Reacts
<1> QED
  BY ONLY <1>6, <1>16, <1>18, p \in Ipcps, type \in MessageTypes, f \in Flow,
     Hears(F, N, L, C, p, type, f, o), HeardGood

-----------------------------------------------------------------------------
(* From outcomes to steps. *)
LEMMA Stepped ==
    ASSUME IInv, NEW p \in Ipcps, NEW o, NEW C, GoodAt(o, fa, C, lost, p), Step(p, o, C)
    PROVE  IInv'
<1>1. fa' = FaWith(fa, p, o) /\ net' = NetWith(C, p, o) /\ lost' = lost
  BY DEF Step, FaWith, NetWith
<1>2. Good(fa', net', lost')
  BY <1>1 DEF GoodAt
<1>3. lost' \in 0..MaxLoss
  BY <1>1 DEF IInv
<1> QED
  BY <1>2, <1>3 DEF Good, IInv

LEMMA Arrival ==
    ASSUME IInv, NEW p \in Ipcps, net[p] # <<>>, NEW C, C = [net EXCEPT ![p] = Tail(@)],
           NEW r, r = Handled(p, Head(net[p]))
    PROVE  GoodAt(r, fa, C, lost, p) /\ Lives(r.st, fa, p)
<1>1. Good(fa, net, lost) /\ lost \in Nat /\ net[p] \in Seq(Message)
  BY FlowAssumption DEF IInv, Good, Base
<1>2. PICK m \in Message : m = Head(net[p])
  BY <1>1
<1>3. PICK type \in MessageTypes, f \in Flow : m = Msg(type, f) /\ m.type = type /\ m.flow = f
  BY DEF Message, Msg
<1>4. PICK o : Begins(o, fa[p]) /\ o = Idle(p)
  BY DEF Begins, Idle
<1>5. Heard(C, net, p, Msg(type, f))
  BY <1>2, <1>3 DEF Heard
<1>6. Hears(fa, net, lost, C, p, type, f, o)
  BY <1>1, <1>4, <1>5 DEF Hears
<1>7. CASE r = o /\ type # "M_CREATE_R+"
  <2>1. GoodAt(o, fa, C, lost, p) /\ Lives(o.st, fa, p)
    BY ONLY <1>1, <1>4, <1>5, <1>7, p \in Ipcps, type \in MessageTypes, f \in Flow, Ignored
  <2> QED
    BY <1>7, <2>1
<1>8. CASE type = "M_CREATE"
  <2>1. r = ReceiveCreate(o, f)
    BY <1>2, <1>3, <1>4, <1>8 DEF Handled
  <2> QED
    BY ONLY <1>6, <1>8, <2>1, p \in Ipcps, type \in MessageTypes, f \in Flow, HeardCreate
<1>9. CASE type = "M_CREATE_R+"
  <2>1. r = ReceiveCreateResponsePositive(o, f)
    BY <1>2, <1>3, <1>4, <1>9 DEF Handled
  <2> QED
    BY ONLY <1>6, <1>9, <2>1, p \in Ipcps, type \in MessageTypes, f \in Flow, HeardPositive
<1>10. CASE type = "M_CREATE_R-"
  <2>1. r = ReceiveCreateResponseNegative(o, f)
    BY <1>2, <1>3, <1>4, <1>10 DEF Handled
  <2> QED
    BY ONLY <1>6, <1>10, <2>1, p \in Ipcps, type \in MessageTypes, f \in Flow, HeardNegative
<1>11. CASE type = "M_DELETE"
  <2>1. r = ReceiveDelete(o, f) \/ r = o
    BY <1>2, <1>3, <1>4, <1>11 DEF Handled
  <2>2. CASE r = ReceiveDelete(o, f)
    BY ONLY <1>6, <1>11, <2>2, p \in Ipcps, type \in MessageTypes, f \in Flow, HeardDelete
  <2> QED
    BY <1>7, <1>11, <2>1, <2>2
<1>12. CASE type = "M_DELETE_R"
  <2>1. r = ReceiveDeleteResponse(o, f) \/ r = o
    BY <1>2, <1>3, <1>4, <1>12 DEF Handled
  <2>2. CASE r = ReceiveDeleteResponse(o, f)
    BY ONLY <1>6, <1>12, <2>2, p \in Ipcps, type \in MessageTypes, f \in Flow, HeardDeleteR
  <2> QED
    BY <1>7, <1>12, <2>1, <2>2
<1> QED
  BY <1>8, <1>9, <1>10, <1>11, <1>12 DEF MessageTypes

LEMMA Closing ==
    ASSUME IInv, NEW p \in Ipcps, NEW f \in Data, fa[p].status[f] = "TRANSFER",
           NEW r, r = ReceiveDeallocateRequest(Idle(p), f)
    PROVE  GoodAt(r, fa, net, lost, p) /\ Lives(r.st, fa, p)
<1> DEFINE F2 == FaWith(fa, p, r)
           N2 == NetWith(net, p, r)
<1>1. /\ Good(fa, net, lost) /\ Base(fa, net) /\ lost \in Nat /\ f \in Flow /\ f \notin Mgmt
      /\ fa \in [Ipcps -> Allocator] /\ net \in [Ipcps -> Seq(Message)]
  BY FlowAssumption, Ends DEF IInv, Good, Base
<1>2. PICK o : Begins(o, fa[p]) /\ o = Idle(p)
  BY DEF Begins, Idle
<1>3. Idling(o, fa, net, p)
  BY ONLY <1>1, <1>2, p \in Ipcps, NothingDone
<1>4. /\ o \in Outcomes /\ o.st = fa[p]
      /\ FaWith(fa, p, o) = fa /\ NetWith(net, p, o) = net
  BY <1>3 DEF Idling
<1>5. Local(fa[p], p, f)
  BY <1>1 DEF Base
<1>6. BoundOnce(o.st, f) /\ fa[p].made[f] = 1
  BY <1>4, <1>5 DEF Local, Tied, Fits, BoundOnce
<1>7. /\ Works(r, o, f, "DEALLOC_PEND", 1, 1, o.st.ae[f], Append(o.out, Msg("M_DELETE", f)))
      /\ SameQueues(r.st, o.st)
  BY <1>1, <1>2, <1>4, <1>6, Closes
<1>8. /\ r \in Outcomes /\ r.out = Append(o.out, Msg("M_DELETE", f))
      /\ Effect(r.st, fa[p], f, "DEALLOC_PEND", 1, 1, fa[p].ae[f])
      /\ SameQueues(r.st, fa[p])
  BY <1>4, <1>7 DEF Works
<1>9. "M_DELETE" \in MessageTypes
  BY DEF MessageTypes
<1>10. Speaks(F2, N2, fa, net, p, r.st, "M_DELETE", f)
  <2>1. Speaks(F2, N2, FaWith(fa, p, o), NetWith(net, p, o), p, r.st, "M_DELETE", f)
    BY <1>1, <1>4, <1>8, <1>9, Between
  <2> QED
    BY <1>4, <2>1
<1> HIDE DEF F2, N2
<1>11. PICK t, e, s : t = r.st /\ e = fa[p].ae[f] /\ s = "DEALLOC_PEND"
  OBVIOUS
<1>12. /\ Effect(t, fa[p], f, "DEALLOC_PEND", 1, 1, fa[p].ae[f])
       /\ SameQueues(t, fa[p]) /\ Speaks(F2, N2, fa, net, p, t, "M_DELETE", f)
  BY <1>8, <1>10, <1>11
<1>13. Base(F2, N2)
  BY ONLY <1>1, <1>12, p \in Ipcps, f \in Data, fa[p].status[f] = "TRANSFER", FlowClosing
<1>14. Managed(F2, N2, lost)
  <2>1. /\ Effect(t, fa[p], f, s, 1, 1, e)
        /\ f \in Mgmt => s = fa[p].status[f] \/ (s = "ALLOC_PEND" /\ fa[p].status[f] = "none")
        /\ f \in Data /\ 1 > 0 => fa[p].made[f] > 0 \/ Up(fa[p])
        /\ \/ Quiet(F2, N2, fa, net, p, t)
           \/ \E type \in MessageTypes :
                 /\ Speaks(F2, N2, fa, net, p, t, type, f)
                 /\ type = "M_CREATE" /\ f \in Data => Up(fa[p])
    BY <1>1, <1>6, <1>9, <1>11, <1>12
  <2> QED
    BY <1>1, <2>1, ManagedAlone
<1>15. Lives(r.st, fa, p)
  <2>1. Effect(t, fa[p], f, s, 1, 1, e) /\ Turn(p, f, fa[p].status[f], s, fa[Peer(p)].status[f])
    BY <1>11, <1>12 DEF Turn
  <2>2. fa[p] \in Allocator
    BY <1>1
  <2>3. Lives(t, fa, p)
    BY ONLY <1>1, <2>1, <2>2, p \in Ipcps, LivesOne
  <2> QED
    BY <1>11, <2>3
<1> QED
  BY <1>8, <1>13, <1>14, <1>15 DEF GoodAt, Good, F2, N2

LEMMA Requesting ==
    ASSUME IInv, NEW p \in Ipcps, NEW f \in DataOf(p), fa[p].status[f] = "none",
           NEW r, r = SendAllocationRequest([Idle(p) EXCEPT !.st.ae[f] = InsertFlow(@)], p, f)
    PROVE  GoodAt(r, fa, net, lost, p) /\ Lives(r.st, fa, p)
<1>1. Good(fa, net, lost) /\ Base(fa, net) /\ lost \in Nat /\ f \in Flow /\ p = Caller(f)
  BY FlowAssumption, Ends DEF IInv, Good
<1>2. PICK o : Begins(o, fa[p]) /\ o = Idle(p)
  BY DEF Begins, Idle
<1>3. r = SendAllocationRequest([o EXCEPT !.st.ae[f] = InsertFlow(@)], p, f)
  BY <1>2
<1>4. GoodAt(r, fa, net, lost, p) /\ Proceeded(r.st, fa[p], f)
  BY ONLY <1>1, <1>2, <1>3, p \in Ipcps, f \in DataOf(p), fa[p].status[f] = "none", RequestGood
<1>5. fa[Peer(p)].status[f] = "none"
  <2>1. Local(fa[p], p, f) /\ JointIn(fa, net, f) /\ Callee(f) = Peer(p)
    BY <1>1, Ends DEF Base
  <2> QED
    BY <1>1, <2>1 DEF Local, Fits, JointIn, Joint
<1>6. ASSUME NEW g \in Data
      PROVE  Turn(p, g, fa[p].status[g], r.st.status[g], fa[Peer(p)].status[g])
  <2>1. CASE g # f
    BY <1>4, <2>1 DEF Proceeded, Untouched, Turn
  <2>2. CASE g = f
    BY <1>1, <1>4, <1>5, <2>2 DEF Proceeded, Turn
  <2> QED
    BY <2>1, <2>2
<1> QED
  BY <1>4, <1>6 DEF Lives

LEMMA Waking ==
    ASSUME IInv, NEW p \in Ipcps, fa[p].wakeups > 0, NEW r, r = WakePendingFlows(Idle(p))
    PROVE  GoodAt(r, fa, net, lost, p) /\ Lives(r.st, fa, p)
<1>1. Good(fa, net, lost) /\ Base(fa, net) /\ lost \in Nat
  BY FlowAssumption DEF IInv, Good
<1>2. PICK o : Begins(o, fa[p]) /\ o = Idle(p)
  BY DEF Begins, Idle
<1>3. r = WakePendingFlows(o)
  BY <1>2
<1>4. /\ GoodAt(r, fa, net, lost, p)
      /\ \A g \in Data :
            \/ r.st.status[g] = fa[p].status[g]
            \/ fa[p].status[g] = "ALLOC_PEND" /\ r.st.status[g] = "ALLOC_NEGA" /\ fa[p].made[g] = 0
  BY ONLY <1>1, <1>2, <1>3, p \in Ipcps, fa[p].wakeups > 0, WakeGood
<1>5. ASSUME NEW g \in Data
      PROVE  Turn(p, g, fa[p].status[g], r.st.status[g], fa[Peer(p)].status[g])
  <2>1. CASE r.st.status[g] = fa[p].status[g]
    BY <2>1 DEF Turn
  <2>2. CASE fa[p].status[g] = "ALLOC_PEND" /\ r.st.status[g] = "ALLOC_NEGA" /\ fa[p].made[g] = 0
    <3>1. g \in Flow /\ Local(fa[p], p, g) /\ JointIn(fa, net, g)
      BY <1>1, Ends DEF Base
    <3>2. p = Caller(g) /\ Callee(g) = Peer(p)
      BY <2>2, <3>1, Ends DEF Local, Fits
    <3>3. fa[Peer(p)].status[g] = "none"
      BY <2>2, <3>1, <3>2 DEF JointIn, Joint
    <3> QED
      BY <2>2, <3>2, <3>3 DEF Turn
  <2> QED
    BY <1>4, <2>1, <2>2
<1> QED
  BY <1>4, <1>5 DEF Lives

LEMMA Losing ==
    ASSUME IInv, NEW p \in Ipcps, NEW i \in 1..Len(net[p]), Lose(p, i)
    PROVE  IInv'
<1>1. Base(fa, net) /\ Managed(fa, net, lost) /\ lost \in 0..MaxLoss /\ lost \in Nat /\ MaxLoss \in Nat
  BY FlowAssumption DEF IInv
<1>2. fa' = fa /\ net' = [net EXCEPT ![p] = RemoveAt(net[p], i)] /\ lost' = lost + 1 /\ lost < MaxLoss
  BY DEF Lose
<1>3. net[p] \in Seq(Message)
  BY <1>1 DEF Base
<1>4. PICK r : r = RemoveAt(net[p], i)
  OBVIOUS
<1>5. Without(r, net[p], i) /\ net' = [net EXCEPT ![p] = r]
  BY <1>2, <1>3, <1>4, RemoveAtIsWithout
<1>6. Base(fa, net')
  BY ONLY <1>1, <1>5, p \in Ipcps, i \in 1..Len(net[p]), MessageGoes
<1>7. lost' \in 0..MaxLoss /\ lost' > 0
  BY <1>1, <1>2
<1>8. Managed(fa, net', lost')
  BY <1>1, <1>7 DEF Managed
<1>9. Base(fa', net') /\ Managed(fa', net', lost')
  BY <1>2, <1>6, <1>8
<1> QED
  BY <1>7, <1>9 DEF IInv

-----------------------------------------------------------------------------
LEMMA InitIInv == Init => IInv
<1> SUFFICES ASSUME Init PROVE IInv
  OBVIOUS
<1>1. /\ fa = [p \in Ipcps |-> InitFA] /\ net = [p \in Ipcps |-> <<>>] /\ lost = 0
  BY DEF Init
<1>2. PICK st : st = InitFA
  OBVIOUS
<1>3. /\ st \in Allocator
      /\ st.table = <<>> /\ st.pendingFlows = <<>> /\ st.wakeups = 0 /\ st.efcpTable = {}
      /\ \A f \in Flow : st.status[f] = "none" /\ st.efcpis[f] = 0 /\ st.made[f] = 0 /\ st.deleted[f] = 0
      /\ \A f \in Data : st.ae[f] = [con |-> "NIL", entry |-> "none", north |-> FALSE, south |-> FALSE]
  <2>1. [con |-> "NIL", entry |-> "none", north |-> FALSE, south |-> FALSE] \in Entity
    BY DEF Entity
  <2>2. "none" \in Status /\ 0 \in Nat /\ <<>> \in Seq(Flow)
    BY DEF Status
  <2> QED
    BY <1>2, <2>1, <2>2 DEF InitFA, Allocator
<1>4. \A p \in Ipcps : fa[p] = st /\ net[p] = <<>>
  BY <1>1, <1>2
<1>5. fa \in [Ipcps -> Allocator] /\ net \in [Ipcps -> Seq(Message)]
  BY <1>1, <1>2, <1>3
<1>6. ASSUME NEW p \in Ipcps PROVE TableOK(st, p) /\ PendingOK(st, p)
  <2>1. \A f \in DataOf(p) : f \in Flow
    BY Ends
  <2>2. MgmtOf(p) \in Flow
    BY Ends
  <2>3. IsInjective(<<>>) /\ ToSet(<<>>) = {} /\ DOMAIN <<>> = {}
    BY DEF IsInjective, ToSet
  <2>4. {f \in Flow : st.status[f] # "none"} = {}
    BY <1>3
  <2>5. TableOK(st, p)
    BY <1>3, <2>3, <2>4 DEF TableOK
  <2>6. PendingOK(st, p)
    BY <1>3, <2>1, <2>2, <2>3 DEF PendingOK
  <2> QED
    BY <2>5, <2>6
<1>7. ASSUME NEW f \in Flow
      PROVE  (\A p \in Ipcps : Local(fa[p], p, f)) /\ JointIn(fa, net, f)
  <2>1. ASSUME NEW p \in Ipcps PROVE Local(st, p, f)
    <3>1. Tied(st, f)
      BY <1>3 DEF Tied
    <3>2. f \in Data => Follows(st.ae[f], "none", f)
      BY <1>3 DEF Follows
    <3> QED
      BY <1>3, <3>1, <3>2 DEF Local, Fits
  <2>2. \A type : ~Has(<<>>, type, f)
    BY DEF Has
  <2>3. OneAnswer(<<>>, f)
    BY DEF OneAnswer
  <2>4. Joint(f, "none", "none", 0, <<>>, <<>>)
    BY <2>2, <2>3 DEF Joint
  <2>5. JointIn(fa, net, f)
    BY <1>3, <1>4, <2>4, Ends DEF JointIn
  <2> QED
    BY <1>4, <2>1, <2>5
<1>8. Base(fa, net)
  BY <1>4, <1>5, <1>6, <1>7 DEF Base
<1>9. Managed(fa, net, lost)
  <2>1. \A p \in Ipcps : \A f \in Data : ~(fa[p].made[f] > 0)
    BY <1>3, <1>4, Ends
  <2>2. \A m \in Mgmt : fa[Callee(m)].status[m] # "TRANSFER"
    BY <1>3, <1>4, Ends
  <2>3. \A d \in Ipcps : 1..Len(net[d]) = {}
    BY <1>4
  <2> QED
    BY <2>1, <2>2, <2>3 DEF Managed
<1> QED
  BY <1>1, <1>8, <1>9, FlowAssumption DEF IInv

-----------------------------------------------------------------------------
(* The invariant is kept, and a step of p is a turn of each of its flows.  *)
Moved(p, t) == fa' = [fa EXCEPT ![p] = t] /\ Lives(t, fa, p)

LEMMA NextIInv ==
    ASSUME IInv, Next
    PROVE  IInv' /\ (fa' = fa \/ \E p \in Ipcps : \E t : Moved(p, t))
<1>1. ASSUME NEW p \in Ipcps, NEW o, NEW C, GoodAt(o, fa, C, lost, p), Lives(o.st, fa, p), Step(p, o, C)
      PROVE  IInv' /\ \E q \in Ipcps : \E t : Moved(q, t)
  <2>1. IInv'
    BY ONLY <1>1, IInv, p \in Ipcps, Stepped
  <2>2. Moved(p, o.st)
    BY <1>1 DEF Moved, Step
  <2> QED
    BY <2>1, <2>2
<1>2. ASSUME NEW p \in Ipcps, NEW f \in DataOf(p), AllocateRequest(p, f)
      PROVE  IInv' /\ \E q \in Ipcps : \E t : Moved(q, t)
  <2>1. PICK r : r = SendAllocationRequest([Idle(p) EXCEPT !.st.ae[f] = InsertFlow(@)], p, f)
    OBVIOUS
  <2>2. fa[p].status[f] = "none" /\ Step(p, r, net)
    BY <1>2, <2>1 DEF AllocateRequest
  <2>3. GoodAt(r, fa, net, lost, p) /\ Lives(r.st, fa, p)
    BY <2>1, <2>2, Requesting
  <2> QED
    BY <1>1, <2>2, <2>3
<1>3. ASSUME NEW p \in Ipcps, WakePending(p)
      PROVE  IInv' /\ \E q \in Ipcps : \E t : Moved(q, t)
  <2>1. PICK r : r = WakePendingFlows(Idle(p))
    OBVIOUS
  <2>2. fa[p].wakeups > 0 /\ Step(p, r, net)
    BY <1>3, <2>1 DEF WakePending
  <2>3. GoodAt(r, fa, net, lost, p) /\ Lives(r.st, fa, p)
    BY <2>1, <2>2, Waking
  <2> QED
    BY <1>1, <2>2, <2>3
<1>4. ASSUME NEW p \in Ipcps, NEW f \in Data, DeallocateRequest(p, f)
      PROVE  IInv' /\ \E q \in Ipcps : \E t : Moved(q, t)
  <2>1. PICK r : r = ReceiveDeallocateRequest(Idle(p), f)
    OBVIOUS
  <2>2. fa[p].status[f] = "TRANSFER" /\ Step(p, r, net)
    BY <1>4, <2>1 DEF DeallocateRequest
  <2>3. GoodAt(r, fa, net, lost, p) /\ Lives(r.st, fa, p)
    BY <2>1, <2>2, Closing
  <2> QED
    BY <1>1, <2>2, <2>3
<1>5. ASSUME NEW p \in Ipcps, Arrive(p)
      PROVE  IInv' /\ \E q \in Ipcps : \E t : Moved(q, t)
  <2>1. PICK r, C : r = Handled(p, Head(net[p])) /\ C = [net EXCEPT ![p] = Tail(@)]
    OBVIOUS
  <2>2. net[p] # <<>> /\ Step(p, r, C)
    BY <1>5, <2>1 DEF Arrive
  <2>3. GoodAt(r, fa, C, lost, p) /\ Lives(r.st, fa, p)
    BY <2>1, <2>2, Arrival
  <2> QED
    BY <1>1, <2>2, <2>3
<1>6. ASSUME NEW p \in Ipcps, NEW i \in 1..Len(net[p]), Lose(p, i)
      PROVE  IInv' /\ fa' = fa
  BY <1>6, Losing DEF Lose
<1> QED
  BY <1>2, <1>3, <1>4, <1>5, <1>6 DEF Next

LEMMA Invariance == Spec => []IInv
<1>1. ASSUME IInv, [Next]_vars PROVE IInv'
  <2>1. CASE Next
    BY <1>1, <2>1, NextIInv
  <2>2. CASE UNCHANGED vars
    BY <1>1, <2>2 DEF vars, IInv
  <2> QED
    BY <1>1, <2>1, <2>2
<1> QED
  BY <1>1, InitIInv, PTL DEF Spec

(* At every allocator entries, statuses, bindings, applications and the    *)
(* management flow fit together: FA::receiveAllocateRequest and all that   *)
(* follows from it keep them so, whatever is lost and in whatever order    *)
(* the two allocators act.                                                 *)
THEOREM AllocatorsAlwaysSound == Spec => []AllocatorsSound
<1>1. ASSUME IInv PROVE AllocatorsSound
  <2>1. /\ Base(fa, net) /\ Managed(fa, net, lost) /\ lost \in 0..MaxLoss
        /\ fa \in [Ipcps -> Allocator] /\ net \in [Ipcps -> Seq(Message)]
        /\ \A p \in Ipcps : TableOK(fa[p], p)
        /\ \A p \in Ipcps : \A f \in Flow : Local(fa[p], p, f)
    BY <1>1 DEF IInv, Base
  <2>2. TypeOK
    BY <2>1 DEF TypeOK, TableOK
  <2>3. BindingsFollowStatus
    <3> SUFFICES ASSUME NEW p \in Ipcps, NEW f \in Flow
                 PROVE  /\ fa[p].made[f] <= 1
                        /\ fa[p].efcpis[f] = Bound(p, f)
                        /\ f \in fa[p].efcpTable <=> fa[p].made[f] > 0
                        /\ fa[p].status[f] = "TRANSFER" => Bound(p, f) = 1
                        /\ fa[p].status[f] \in {"none", "DEALLOC_PEND", "DEALLOCATED"} => Bound(p, f) = 0
      BY DEF BindingsFollowStatus
    <3>1. Local(fa[p], p, f)
      BY <2>1
    <3>2. fa[p].made[f] \in {0, 1}
      BY <3>1 DEF Local, Fits
    <3> QED
      BY <3>1, <3>2 DEF Local, Fits, Tied, Bound
  <2>4. ApplicationsFollow
    <3> SUFFICES ASSUME NEW p \in Ipcps, NEW f \in Data
                 PROVE  Follows(fa[p].ae[f], fa[p].status[f], f)
      BY DEF ApplicationsFollow, Follows
    <3>1. f \in Flow
      BY Ends
    <3> QED
      BY <2>1, <3>1 DEF Local, Fits
  <2>5. ManagementFirst
    BY <2>1 DEF Managed, ManagementFirst, Up
  <2> QED
    BY <2>2, <2>3, <2>4, <2>5 DEF AllocatorsSound
<1> QED
  BY <1>1, Invariance, PTL

-----------------------------------------------------------------------------
(* A turn at one end is a step in the life of the flow. *)
PhaseOf(s) ==
    CASE s = "none"         -> "idle"
      [] s = "ALLOC_PEND"   -> "waiting"
      [] s = "ALLOC_NEGA"   -> "refused"
      [] s = "TRANSFER"     -> "open"
      [] s = "DEALLOC_PEND" -> "closing"
      [] s = "DEALLOCATED"  -> "closed"

LEMMA PhaseIs ==
    /\ PhaseOf("none") = "idle" /\ PhaseOf("ALLOC_PEND") = "waiting" /\ PhaseOf("ALLOC_NEGA") = "refused"
    /\ PhaseOf("TRANSFER") = "open" /\ PhaseOf("DEALLOC_PEND") = "closing"
    /\ PhaseOf("DEALLOCATED") = "closed"
  BY DEF PhaseOf

LEMMA CallerLives ==
    ASSUME NEW f \in Data, NEW s \in Status, NEW t \in Status, NEW other \in Status,
           Turn(Caller(f), f, s, t, other),
           Phases(f) = [caller |-> PhaseOf(s), callee |-> PhaseOf(other)],
           Phases(f)' = [caller |-> PhaseOf(t), callee |-> PhaseOf(other)]
    PROVE  [Life(f)!Next]_(Phases(f))
<1> DEFINE end == Phases(f)
<1>1. /\ end["caller"] = PhaseOf(s) /\ end["callee"] = PhaseOf(other)
      /\ end' = [end EXCEPT !["caller"] = PhaseOf(t)]
  OBVIOUS
<1>2. Caller(f) # Callee(f)
  BY Ends
<1>3. CASE t = s
  BY <1>3
<1>4. CASE s = "none" /\ t = "ALLOC_PEND"
  <2>1. Life(f)!Ask
    BY <1>1, <1>4, PhaseIs DEF Life!Ask, Life!Becomes
  <2> QED
    BY <2>1 DEF Life!Next
<1>5. CASE s \in {"none", "ALLOC_PEND"} /\ t = "ALLOC_NEGA" /\ other \in {"none", "ALLOC_NEGA"}
  <2>1. Life(f)!Deny
    BY <1>1, <1>5, PhaseIs DEF Life!Deny, Life!Becomes
  <2> QED
    BY <2>1 DEF Life!Next
<1>6. CASE s = "ALLOC_PEND" /\ t = "TRANSFER" /\ other \in {"TRANSFER", "DEALLOC_PEND"}
  <2>1. Life(f)!Confirm
    BY <1>1, <1>6, PhaseIs DEF Life!Confirm, Life!Becomes
  <2> QED
    BY <2>1 DEF Life!Next
<1>7. CASE s = "TRANSFER" /\ t = "DEALLOC_PEND"
  <2>1. Life(f)!Close("caller")
    BY <1>1, <1>7, PhaseIs DEF Life!Close, Life!Becomes
  <2> QED
    BY <2>1 DEF Life!Next, Life!Ends
<1>8. CASE s = "TRANSFER" /\ t = "DEALLOCATED" /\ other = "DEALLOC_PEND"
  <2>1. Life(f)!Follow("caller")
    BY <1>1, <1>8, PhaseIs DEF Life!Follow, Life!Becomes, Life!Other
  <2> QED
    BY <2>1 DEF Life!Next, Life!Ends
<1>9. CASE s = "DEALLOC_PEND" /\ t = "DEALLOCATED" /\ other = "DEALLOCATED"
  <2>1. Life(f)!Closed("caller")
    BY <1>1, <1>9, PhaseIs DEF Life!Closed, Life!Becomes, Life!Other
  <2> QED
    BY <2>1 DEF Life!Next, Life!Ends
<1> QED
  BY <1>2, <1>3, <1>4, <1>5, <1>6, <1>7, <1>8, <1>9 DEF Turn

LEMMA CalleeLives ==
    ASSUME NEW f \in Data, NEW s \in Status, NEW t \in Status, NEW other \in Status,
           Turn(Callee(f), f, s, t, other),
           Phases(f) = [caller |-> PhaseOf(other), callee |-> PhaseOf(s)],
           Phases(f)' = [caller |-> PhaseOf(other), callee |-> PhaseOf(t)]
    PROVE  [Life(f)!Next]_(Phases(f))
<1> DEFINE end == Phases(f)
<1>1. /\ end["caller"] = PhaseOf(other) /\ end["callee"] = PhaseOf(s)
      /\ end' = [end EXCEPT !["callee"] = PhaseOf(t)]
  OBVIOUS
<1>2. Caller(f) # Callee(f)
  BY Ends
<1>3. CASE t = s
  BY <1>3
<1>4. CASE s = "none" /\ t \in {"TRANSFER", "ALLOC_NEGA"} /\ other = "ALLOC_PEND"
  <2>1. Life(f)!Answer("open") \/ Life(f)!Answer("refused")
    BY <1>1, <1>4, PhaseIs DEF Life!Answer, Life!Becomes
  <2> QED
    BY <2>1 DEF Life!Next
<1>5. CASE s = "TRANSFER" /\ t = "DEALLOC_PEND"
  <2>1. Life(f)!Close("callee")
    BY <1>1, <1>5, PhaseIs DEF Life!Close, Life!Becomes
  <2> QED
    BY <2>1 DEF Life!Next, Life!Ends
<1>6. CASE s = "TRANSFER" /\ t = "DEALLOCATED" /\ other = "DEALLOC_PEND"
  <2>1. Life(f)!Follow("callee")
    BY <1>1, <1>6, PhaseIs DEF Life!Follow, Life!Becomes, Life!Other
  <2> QED
    BY <2>1 DEF Life!Next, Life!Ends
<1>7. CASE s = "DEALLOC_PEND" /\ t = "DEALLOCATED" /\ other = "DEALLOCATED"
  <2>1. Life(f)!Closed("callee")
    BY <1>1, <1>7, PhaseIs DEF Life!Closed, Life!Becomes, Life!Other
  <2> QED
    BY <2>1 DEF Life!Next, Life!Ends
<1> QED
  BY <1>2, <1>3, <1>4, <1>5, <1>6, <1>7 DEF Turn

(* Each data flow lives the life of FlowLife, seen from both ends: the     *)
(* caller has it only when the callee accepted it, and an end that asked   *)
(* to close it is told so only when the other end has closed.              *)
THEOREM FlowsLive == Spec => EachFlowLives
<1>1. ASSUME Init PROVE \A f \in Data : Life(f)!Init
  <2> SUFFICES ASSUME NEW f \in Data PROVE Life(f)!Init
    OBVIOUS
  <2>1. f \in Flow /\ Caller(f) \in Ipcps /\ Callee(f) \in Ipcps
    BY Ends
  <2>2. \A p \in Ipcps : fa[p].status[f] = "none"
    BY <1>1, <2>1 DEF Init, InitFA
  <2>3. Phases(f) = [caller |-> "idle", callee |-> "idle"]
    BY <2>1, <2>2 DEF Phases, Phase
  <2> QED
    BY <2>3 DEF Life!Init, Life!Ends
<1>2. ASSUME IInv, [Next]_vars PROVE \A f \in Data : [Life(f)!Next]_(Phases(f))
  <2> SUFFICES ASSUME NEW f \in Data PROVE [Life(f)!Next]_(Phases(f))
    OBVIOUS
  <2>1. CASE fa' = fa
    BY <2>1 DEF Phases, Phase
  <2>2. ASSUME NEW p \in Ipcps, NEW t, IInv', Moved(p, t) PROVE [Life(f)!Next]_(Phases(f))
    <3>1. /\ fa \in [Ipcps -> Allocator] /\ fa' \in [Ipcps -> Allocator]
          /\ f \in Flow /\ Caller(f) \in Ipcps /\ Callee(f) = Peer(Caller(f)) /\ Callee(f) \in Ipcps
      BY <1>2, <2>2, Ends DEF IInv, Base
    <3>2. /\ fa'[p] = t /\ fa'[Peer(p)] = fa[Peer(p)]
          /\ Turn(p, f, fa[p].status[f], t.status[f], fa[Peer(p)].status[f])
      BY <2>2, <3>1, Ends DEF Moved, Lives
    <3>3. PICK s, s2, other : /\ s = fa[p].status[f] /\ s2 = t.status[f]
                              /\ other = fa[Peer(p)].status[f]
      OBVIOUS
    <3>4. s \in Status /\ s2 \in Status /\ other \in Status /\ Turn(p, f, s, s2, other)
      <4>1. fa[p] \in Allocator /\ t \in Allocator /\ fa[Peer(p)] \in Allocator
        BY <3>1, <3>2, Ends
      <4> QED
        BY <3>1, <3>2, <3>3, <4>1, AllocatorFields
    <3>5. /\ \A q \in Ipcps : Phase(q, f) = PhaseOf(fa[q].status[f])
          /\ \A q \in Ipcps : Phase(q, f)' = PhaseOf(fa'[q].status[f])
      BY DEF Phase, PhaseOf
    <3>6. CASE p = Caller(f)
      <4>1. /\ Phases(f) = [caller |-> PhaseOf(s), callee |-> PhaseOf(other)]
            /\ Phases(f)' = [caller |-> PhaseOf(s2), callee |-> PhaseOf(other)]
        BY <3>1, <3>2, <3>3, <3>5, <3>6 DEF Phases
      <4> QED
        BY <3>4, <3>6, <4>1, CallerLives
    <3>7. CASE p = Callee(f)
      <4>1. Peer(p) = Caller(f)
        BY <3>1, <3>7, Ends
      <4>2. /\ Phases(f) = [caller |-> PhaseOf(other), callee |-> PhaseOf(s)]
            /\ Phases(f)' = [caller |-> PhaseOf(other), callee |-> PhaseOf(s2)]
        BY <3>1, <3>2, <3>3, <3>5, <3>7, <4>1 DEF Phases
      <4> QED
        BY <3>4, <3>7, <4>2, CalleeLives
    <3> QED
      BY <3>1, <3>6, <3>7, Ends
  <2>3. CASE Next
    <3>1. IInv' /\ (fa' = fa \/ \E p \in Ipcps : \E t : Moved(p, t))
      BY <1>2, <2>3, NextIInv
    <3> QED
      BY <2>1, <2>2, <3>1
  <2>4. CASE UNCHANGED vars
    BY <2>1, <2>4 DEF vars
  <2> QED
    BY <1>2, <2>3, <2>4
<1> QED
  BY <1>1, <1>2, Invariance, PTL DEF Spec, EachFlowLives
=============================================================================
