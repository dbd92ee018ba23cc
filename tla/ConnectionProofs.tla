-------------------------- MODULE ConnectionProofs --------------------------
(***************************************************************************)
(* What holds of a connection's life for any number of containers,         *)
(* invocations, rooms, failures and joins.                                 *)
(***************************************************************************)
EXTENDS Connection, FiniteSetTheorems, SequenceTheorems, TLAPS

USE ConnectionAssumption

ConnectPcs == {"hooks", "add", "apply", "undo", "undoing"}
Connecting(k) == pc[k] \in ConnectPcs
Before == socket = "new" \/ \E k \in Tasks : Connecting(k)

\* There is one $connect, and until it has answered nothing else serves the client.
ConnectOK ==
    /\ \A k \in Tasks : Connecting(k) =>
         /\ socket \in {"connecting", "refused"}
         /\ hooks => ref[k] # 0 /\ owner[ref[k]] = inst[k]
         /\ pc[k] = "apply" => applied # 0
    /\ \A k, q \in Tasks : Connecting(k) /\ Connecting(q) => k = q
    /\ Before => (\A q \in Tasks : pc[q] \notin FramePcs) /\ (\A i \in Instances : cached[i] = 0)
                 /\ announced = {}
    /\ applied <= Len(Plan) + 1

\* Until accept() has begun nothing is written, nor on its way.
Unwritten ==
    /\ rows = {} /\ socket \notin {"open", "closed"}
    /\ \A q \in Tasks : pc[q] \notin FramePcs /\ \A op \in todo[q] : op[1] = "del"
    /\ \A op \in stray : op[1] = "del"
VerdictOK == applied = 0 => Unwritten

\* A container's cached client is one of its own.
CacheOK == \A i \in Instances : cached[i] # 0 => owner[cached[i]] = i

\* Those announced on a container but the one it has cached: each was forgotten.
Former(i) == {n \in announced : owner[n] = i} \ {cached[i]}
FormerOK  == \A i \in Instances : Cardinality(Former(i)) <= forgets[i]

\* Where a cleanup and a frame do not overlap, a handler has the cached client, and
\* a cleanup the one whose streams are live.
StreamsOK ==
    /\ \A q \in Tasks : pc[q] = "handler" =>
         /\ ref[q] \in announced /\ owner[ref[q]] = inst[q]
         /\ cached[inst[q]] = ref[q] \/ inst[q] \in crossed
    /\ \A n \in streams : cached[owner[n]] = n \/ owner[n] \in crossed
    /\ \A k, q \in Tasks : pc[k] \in CleanupPcs /\ pc[q] \in FramePcs /\ inst[k] = inst[q]
         => inst[k] \in crossed
    /\ \A k \in Tasks, n \in streams : pc[k] \in CleanupPcs /\ owner[n] = inst[k]
         => ref[k] = n \/ inst[k] \in crossed

IInv == TypeOK /\ ConnectOK /\ VerdictOK /\ CacheOK /\ FormerOK /\ StreamsOK

\* At first there is nothing.
LEMMA InitIInv == Init => IInv
<1> SUFFICES ASSUME Init PROVE IInv
  OBVIOUS
<1>1. (CHOOSE i \in Instances : TRUE) \in Instances
  OBVIOUS
<1>2. TypeOK
  <2>1. ConnTypes
    BY DEF Init, ConnTypes
  <2>6. FlagTypes
    BY DEF Init, FlagTypes
  <2>2. StoreTypes
    BY DEF Init, StoreTypes
  <2>3. BridgeTypes
    BY DEF Init, BridgeTypes
  <2>4. TaskTypes
    BY <1>1 DEF Init, TaskTypes, TaskPcs
  <2>5. HistTypes
    BY DEF Init, HistTypes
  <2> QED
    BY <2>1, <2>2, <2>3, <2>4, <2>5, <2>6 DEF TypeOK
<1>3. ConnectOK
  <2>1. Len(Plan) \in Nat
    <3>1. attempt.joins = <<>>
      BY DEF Init
    <3>2. Plan \in {<<>> \o <<>>, <<<<GLOBAL_ROOM, TRUE>>>> \o <<>>}
      BY <3>1 DEF Plan
    <3> QED
      BY <3>2
  <2> QED
    BY <2>1 DEF Init, ConnectOK, Connecting, ConnectPcs, FramePcs
<1>4. VerdictOK
  BY DEF Init, VerdictOK, Unwritten, FramePcs
<1>5. CacheOK /\ StreamsOK
  BY DEF Init, CacheOK, StreamsOK, FramePcs, CleanupPcs
<1>6. FormerOK
  <2> SUFFICES ASSUME NEW i \in Instances PROVE Cardinality(Former(i)) <= forgets[i]
    BY DEF FormerOK
  <2>1. Former(i) = {} /\ forgets[i] = 0
    BY DEF Init, Former
  <2> QED
    BY <2>1, FS_EmptySet
<1> QED
  BY <1>2, <1>3, <1>4, <1>5, <1>6 DEF IInv


-----------------------------------------------------------------------------
(* Types                                                                   *)

\* The rows of a room, and the operations on rows, are what they are called.
LEMMA RoomRows ==
    /\ Meta \in Rows /\ \A x \in Rooms : RowsOf(x) \in SUBSET Rows
    /\ \A S \in SUBSET Rows : Put(S) \in SUBSET Put(Rows) /\ Del(S) \in SUBSET Del(Rows)
<1> QED
  BY DEF Rows, Put, Del

\* store.remove only deletes, and only rows.
LEMMA RemoveDeletes ==
    ASSUME NEW seen \in SUBSET Rows
    PROVE  RemoveRows(seen) \in SUBSET Del(Rows)
<1>1. \A q \in seen : q[1] = "rev" => Fwd(q[2]) \in Rows
  <2> SUFFICES ASSUME NEW q \in seen, q[1] = "rev" PROVE Fwd(q[2]) \in Rows
    OBVIOUS
  <2>1. q \in Rows
    OBVIOUS
  <2>2. PICK x \in Rooms : q \in RowsOf(x)
    <3>1. Meta[1] # "rev"
      BY DEF Meta
    <3> QED
      BY <2>1, <3>1 DEF Rows
  <2>3. q = Rev(x)
    <3>1. Fwd(x)[1] # "rev"
      BY DEF Fwd
    <3> QED
      BY <2>2, <3>1 DEF RowsOf
  <2>4. q[2] = x
    BY <2>3 DEF Rev
  <2> QED
    BY <2>4 DEF Rows, RowsOf
<1> QED
  BY <1>1, RoomRows DEF RemoveRows

\* What accept() works through are rooms, and whether to join them.
LEMMA PlanIs ==
    ASSUME TypeOK
    PROVE  Plan \in Seq(Rooms \X BOOLEAN) /\ Len(Plan) \in 0..(Len(attempt.joins) + 1)
<1> DEFINE first == IF foreign THEN <<>> ELSE <<<<GLOBAL_ROOM, TRUE>>>>
<1>1. attempt.joins \in Seq(AppRooms \X BOOLEAN)
  BY DEF TypeOK, ConnTypes
<1>2. attempt.joins \in Seq(Rooms \X BOOLEAN)
  BY <1>1 DEF Rooms
<1>3. first \in Seq(Rooms \X BOOLEAN) /\ Len(first) \in {0, 1}
  <2>1. <<GLOBAL_ROOM, TRUE>> \in Rooms \X BOOLEAN
    BY DEF Rooms
  <2>2. CASE foreign
    BY <2>2
  <2>3. CASE ~foreign
    <3>1. first = <<<<GLOBAL_ROOM, TRUE>>>>
      BY <2>3
    <3> HIDE DEF first
    <3> QED
      BY <2>1, <3>1
  <2> QED
    BY <2>2, <2>3
<1>4. Plan = first \o attempt.joins
  BY DEF Plan
<1> HIDE DEF first
<1>5. Len(attempt.joins) \in Nat
  BY <1>1
<1> QED
  BY <1>2, <1>3, <1>4, <1>5, ConcatProperties

\* The operations of one of its entries.
LEMMA PlannedOps ==
    ASSUME TypeOK, applied \in 1..Len(Plan)
    PROVE  MembershipOps(applied) \in SUBSET (Put(Rows) \cup Del(Rows))
<1>1. Plan[applied] \in Rooms \X BOOLEAN
  BY PlanIs
<1>2. Plan[applied][1] \in Rooms
  BY <1>1
<1> QED
  BY <1>2, RoomRows DEF MembershipOps

\* What a query of the partition sets off.
LEMMA QueryIs ==
    ASSUME TypeOK, NEW k \in Tasks, QueryRows(k)
    PROVE  /\ \E ops \in SUBSET Del(Rows) : todo' = [todo EXCEPT ![k] = ops]
           /\ excuses' \in {excuses, excuses \cup {"staleQuery"}}
           /\ faults' \in {faults, faults + 1} /\ faults' \in 0..MaxFaults
<1>1. CASE UNCHANGED <<faults, excuses>> /\ todo' = [todo EXCEPT ![k] = RemoveRows(rows)]
  <2>1. rows \in SUBSET Rows /\ faults \in 0..MaxFaults
    BY DEF TypeOK, StoreTypes, HistTypes
  <2> QED
    BY <1>1, <2>1, RemoveDeletes
<1>2. ASSUME Fault("staleQuery"), excuses' = excuses \cup {"staleQuery"},
             NEW seen \in SUBSET rows, todo' = [todo EXCEPT ![k] = RemoveRows(seen)]
      PROVE  /\ \E ops \in SUBSET Del(Rows) : todo' = [todo EXCEPT ![k] = ops]
             /\ excuses' \in {excuses, excuses \cup {"staleQuery"}}
             /\ faults' \in {faults, faults + 1} /\ faults' \in 0..MaxFaults
  <2>1. seen \in SUBSET Rows /\ faults \in 0..MaxFaults
    BY DEF TypeOK, StoreTypes, HistTypes
  <2>2. faults' = faults + 1 /\ faults' \in 0..MaxFaults
    BY <1>2, <2>1 DEF Fault
  <2> QED
    BY <1>2, <2>1, <2>2, RemoveDeletes
<1> QED
  BY <1>1, <1>2 DEF QueryRows

\* A client is found or made, cached and announced.
LEMMA ServeIs ==
    ASSUME TypeOK, NEW i \in Instances, NEW tasks \in SUBSET Tasks, Serve(i, tasks)
    PROVE  \E n \in 1..Len(owner') :
             /\ owner' \in Seq(Instances) /\ Len(owner') \in {Len(owner), Len(owner) + 1}
             /\ \A m \in 1..Len(owner) : owner'[m] = owner[m]
             /\ cached[i] # 0 => n = cached[i] /\ UNCHANGED owner
             /\ cached[i] = 0 => n = Len(owner) + 1 /\ owner'[n] = i
             /\ cached' = [cached EXCEPT ![i] = n] /\ announced' = announced \cup {n}
             /\ ref' = [q \in Tasks |-> IF q \in tasks THEN n ELSE ref[q]]
             /\ pc' = [q \in Tasks |-> IF q \in tasks THEN "handler" ELSE pc[q]]
<1> DEFINE n == IF cached[i] # 0 THEN cached[i] ELSE Len(owner) + 1
<1>1. /\ owner \in Seq(Instances) /\ Len(owner) \in Nat /\ cached[i] \in 0..Len(owner)
  BY DEF TypeOK, BridgeTypes
<1>2. /\ owner' = IF cached[i] # 0 THEN owner ELSE Append(owner, i)
      /\ cached' = [cached EXCEPT ![i] = n] /\ announced' = announced \cup {n}
      /\ ref' = [q \in Tasks |-> IF q \in tasks THEN n ELSE ref[q]]
      /\ pc' = [q \in Tasks |-> IF q \in tasks THEN "handler" ELSE pc[q]]
  BY DEF Serve, ClientFor, Cached
<1>3. /\ owner' \in Seq(Instances) /\ Len(owner') \in {Len(owner), Len(owner) + 1}
      /\ \A m \in 1..Len(owner) : owner'[m] = owner[m]
      /\ n \in 1..Len(owner') /\ cached[i] = 0 => owner'[n] = i
  BY <1>1, <1>2, AppendProperties
<1>4. n \in 1..Len(owner')
  BY <1>1, <1>2, AppendProperties
<1> HIDE DEF n
<1>5. /\ cached[i] # 0 => n = cached[i] /\ UNCHANGED owner
      /\ cached[i] = 0 => n = Len(owner) + 1
  BY <1>2 DEF n
<1> QED
  BY <1>1, <1>2, <1>3, <1>4, <1>5

\* One more client object.
LEMMA OwnerGrows ==
    ASSUME TypeOK, NEW i \in Instances, owner' = Append(owner, i)
    PROVE  /\ owner' \in Seq(Instances) /\ Len(owner') = Len(owner) + 1 /\ Len(owner) \in Nat
           /\ owner'[Len(owner) + 1] = i /\ \A m \in 1..Len(owner) : owner'[m] = owner[m]
<1>1. owner \in Seq(Instances)
  BY DEF TypeOK, BridgeTypes
<1> QED
  BY <1>1, AppendProperties

\* A deletion puts nothing.
LEMMA DeletionsPutNothing ==
    /\ \A op \in Del(Rows) : op[1] = "del"
    /\ \A op : rows = {} /\ op[1] = "del" => Landed({op}) = {}
<1>1. \A op \in Del(Rows) : op[1] = "del"
  BY DEF Del
<1>2. ASSUME NEW op, rows = {}, op[1] = "del" PROVE Landed({op}) = {}
  <2>1. ASSUME NEW row PROVE <<"put", row>> # op
    <3>1. <<"put", row>>[1] = "put"
      OBVIOUS
    <3> QED
      BY <1>2, <3>1
  <2> QED
    BY <1>2, <2>1 DEF Landed
<1> QED
  BY <1>1, <1>2

\* One lemma per action: it leaves every variable of its type.
LEMMA HooksRefuseTypes == ASSUME TypeOK, NEW k \in Tasks, HooksRefuse(k) PROVE TypeOK'
<1>1. FlagTypes' /\ StoreTypes' /\ BridgeTypes' /\ HistTypes'
  BY DEF TypeOK, HooksRefuse, storeVars, bridgeVars, taskVars, connVars, sockVars, histVars,
         FlagTypes, StoreTypes, BridgeTypes, HistTypes
<1>2. ConnTypes'
  BY DEF TypeOK, HooksRefuse, Answer, storeVars, bridgeVars, taskVars, connVars, sockVars,
         histVars, ConnTypes
<1>3. TaskTypes'
  BY DEF TypeOK, HooksRefuse, Goto, TaskPcs, storeVars, bridgeVars, taskVars, connVars,
         sockVars, histVars, TaskTypes, BridgeTypes
<1> QED
  BY <1>1, <1>2, <1>3 DEF TypeOK

LEMMA HooksAcceptTypes == ASSUME TypeOK, NEW k \in Tasks, HooksAccept(k) PROVE TypeOK'
<1>1. FlagTypes' /\ ConnTypes' /\ StoreTypes' /\ BridgeTypes' /\ HistTypes'
  BY DEF TypeOK, HooksAccept, storeVars, bridgeVars, taskVars, connVars, sockVars, histVars,
         FlagTypes, ConnTypes, StoreTypes, BridgeTypes, HistTypes
<1>2. TaskTypes'
  BY DEF TypeOK, HooksAccept, Goto, TaskPcs, storeVars, bridgeVars, taskVars, connVars,
         sockVars, histVars, TaskTypes, BridgeTypes
<1> QED
  BY <1>1, <1>2 DEF TypeOK

LEMMA AddMetaTypes == ASSUME TypeOK, NEW k \in Tasks, AddMeta(k) PROVE TypeOK'
<1>1. FlagTypes' /\ StoreTypes' /\ BridgeTypes' /\ HistTypes'
  BY DEF TypeOK, AddMeta, storeVars, bridgeVars, taskVars, connVars, sockVars, histVars,
         FlagTypes, StoreTypes, BridgeTypes, HistTypes
<1>2. ConnTypes'
  BY DEF TypeOK, AddMeta, storeVars, bridgeVars, taskVars, connVars, sockVars, histVars,
         ConnTypes
<1>3. TaskTypes'
  <2>1. Put({Meta}) \in SUBSET (Put(Rows) \cup Del(Rows))
    BY RoomRows
  <2>2. pc' \in [Tasks -> TaskPcs]
    BY DEF TypeOK, AddMeta, Goto, TaskPcs, TaskTypes
  <2> QED
    BY <2>1, <2>2 DEF TypeOK, AddMeta, TaskTypes, bridgeVars
<1> QED
  BY <1>1, <1>2, <1>3 DEF TypeOK

LEMMA ApplyMembershipTypes ==
    ASSUME TypeOK, NEW k \in Tasks, applied # 0, ApplyMembership(k)
    PROVE  TypeOK'
<1>1. FlagTypes' /\ StoreTypes' /\ BridgeTypes' /\ HistTypes'
  BY DEF TypeOK, ApplyMembership, storeVars, bridgeVars, taskVars, connVars, sockVars,
         histVars, FlagTypes, StoreTypes, BridgeTypes, HistTypes
<1>2. ConnTypes'
  BY DEF TypeOK, ApplyMembership, Plan, storeVars, bridgeVars, taskVars, connVars, sockVars,
         histVars, ConnTypes
<1>3. TaskTypes'
  <2>1. applied \in 1..Len(Plan)
    BY PlanIs DEF ApplyMembership, TypeOK, ConnTypes
  <2> QED
    BY <2>1, PlannedOps DEF TypeOK, ApplyMembership, TaskTypes, bridgeVars
<1> QED
  BY <1>1, <1>2, <1>3 DEF TypeOK

LEMMA AcceptedTypes == ASSUME TypeOK, NEW k \in Tasks, Accepted(k) PROVE TypeOK'
<1>1. FlagTypes' /\ StoreTypes' /\ HistTypes'
  BY DEF TypeOK, Accepted, storeVars, bridgeVars, taskVars, connVars, sockVars, histVars,
         FlagTypes, StoreTypes, HistTypes
<1>2. ConnTypes'
  BY DEF TypeOK, Accepted, Answer, storeVars, bridgeVars, taskVars, connVars, sockVars,
         histVars, ConnTypes
<1>3. BridgeTypes'
  <2>1. inst[k] \in Instances /\ ref[k] \in 0..Len(owner)
    BY DEF TypeOK, TaskTypes
  <2> QED
    BY <2>1 DEF TypeOK, Accepted, BridgeTypes
<1>4. TaskTypes'
  BY DEF TypeOK, Accepted, Goto, TaskPcs, storeVars, bridgeVars, taskVars, connVars,
         sockVars, histVars, TaskTypes, BridgeTypes
<1> QED
  BY <1>1, <1>2, <1>3, <1>4 DEF TypeOK

LEMMA UndoTypes == ASSUME TypeOK, NEW k \in Tasks, Undo(k) PROVE TypeOK'
<1>1. ConnTypes' /\ StoreTypes' /\ BridgeTypes'
  BY DEF TypeOK, Undo, QueryRows, storeVars, bridgeVars, taskVars, connVars, sockVars,
         histVars, ConnTypes, StoreTypes, BridgeTypes
<1>2. FlagTypes'
  BY DEF TypeOK, Undo, QueryRows, storeVars, bridgeVars, taskVars, connVars, sockVars,
         histVars, FlagTypes
<1>3. TaskTypes'
  <2>1. PICK ops \in SUBSET Del(Rows) : todo' = [todo EXCEPT ![k] = ops]
    BY QueryIs DEF Undo
  <2> QED
    BY <2>1 DEF TypeOK, Undo, QueryRows, Goto, TaskPcs, TaskTypes, bridgeVars
<1>4. HistTypes'
  <2>1. excuses' \in {excuses, excuses \cup {"staleQuery"}} /\ faults' \in 0..MaxFaults
    BY QueryIs DEF Undo
  <2> QED
    BY <2>1 DEF TypeOK, Undo, QueryRows, HistTypes, Causes, FaultKinds
<1> QED
  BY <1>1, <1>2, <1>3, <1>4 DEF TypeOK

LEMMA UndoneTypes == ASSUME TypeOK, NEW k \in Tasks, Undone(k) PROVE TypeOK'
<1>1. FlagTypes' /\ StoreTypes' /\ BridgeTypes' /\ HistTypes'
  BY DEF TypeOK, Undone, storeVars, bridgeVars, taskVars, connVars, sockVars, histVars,
         FlagTypes, StoreTypes, BridgeTypes, HistTypes
<1>2. ConnTypes'
  BY DEF TypeOK, Undone, Answer, storeVars, bridgeVars, taskVars, connVars, sockVars,
         histVars, ConnTypes
<1>3. TaskTypes'
  BY DEF TypeOK, Undone, Goto, TaskPcs, storeVars, bridgeVars, taskVars, connVars, sockVars,
         histVars, TaskTypes, BridgeTypes
<1> QED
  BY <1>1, <1>2, <1>3 DEF TypeOK

LEMMA RowDoneTypes == ASSUME TypeOK, NEW k \in Tasks, RowDone(k) PROVE TypeOK'
<1>1. FlagTypes' /\ ConnTypes' /\ BridgeTypes'
  BY DEF TypeOK, RowDone, storeVars, bridgeVars, taskVars, connVars, sockVars, histVars,
         FlagTypes, ConnTypes, BridgeTypes
<1>2. StoreTypes'
  BY DEF TypeOK, RowDone, Landed, storeVars, bridgeVars, taskVars, connVars, sockVars,
         histVars, StoreTypes
<1>3. TaskTypes'
  BY DEF TypeOK, RowDone, storeVars, bridgeVars, taskVars, connVars, sockVars, histVars,
         TaskTypes, BridgeTypes
<1>4. HistTypes'
  BY DEF TypeOK, RowDone, LateWrite, Causes, storeVars, bridgeVars, taskVars, connVars,
         sockVars, histVars, HistTypes
<1> QED
  BY <1>1, <1>2, <1>3, <1>4 DEF TypeOK

LEMMA RowFailsTypes == ASSUME TypeOK, NEW k \in Tasks, RowFails(k) PROVE TypeOK'
<1>1. FlagTypes' /\ BridgeTypes'
  BY DEF TypeOK, RowFails, Fault, storeVars, bridgeVars, taskVars, connVars, sockVars,
         histVars, FlagTypes, BridgeTypes
<1>2. ConnTypes'
  BY DEF TypeOK, RowFails, Answer, storeVars, bridgeVars, taskVars, connVars, sockVars,
         histVars, ConnTypes
<1>3. StoreTypes'
  <2>1. todo[k] \in SUBSET (Put(Rows) \cup Del(Rows))
    BY DEF TypeOK, TaskTypes
  <2> QED
    BY <2>1 DEF TypeOK, RowFails, StoreTypes
<1>4. TaskTypes'
  BY DEF TypeOK, RowFails, Goto, TaskPcs, storeVars, bridgeVars, taskVars, connVars,
         sockVars, histVars, TaskTypes, BridgeTypes
<1>5. HistTypes'
  BY DEF TypeOK, RowFails, Fault, Causes, FaultKinds, storeVars, bridgeVars, taskVars,
         connVars, sockVars, histVars, HistTypes
<1> QED
  BY <1>1, <1>2, <1>3, <1>4, <1>5 DEF TypeOK

LEMMA ReadMetaTypes == ASSUME TypeOK, NEW k \in Tasks, ReadMeta(k) PROVE TypeOK'
<1>1. FlagTypes' /\ ConnTypes' /\ StoreTypes' /\ BridgeTypes' /\ HistTypes'
  BY DEF TypeOK, ReadMeta, storeVars, bridgeVars, taskVars, connVars, sockVars, histVars,
         FlagTypes, ConnTypes, StoreTypes, BridgeTypes, HistTypes
<1>2. TaskTypes'
  BY DEF TypeOK, ReadMeta, Goto, TaskPcs, FramePcs, storeVars, bridgeVars, taskVars,
         connVars, sockVars, histVars, TaskTypes, BridgeTypes
<1> QED
  BY <1>1, <1>2 DEF TypeOK

LEMMA RehydratedTypes == ASSUME TypeOK, NEW k \in Tasks, Rehydrated(k) PROVE TypeOK'
<1>1. FlagTypes' /\ ConnTypes' /\ StoreTypes' /\ HistTypes'
  BY DEF TypeOK, Rehydrated, Serve, storeVars, bridgeVars, taskVars, connVars, sockVars,
         histVars, FlagTypes, ConnTypes, StoreTypes, HistTypes
<1>2. BridgeTypes'
  <2>1. inst[k] \in Instances /\ Sharing(k) \in SUBSET Tasks /\ Serve(inst[k], Sharing(k))
    BY DEF TypeOK, TaskTypes, Rehydrated, Sharing
  <2>2. PICK n \in 1..Len(owner') :
          /\ owner' \in Seq(Instances) /\ Len(owner') \in {Len(owner), Len(owner) + 1}
          /\ cached' = [cached EXCEPT ![inst[k]] = n] /\ announced' = announced \cup {n}
    BY <2>1, ServeIs
  <2>3. BridgeTypes /\ Len(owner) \in Nat
    BY DEF TypeOK, BridgeTypes
  <2>4. streams' = streams /\ lead' \in [Instances -> Tasks \cup {None}]
    BY <2>1, <2>3 DEF Rehydrated, BridgeTypes
  <2>5. cached' \in [Instances -> 0..Len(owner')]
    <3>1. cached \in [Instances -> 0..Len(owner)] /\ n \in 0..Len(owner') /\ n \in Nat
      BY <2>2, <2>3 DEF BridgeTypes
    <3>2. \A j \in Instances : cached[j] \in 0..Len(owner')
      BY <2>2, <2>3, <3>1
    <3> QED
      BY <2>1, <2>2, <3>1, <3>2
  <2>6. announced' \subseteq 1..Len(owner') /\ streams \subseteq announced'
    BY <2>2, <2>3 DEF BridgeTypes
  <2> QED
    BY <2>2, <2>4, <2>5, <2>6 DEF BridgeTypes
<1>3. TaskTypes'
  BY DEF TypeOK, Rehydrated, Serve, ClientFor, Cached, TaskPcs, FramePcs, storeVars,
         bridgeVars, taskVars, connVars, sockVars, histVars, TaskTypes, BridgeTypes
<1> QED
  BY <1>1, <1>2, <1>3 DEF TypeOK

LEMMA UnknownTypes == ASSUME TypeOK, NEW k \in Tasks, Unknown(k) PROVE TypeOK'
<1>1. FlagTypes' /\ ConnTypes' /\ StoreTypes' /\ HistTypes'
  BY DEF TypeOK, Unknown, storeVars, bridgeVars, taskVars, connVars, sockVars, histVars,
         FlagTypes, ConnTypes, StoreTypes, HistTypes
<1>2. BridgeTypes'
  BY DEF TypeOK, Unknown, storeVars, bridgeVars, taskVars, connVars, sockVars, histVars,
         BridgeTypes
<1>3. TaskTypes'
  BY DEF TypeOK, Unknown, TaskPcs, FramePcs, storeVars, bridgeVars, taskVars, connVars,
         sockVars, histVars, TaskTypes, BridgeTypes
<1> QED
  BY <1>1, <1>2, <1>3 DEF TypeOK

LEMMA RefuseTypes == ASSUME TypeOK, NEW k \in Tasks, Refuse(k) PROVE TypeOK'
<1>1. StoreTypes' /\ BridgeTypes'
  BY DEF TypeOK, Refuse, DropSocket, storeVars, bridgeVars, taskVars, connVars, sockVars,
         histVars, StoreTypes, BridgeTypes
<1>2. FlagTypes'
  BY DEF TypeOK, Refuse, DropSocket, sockVars, storeVars, bridgeVars, taskVars, connVars,
         histVars, FlagTypes
<1>3. ConnTypes'
  BY DEF TypeOK, Refuse, DropSocket, sockVars, storeVars, bridgeVars, taskVars, connVars,
         histVars, ConnTypes
<1>4. TaskTypes'
  BY DEF TypeOK, Refuse, Goto, TaskPcs, storeVars, bridgeVars, taskVars, connVars, sockVars,
         histVars, TaskTypes, BridgeTypes
<1>5. HistTypes'
  BY DEF TypeOK, Refuse, Fault, storeVars, bridgeVars, taskVars, connVars, sockVars,
         histVars, HistTypes
<1> QED
  BY <1>1, <1>2, <1>3, <1>4, <1>5 DEF TypeOK

LEMMA HandlerEndsTypes == ASSUME TypeOK, NEW k \in Tasks, HandlerEnds(k) PROVE TypeOK'
<1>1. FlagTypes' /\ ConnTypes' /\ StoreTypes' /\ BridgeTypes' /\ HistTypes'
  BY DEF TypeOK, HandlerEnds, storeVars, bridgeVars, taskVars, connVars, sockVars, histVars,
         FlagTypes, ConnTypes, StoreTypes, BridgeTypes, HistTypes
<1>2. TaskTypes'
  BY DEF TypeOK, HandlerEnds, Goto, TaskPcs, storeVars, bridgeVars, taskVars, connVars,
         sockVars, histVars, TaskTypes, BridgeTypes
<1> QED
  BY <1>1, <1>2 DEF TypeOK

LEMMA OpenStreamTypes ==
    ASSUME TypeOK, NEW k \in Tasks, ref[k] \in announced, OpenStream(k)
    PROVE  TypeOK'
<1>1. FlagTypes' /\ ConnTypes' /\ StoreTypes' /\ HistTypes'
  BY DEF TypeOK, OpenStream, storeVars, bridgeVars, taskVars, connVars, sockVars, histVars,
         FlagTypes, ConnTypes, StoreTypes, HistTypes
<1>2. BridgeTypes'
  BY DEF TypeOK, OpenStream, BridgeTypes
<1>3. TaskTypes'
  BY DEF TypeOK, OpenStream, Goto, TaskPcs, storeVars, bridgeVars, taskVars, connVars,
         sockVars, histVars, TaskTypes, BridgeTypes
<1> QED
  BY <1>1, <1>2, <1>3 DEF TypeOK

LEMMA HandlerCleansTypes == ASSUME TypeOK, NEW k \in Tasks, HandlerCleans(k) PROVE TypeOK'
<1>1. FlagTypes' /\ ConnTypes' /\ StoreTypes' /\ BridgeTypes'
  BY DEF TypeOK, HandlerCleans, BeginCleanup, storeVars, bridgeVars, taskVars, connVars,
         sockVars, histVars, FlagTypes, ConnTypes, StoreTypes, BridgeTypes
<1>2. TaskTypes'
  BY DEF TypeOK, HandlerCleans, BeginCleanup, Goto, TaskPcs, CleanupPcs, Cached, storeVars,
         bridgeVars, taskVars, connVars, sockVars, histVars, TaskTypes, BridgeTypes
<1>3. HistTypes'
  <2>1. inst[k] \in Instances
    BY DEF TypeOK, TaskTypes
  <2> QED
    BY <2>1 DEF TypeOK, HandlerCleans, BeginCleanup, HistTypes
<1> QED
  BY <1>1, <1>2, <1>3 DEF TypeOK

LEMMA HandlerMembershipTypes ==
    ASSUME TypeOK, NEW k \in Tasks, NEW x \in AppRooms, HandlerMembership(k, x)
    PROVE  TypeOK'
<1>1. FlagTypes' /\ ConnTypes' /\ StoreTypes' /\ BridgeTypes'
  BY DEF TypeOK, HandlerMembership, storeVars, bridgeVars, taskVars, connVars, sockVars,
         histVars, FlagTypes, ConnTypes, StoreTypes, BridgeTypes
<1>2. TaskTypes'
  <2>1. Put(RowsOf(x)) \in SUBSET Put(Rows) /\ Del(RowsOf(x)) \in SUBSET Del(Rows)
    BY RoomRows DEF Rooms
  <2>2. \E ops \in SUBSET (Put(Rows) \cup Del(Rows)) : todo' = [todo EXCEPT ![k] = ops]
    BY <2>1 DEF HandlerMembership
  <2> QED
    BY <2>2 DEF TypeOK, HandlerMembership, Goto, TaskPcs, FramePcs, TaskTypes, bridgeVars
<1>3. HistTypes'
  BY DEF TypeOK, HandlerMembership, Causes, storeVars, bridgeVars, taskVars, connVars,
         sockVars, histVars, HistTypes
<1> QED
  BY <1>1, <1>2, <1>3 DEF TypeOK

LEMMA LookUpTypes == ASSUME TypeOK, NEW k \in Tasks, LookUp(k) PROVE TypeOK'
<1>1. FlagTypes' /\ ConnTypes' /\ StoreTypes' /\ BridgeTypes'
  BY DEF TypeOK, LookUp, storeVars, bridgeVars, taskVars, connVars, sockVars, histVars,
         FlagTypes, ConnTypes, StoreTypes, BridgeTypes
<1>2. TaskTypes'
  BY DEF TypeOK, LookUp, Goto, TaskPcs, CleanupPcs, storeVars, bridgeVars, taskVars,
         connVars, sockVars, histVars, TaskTypes, BridgeTypes
<1>3. HistTypes'
  <2>1. excuses' \in {excuses, excuses \cup {"get"}}
    BY DEF LookUp
  <2>2. faults' \in 0..MaxFaults
    BY DEF LookUp, Fault, TypeOK, HistTypes
  <2> QED
    BY <2>1, <2>2 DEF TypeOK, LookUp, HistTypes, Causes, FaultKinds
<1> QED
  BY <1>1, <1>2, <1>3 DEF TypeOK

LEMMA FarewellTypes == ASSUME TypeOK, NEW k \in Tasks, Farewell(k) PROVE TypeOK'
<1>1. FlagTypes' /\ ConnTypes' /\ StoreTypes' /\ BridgeTypes'
  BY DEF TypeOK, Farewell, storeVars, bridgeVars, taskVars, connVars, sockVars, histVars,
         FlagTypes, ConnTypes, StoreTypes, BridgeTypes
<1>2. TaskTypes'
  BY DEF TypeOK, Farewell, Goto, TaskPcs, CleanupPcs, storeVars, bridgeVars, taskVars,
         connVars, sockVars, histVars, TaskTypes, BridgeTypes
<1>3. HistTypes'
  BY DEF TypeOK, Farewell, OnDisconnect, storeVars, bridgeVars, taskVars, connVars,
         sockVars, histVars, HistTypes
<1> QED
  BY <1>1, <1>2, <1>3 DEF TypeOK

LEMMA QueryTypes == ASSUME TypeOK, NEW k \in Tasks, Query(k) PROVE TypeOK'
<1>1. ConnTypes' /\ StoreTypes' /\ BridgeTypes'
  BY DEF TypeOK, Query, QueryRows, storeVars, bridgeVars, taskVars, connVars, sockVars,
         histVars, ConnTypes, StoreTypes, BridgeTypes
<1>2. FlagTypes'
  BY DEF TypeOK, Query, QueryRows, storeVars, bridgeVars, taskVars, connVars, sockVars,
         histVars, FlagTypes
<1>3. TaskTypes'
  <2>1. PICK ops \in SUBSET Del(Rows) : todo' = [todo EXCEPT ![k] = ops]
    BY QueryIs DEF Query
  <2> QED
    BY <2>1 DEF TypeOK, Query, QueryRows, Goto, TaskPcs, CleanupPcs, TaskTypes, bridgeVars
<1>4. HistTypes'
  <2>1. excuses' \in {excuses, excuses \cup {"staleQuery"}} /\ faults' \in 0..MaxFaults
    BY QueryIs DEF Query
  <2> QED
    BY <2>1 DEF TypeOK, Query, QueryRows, HistTypes, Causes, FaultKinds
<1> QED
  BY <1>1, <1>2, <1>3, <1>4 DEF TypeOK

LEMMA ForgetTypes == ASSUME TypeOK, NEW k \in Tasks, Forget(k) PROVE TypeOK'
<1>1. FlagTypes' /\ ConnTypes' /\ StoreTypes'
  BY DEF TypeOK, Forget, storeVars, bridgeVars, taskVars, connVars, sockVars, histVars,
         FlagTypes, ConnTypes, StoreTypes
<1>2. BridgeTypes'
  <2>1. inst[k] \in Instances
    BY DEF TypeOK, TaskTypes
  <2>2. Len(owner) \in Nat /\ 0 \in 0..Len(owner)
    BY DEF TypeOK, BridgeTypes
  <2>3. BridgeTypes
    BY DEF TypeOK
  <2>4. cached' = [cached EXCEPT ![inst[k]] = 0] /\ streams' = streams \ {ref[k]}
        /\ UNCHANGED <<owner, lead, announced>>
    BY DEF Forget, TearDown
  <2>5. cached' \in [Instances -> 0..Len(owner)]
    BY <2>1, <2>2, <2>3, <2>4 DEF BridgeTypes
  <2> QED
    BY <2>3, <2>4, <2>5 DEF BridgeTypes
<1>3. TaskTypes'
  BY DEF TypeOK, Forget, Goto, TaskPcs, CleanupPcs, storeVars, bridgeVars, taskVars,
         connVars, sockVars, histVars, TaskTypes, BridgeTypes
<1>4. HistTypes'
  <2>1. inst[k] \in Instances
    BY DEF TypeOK, TaskTypes
  <2> QED
    BY <2>1 DEF TypeOK, Forget, HistTypes
<1> QED
  BY <1>1, <1>2, <1>3, <1>4 DEF TypeOK

LEMMA CloseTypes == ASSUME TypeOK, NEW k \in Tasks, Close(k) PROVE TypeOK'
<1>1. StoreTypes' /\ BridgeTypes'
  BY DEF TypeOK, Close, DropSocket, storeVars, bridgeVars, taskVars, connVars, sockVars,
         histVars, StoreTypes, BridgeTypes
<1>2. FlagTypes'
  BY DEF TypeOK, Close, DropSocket, sockVars, storeVars, bridgeVars, taskVars, connVars,
         histVars, FlagTypes
<1>3. ConnTypes'
  BY DEF TypeOK, Close, DropSocket, sockVars, storeVars, bridgeVars, taskVars, connVars,
         histVars, ConnTypes
<1>4. TaskTypes'
  BY DEF TypeOK, Close, Goto, TaskPcs, storeVars, bridgeVars, taskVars, connVars, sockVars,
         histVars, TaskTypes, BridgeTypes
<1>5. HistTypes'
  BY DEF TypeOK, Close, Fault, storeVars, bridgeVars, taskVars, connVars, sockVars,
         histVars, HistTypes
<1> QED
  BY <1>1, <1>2, <1>3, <1>4, <1>5 DEF TypeOK

LEMMA ReadFailsTypes == ASSUME TypeOK, NEW k \in Tasks, ReadFails(k) PROVE TypeOK'
<1>1. FlagTypes' /\ ConnTypes' /\ StoreTypes'
  BY DEF TypeOK, ReadFails, storeVars, bridgeVars, taskVars, connVars, sockVars, histVars,
         FlagTypes, ConnTypes, StoreTypes
<1>2. BridgeTypes'
  BY DEF TypeOK, ReadFails, LeadDone, storeVars, bridgeVars, taskVars, connVars, sockVars,
         histVars, BridgeTypes
<1>3. TaskTypes'
  BY DEF TypeOK, ReadFails, TaskPcs, storeVars, bridgeVars, taskVars, connVars, sockVars,
         histVars, TaskTypes, BridgeTypes
<1>4. HistTypes'
  BY DEF TypeOK, ReadFails, Fault, storeVars, bridgeVars, taskVars, connVars, sockVars,
         histVars, HistTypes
<1> QED
  BY <1>1, <1>2, <1>3, <1>4 DEF TypeOK

LEMMA ConnectTypes ==
    ASSUME TypeOK, NEW k \in Tasks, NEW i \in Instances, Connect(k, i)
    PROVE  TypeOK'
<1>1. FlagTypes' /\ StoreTypes'
  BY DEF TypeOK, Connect, Start, storeVars, bridgeVars, taskVars, connVars, sockVars,
         histVars, FlagTypes, StoreTypes
<1>2. ConnTypes'
  BY DEF TypeOK, Connect, storeVars, bridgeVars, taskVars, connVars, sockVars, histVars,
         ConnTypes
<1>3. BridgeTypes'
  <2>1. CASE hooks
    <3>1. owner' = Append(owner, i) /\ UNCHANGED <<cached, lead, announced, streams>>
      BY <2>1 DEF Connect
    <3>2. owner' \in Seq(Instances) /\ Len(owner') = Len(owner) + 1 /\ Len(owner) \in Nat
      BY <3>1, OwnerGrows
    <3> QED
      BY <3>1, <3>2 DEF TypeOK, BridgeTypes
  <2>2. CASE ~hooks
    BY <2>2 DEF TypeOK, Connect, BridgeTypes
  <2> QED
    BY <2>1, <2>2
<1>4. TaskTypes'
  <2>1. ref' \in [Tasks -> 0..Len(owner')]
    <3>1. CASE hooks
      <4>1. owner' = Append(owner, i) /\ ref' = [ref EXCEPT ![k] = Len(owner) + 1]
        BY <3>1 DEF Connect
      <4>2. Len(owner') = Len(owner) + 1 /\ Len(owner) \in Nat
        BY <4>1, OwnerGrows
      <4> QED
        BY <4>1, <4>2 DEF TypeOK, TaskTypes
    <3>2. CASE ~hooks
      BY <3>2 DEF TypeOK, Connect, TaskTypes
    <3> QED
      BY <3>1, <3>2
  <2>2. pc' \in [Tasks -> TaskPcs]
    BY DEF TypeOK, Connect, Goto, TaskPcs, TaskTypes
  <2> QED
    BY <2>1, <2>2 DEF TypeOK, Connect, Start, TaskTypes
<1>5. HistTypes'
  BY DEF TypeOK, Connect, Start, storeVars, bridgeVars, taskVars, connVars, sockVars,
         histVars, HistTypes
<1> QED
  BY <1>1, <1>2, <1>3, <1>4, <1>5 DEF TypeOK

LEMMA FrameServedTypes ==
    ASSUME TypeOK, NEW k \in Tasks, NEW i \in Instances, FrameServed(k, i)
    PROVE  TypeOK'
<1>1. FlagTypes' /\ ConnTypes' /\ StoreTypes'
  BY DEF TypeOK, FrameServed, StartFrame, Start, Serve, storeVars, bridgeVars, taskVars,
         connVars, sockVars, histVars, FlagTypes, ConnTypes, StoreTypes
<1>2. BridgeTypes'
  <2>1. i \in Instances /\ {k} \in SUBSET Tasks /\ Serve(i, {k})
    BY DEF TypeOK, TaskTypes, FrameServed, Sharing
  <2>2. PICK n \in 1..Len(owner') :
          /\ owner' \in Seq(Instances) /\ Len(owner') \in {Len(owner), Len(owner) + 1}
          /\ cached' = [cached EXCEPT ![i] = n] /\ announced' = announced \cup {n}
    BY <2>1, ServeIs
  <2>3. BridgeTypes /\ Len(owner) \in Nat
    BY DEF TypeOK, BridgeTypes
  <2>4. streams' = streams /\ lead' \in [Instances -> Tasks \cup {None}]
    BY <2>1, <2>3 DEF FrameServed, StartFrame, BridgeTypes
  <2>5. cached' \in [Instances -> 0..Len(owner')]
    <3>1. cached \in [Instances -> 0..Len(owner)] /\ n \in 0..Len(owner') /\ n \in Nat
      BY <2>2, <2>3 DEF BridgeTypes
    <3>2. \A j \in Instances : cached[j] \in 0..Len(owner')
      BY <2>2, <2>3, <3>1
    <3> QED
      BY <2>1, <2>2, <3>1, <3>2
  <2>6. announced' \subseteq 1..Len(owner') /\ streams \subseteq announced'
    BY <2>2, <2>3 DEF BridgeTypes
  <2> QED
    BY <2>2, <2>4, <2>5, <2>6 DEF BridgeTypes
<1>3. TaskTypes'
  BY DEF TypeOK, FrameServed, StartFrame, Start, Serve, ClientFor, Cached, TaskPcs,
         FramePcs, storeVars, bridgeVars, taskVars, connVars, sockVars, histVars, TaskTypes,
         BridgeTypes
<1>4. HistTypes'
  BY DEF TypeOK, FrameServed, StartFrame, Start, storeVars, bridgeVars, taskVars, connVars,
         sockVars, histVars, HistTypes
<1> QED
  BY <1>1, <1>2, <1>3, <1>4 DEF TypeOK

LEMMA FrameUncachedTypes ==
    ASSUME TypeOK, NEW k \in Tasks, NEW i \in Instances, FrameUncached(k, i)
    PROVE  TypeOK'
<1>1. FlagTypes' /\ ConnTypes' /\ StoreTypes'
  BY DEF TypeOK, FrameUncached, StartFrame, Start, storeVars, bridgeVars, taskVars,
         connVars, sockVars, histVars, FlagTypes, ConnTypes, StoreTypes
<1>2. BridgeTypes'
  BY DEF TypeOK, FrameUncached, StartFrame, storeVars, bridgeVars, taskVars, connVars,
         sockVars, histVars, BridgeTypes
<1>3. TaskTypes'
  BY DEF TypeOK, FrameUncached, StartFrame, Start, Goto, TaskPcs, FramePcs, storeVars,
         bridgeVars, taskVars, connVars, sockVars, histVars, TaskTypes, BridgeTypes
<1>4. HistTypes'
  BY DEF TypeOK, FrameUncached, StartFrame, Start, On, storeVars, bridgeVars, taskVars,
         connVars, sockVars, histVars, HistTypes
<1> QED
  BY <1>1, <1>2, <1>3, <1>4 DEF TypeOK

LEMMA DisconnectedTypes ==
    ASSUME TypeOK, NEW k \in Tasks, NEW i \in Instances, Disconnected(k, i)
    PROVE  TypeOK'
<1>1. ConnTypes' /\ StoreTypes' /\ BridgeTypes'
  BY DEF TypeOK, Disconnected, Start, BeginCleanup, storeVars, bridgeVars, taskVars,
         connVars, sockVars, histVars, ConnTypes, StoreTypes, BridgeTypes
<1>2. FlagTypes'
  BY DEF TypeOK, Disconnected, BeginCleanup, Start, storeVars, bridgeVars, taskVars,
         connVars, sockVars, histVars, FlagTypes
<1>3. TaskTypes'
  BY DEF TypeOK, Disconnected, Start, BeginCleanup, Goto, Cached, TaskPcs, CleanupPcs,
         storeVars, bridgeVars, taskVars, connVars, sockVars, histVars, TaskTypes,
         BridgeTypes
<1>4. HistTypes'
  BY DEF TypeOK, Disconnected, Start, BeginCleanup, storeVars, bridgeVars, taskVars,
         connVars, sockVars, histVars, HistTypes
<1> QED
  BY <1>1, <1>2, <1>3, <1>4 DEF TypeOK

LEMMA GoneTypes ==
    ASSUME TypeOK, NEW k \in Tasks, NEW i \in Instances, Gone(k, i)
    PROVE  TypeOK'
<1>1. FlagTypes' /\ ConnTypes' /\ StoreTypes' /\ BridgeTypes'
  BY DEF TypeOK, Gone, Start, BeginCleanup, storeVars, bridgeVars, taskVars, connVars,
         sockVars, histVars, FlagTypes, ConnTypes, StoreTypes, BridgeTypes
<1>2. TaskTypes'
  BY DEF TypeOK, Gone, Start, BeginCleanup, Goto, Cached, TaskPcs, CleanupPcs, storeVars,
         bridgeVars, taskVars, connVars, sockVars, histVars, TaskTypes, BridgeTypes
<1>3. HistTypes'
  BY DEF TypeOK, Gone, Start, BeginCleanup, Early, Causes, storeVars, bridgeVars, taskVars,
         connVars, sockVars, histVars, HistTypes
<1> QED
  BY <1>1, <1>2, <1>3 DEF TypeOK

LEMMA KickTypes ==
    ASSUME TypeOK, NEW k \in Tasks, NEW i \in Instances, Kick(k, i)
    PROVE  TypeOK'
<1>1. FlagTypes' /\ ConnTypes' /\ StoreTypes' /\ BridgeTypes'
  BY DEF TypeOK, Kick, Start, BeginCleanup, storeVars, bridgeVars, taskVars, connVars,
         sockVars, histVars, FlagTypes, ConnTypes, StoreTypes, BridgeTypes
<1>2. TaskTypes'
  BY DEF TypeOK, Kick, Start, BeginCleanup, Goto, Cached, TaskPcs, CleanupPcs, storeVars,
         bridgeVars, taskVars, connVars, sockVars, histVars, TaskTypes, BridgeTypes
<1>3. HistTypes'
  BY DEF TypeOK, Kick, Start, BeginCleanup, Early, Causes, storeVars, bridgeVars, taskVars,
         connVars, sockVars, histVars, HistTypes
<1> QED
  BY <1>1, <1>2, <1>3 DEF TypeOK

LEMMA HookMembershipTypes ==
    ASSUME TypeOK, NEW x \in AppRooms, NEW join \in BOOLEAN, HookMembership(x, join)
    PROVE  TypeOK'
<1>1. FlagTypes' /\ StoreTypes' /\ BridgeTypes' /\ TaskTypes' /\ HistTypes'
  BY DEF TypeOK, HookMembership, storeVars, bridgeVars, taskVars, connVars, sockVars,
         histVars, FlagTypes, StoreTypes, BridgeTypes, TaskTypes, HistTypes
<1>2. ConnTypes'
  <2>1. attempt.joins \in Seq(AppRooms \X BOOLEAN) /\ <<x, join>> \in AppRooms \X BOOLEAN
    BY DEF TypeOK, ConnTypes
  <2>2. /\ Append(attempt.joins, <<x, join>>) \in Seq(AppRooms \X BOOLEAN)
        /\ Len(Append(attempt.joins, <<x, join>>)) = Len(attempt.joins) + 1
    BY <2>1, AppendProperties
  <2>3. Len(attempt.joins) \in Nat
    BY <2>1
  <2> DEFINE joined == Append(attempt.joins, <<x, join>>)
  <2>4. attempt' = [attempt EXCEPT !.joins = joined] /\ Len(attempt.joins) < MaxMemberships
    BY DEF HookMembership
  <2> HIDE DEF joined
  <2>5. joined \in Seq(AppRooms \X BOOLEAN) /\ Len(joined) <= MaxMemberships
    BY <2>2, <2>3, <2>4 DEF joined
  <2> QED
    BY <2>4, <2>5 DEF TypeOK, HookMembership, ConnTypes, sockVars
<1> QED
  BY <1>1, <1>2 DEF TypeOK

LEMMA HookDisconnectTypes == ASSUME TypeOK, HookDisconnect PROVE TypeOK'
<1>1. StoreTypes' /\ BridgeTypes' /\ TaskTypes' /\ HistTypes'
  BY DEF TypeOK, HookDisconnect, storeVars, bridgeVars, taskVars, connVars, sockVars,
         histVars, StoreTypes, BridgeTypes, TaskTypes, HistTypes
<1>2. FlagTypes'
  BY DEF TypeOK, HookDisconnect, storeVars, bridgeVars, taskVars, connVars, sockVars,
         histVars, FlagTypes
<1>3. ConnTypes'
  BY DEF TypeOK, HookDisconnect, storeVars, bridgeVars, taskVars, connVars, sockVars,
         histVars, ConnTypes
<1> QED
  BY <1>1, <1>2, <1>3 DEF TypeOK

LEMMA StrayLandsTypes == ASSUME TypeOK, StrayLands PROVE TypeOK'
<1>1. FlagTypes' /\ ConnTypes' /\ BridgeTypes' /\ TaskTypes'
  BY DEF TypeOK, StrayLands, storeVars, bridgeVars, taskVars, connVars, sockVars, histVars,
         FlagTypes, ConnTypes, BridgeTypes, TaskTypes
<1>2. StoreTypes'
  BY DEF TypeOK, StrayLands, Landed, storeVars, bridgeVars, taskVars, connVars, sockVars,
         histVars, StoreTypes
<1>3. HistTypes'
  BY DEF TypeOK, StrayLands, LateWrite, Causes, storeVars, bridgeVars, taskVars, connVars,
         sockVars, histVars, HistTypes
<1> QED
  BY <1>1, <1>2, <1>3 DEF TypeOK

LEMMA ClientClosesTypes == ASSUME TypeOK, ClientCloses PROVE TypeOK'
<1>1. StoreTypes' /\ BridgeTypes' /\ TaskTypes' /\ HistTypes'
  BY DEF TypeOK, ClientCloses, DropSocket, storeVars, bridgeVars, taskVars, connVars,
         sockVars, histVars, StoreTypes, BridgeTypes, TaskTypes, HistTypes
<1>2. FlagTypes'
  BY DEF TypeOK, ClientCloses, DropSocket, storeVars, bridgeVars, taskVars, connVars,
         sockVars, histVars, FlagTypes
<1>3. ConnTypes'
  BY DEF TypeOK, ClientCloses, DropSocket, storeVars, bridgeVars, taskVars, connVars,
         sockVars, histVars, ConnTypes
<1> QED
  BY <1>1, <1>2, <1>3 DEF TypeOK

LEMMA ByeLostTypes == ASSUME TypeOK, ByeLost PROVE TypeOK'
<1>1. ConnTypes' /\ StoreTypes' /\ BridgeTypes' /\ TaskTypes'
  BY DEF TypeOK, ByeLost, storeVars, bridgeVars, taskVars, connVars, sockVars, histVars,
         ConnTypes, StoreTypes, BridgeTypes, TaskTypes
<1>2. FlagTypes'
  BY DEF TypeOK, ByeLost, storeVars, bridgeVars, taskVars, connVars, sockVars, histVars,
         FlagTypes
<1>3. HistTypes'
  BY DEF TypeOK, ByeLost, Fault, Causes, FaultKinds, storeVars, bridgeVars, taskVars,
         connVars, sockVars, histVars, HistTypes
<1> QED
  BY <1>1, <1>2, <1>3 DEF TypeOK

LEMMA SlowConnectTypes == ASSUME TypeOK, SlowConnect PROVE TypeOK'
<1>1. FlagTypes' /\ StoreTypes' /\ BridgeTypes' /\ TaskTypes'
  BY DEF TypeOK, SlowConnect, storeVars, bridgeVars, taskVars, connVars, sockVars, histVars,
         FlagTypes, StoreTypes, BridgeTypes, TaskTypes
<1>2. ConnTypes'
  BY DEF TypeOK, SlowConnect, storeVars, bridgeVars, taskVars, connVars, sockVars, histVars,
         ConnTypes
<1>3. HistTypes'
  BY DEF TypeOK, SlowConnect, Fault, Causes, FaultKinds, storeVars, bridgeVars, taskVars,
         connVars, sockVars, histVars, HistTypes
<1> QED
  BY <1>1, <1>2, <1>3 DEF TypeOK

LEMMA CrashTypes == ASSUME TypeOK, NEW i \in Instances, Crash(i) PROVE TypeOK'
<1>1. FlagTypes'
  BY DEF TypeOK, Crash, storeVars, bridgeVars, taskVars, connVars, sockVars, histVars,
         FlagTypes
<1>2. ConnTypes'
  BY DEF TypeOK, Crash, Answer, storeVars, bridgeVars, taskVars, connVars, sockVars,
         histVars, ConnTypes
<1>3. StoreTypes'
  <2>1. \A k \in Tasks : todo[k] \in SUBSET (Put(Rows) \cup Del(Rows))
    BY DEF TypeOK, TaskTypes
  <2>2. UNION {todo[k] : k \in On(i)} \in SUBSET (Put(Rows) \cup Del(Rows))
    BY <2>1 DEF On
  <2> QED
    BY <2>2 DEF TypeOK, Crash, StoreTypes
<1>4. BridgeTypes'
  BY DEF TypeOK, Crash, storeVars, bridgeVars, taskVars, connVars, sockVars, histVars,
         BridgeTypes
<1>5. TaskTypes'
  BY DEF TypeOK, Crash, TaskPcs, storeVars, bridgeVars, taskVars, connVars, sockVars,
         histVars, TaskTypes, BridgeTypes
<1>6. HistTypes'
  BY DEF TypeOK, Crash, Fault, Causes, FaultKinds, storeVars, bridgeVars, taskVars,
         connVars, sockVars, histVars, HistTypes
<1> QED
  BY <1>1, <1>2, <1>3, <1>4, <1>5, <1>6 DEF TypeOK

-----------------------------------------------------------------------------
(* Steps that leave every container's client alone                         *)

\* A task goes on with what it does, or ends.
Onward(a, b) ==
    /\ b # "handler"
    /\ \/ b = "idle"
       \/ \E C \in {ConnectPcs, FramePcs, CleanupPcs} : a \in C /\ b \in C

SocketGoesOn ==
    \/ socket' = socket
    \/ socket = "connecting" /\ socket' = "refused"
    \/ socket = "open" /\ socket' = "closed"

NothingPut ==
    /\ rows' = {} /\ \A op \in stray' : op[1] = "del"
    /\ \A q \in Tasks : \A op \in todo'[q] : op[1] = "del"

Mild ==
    /\ UNCHANGED <<cached, owner, announced, streams, inst, ref, hooks, forgets, crossed>>
    /\ \A q \in Tasks : pc'[q] = pc[q] \/ Onward(pc[q], pc'[q])
    /\ \A q \in Tasks : pc'[q] = "apply" => pc[q] = "apply" \/ applied' # 0
    /\ SocketGoesOn
    /\ applied # 0 => applied' # 0
    /\ applied' <= Len(Plan)' + 1
    /\ applied' = 0 /\ Unwritten => NothingPut

\* Going on takes nobody into a phase of the connection they were not in.
LEMMA OnwardIs ==
    ASSUME NEW a, NEW b, a = b \/ Onward(a, b)
    PROVE  /\ b \in ConnectPcs => a \in ConnectPcs
           /\ b \in FramePcs => a \in FramePcs
           /\ b \in CleanupPcs => a \in CleanupPcs
           /\ b = "handler" => a = "handler"
<1> QED
  BY DEF Onward, ConnectPcs, FramePcs, CleanupPcs

\* Such a step disturbs nothing.
LEMMA MildKeeps == IInv /\ Mild /\ TypeOK' => IInv'
<1> SUFFICES ASSUME IInv, Mild, TypeOK' PROVE IInv'
  OBVIOUS
<1>1. UNCHANGED <<cached, owner, announced, streams, inst, ref, hooks, forgets, crossed>>
  BY DEF Mild
<1>2. ASSUME NEW q \in Tasks
      PROVE  /\ pc'[q] \in ConnectPcs => pc[q] \in ConnectPcs
             /\ pc'[q] \in FramePcs => pc[q] \in FramePcs
             /\ pc'[q] \in CleanupPcs => pc[q] \in CleanupPcs
             /\ pc'[q] = "handler" => pc[q] = "handler"
  <2>1. pc'[q] = pc[q] \/ Onward(pc[q], pc'[q])
    BY DEF Mild
  <2> QED
    BY <2>1, OnwardIs
<1>3. ConnectOK'
  <2>1. \A q \in Tasks : Connecting(q)' => Connecting(q)
    BY <1>2 DEF Connecting
  <2>2. ASSUME NEW k \in Tasks, Connecting(k)'
        PROVE  /\ socket' \in {"connecting", "refused"}
               /\ hooks' => ref'[k] # 0 /\ owner'[ref'[k]] = inst'[k]
               /\ pc'[k] = "apply" => applied' # 0
    <3>1. Connecting(k) /\ socket \in {"connecting", "refused"}
          /\ (pc[k] = "apply" => applied # 0) /\ (hooks => ref[k] # 0 /\ owner[ref[k]] = inst[k])
      BY <2>1, <2>2 DEF IInv, ConnectOK
    <3> QED
      BY <1>1, <3>1 DEF Mild, SocketGoesOn
  <2>3. Before' => Before
    BY <2>1 DEF Before, Mild, SocketGoesOn
  <2>4. applied' <= Len(Plan)' + 1
    BY DEF Mild
  <2>5. Before => (\A q \in Tasks : pc[q] \notin FramePcs) /\ (\A i \in Instances : cached[i] = 0)
                  /\ announced = {}
    BY DEF IInv, ConnectOK
  <2>6. \A k, q \in Tasks : Connecting(k)' /\ Connecting(q)' => k = q
    BY <2>1 DEF IInv, ConnectOK
  <2> QED
    BY <1>1, <1>2, <2>2, <2>3, <2>4, <2>5, <2>6 DEF ConnectOK
<1>4. VerdictOK'
  <2> SUFFICES ASSUME applied' = 0 PROVE Unwritten'
    BY DEF VerdictOK
  <2>1. Unwritten
    BY DEF IInv, VerdictOK, Mild
  <2> QED
    BY <1>2, <2>1 DEF Mild, NothingPut, Unwritten, SocketGoesOn
<1>5. CacheOK'
  BY <1>1 DEF IInv, CacheOK
<1>6. FormerOK'
  BY <1>1 DEF IInv, FormerOK, Former
<1>7. StreamsOK'
  BY <1>1, <1>2 DEF IInv, StreamsOK
<1> QED
  BY <1>3, <1>4, <1>5, <1>6, <1>7 DEF IInv

\* One lemma per action of this kind: it is one of these steps.
LEMMA HooksRefuseIsMild == ASSUME IInv, NEW k \in Tasks, HooksRefuse(k) PROVE Mild
<1>1. UNCHANGED <<cached, owner, announced, streams, inst, ref, hooks, forgets, crossed>>
  BY DEF HooksRefuse, storeVars, bridgeVars, taskVars, connVars, sockVars, histVars
<1>2. pc \in [Tasks -> TaskPcs]
  BY DEF IInv, TypeOK, TaskTypes
<1>3. \A q \in Tasks : (pc'[q] = pc[q] \/ Onward(pc[q], pc'[q]))
                       /\ (pc'[q] = "apply" => pc[q] = "apply" \/ applied' # 0)
  BY <1>2 DEF HooksRefuse, Goto, Answer, Onward, ConnectPcs, FramePcs, CleanupPcs
<1>4. SocketGoesOn
  BY DEF HooksRefuse, Goto, Answer, SocketGoesOn, storeVars, bridgeVars, taskVars, connVars,
         sockVars, histVars
<1>5. (applied # 0 => applied' # 0) /\ applied' <= Len(Plan)' + 1
  BY DEF HooksRefuse, IInv, TypeOK, ConnTypes, ConnectOK, Plan, storeVars, bridgeVars,
         taskVars, connVars, sockVars, histVars
<1>6. applied' = 0 /\ Unwritten => NothingPut
  BY DEF HooksRefuse, Unwritten, NothingPut, TypeOK, TaskTypes, storeVars, bridgeVars,
         taskVars, connVars, sockVars, histVars
<1> QED
  BY <1>1, <1>3, <1>4, <1>5, <1>6 DEF Mild

LEMMA HooksAcceptIsMild == ASSUME IInv, NEW k \in Tasks, HooksAccept(k) PROVE Mild
<1>1. UNCHANGED <<cached, owner, announced, streams, inst, ref, hooks, forgets, crossed>>
  BY DEF HooksAccept, storeVars, bridgeVars, taskVars, connVars, sockVars, histVars
<1>2. pc \in [Tasks -> TaskPcs]
  BY DEF IInv, TypeOK, TaskTypes
<1>3. \A q \in Tasks : (pc'[q] = pc[q] \/ Onward(pc[q], pc'[q]))
                       /\ (pc'[q] = "apply" => pc[q] = "apply" \/ applied' # 0)
  BY <1>2 DEF HooksAccept, Goto, Onward, ConnectPcs, FramePcs, CleanupPcs
<1>4. SocketGoesOn
  BY DEF HooksAccept, Goto, SocketGoesOn, storeVars, bridgeVars, taskVars, connVars,
         sockVars, histVars
<1>5. (applied # 0 => applied' # 0) /\ applied' <= Len(Plan)' + 1
  BY DEF HooksAccept, IInv, TypeOK, ConnTypes, ConnectOK, Plan, storeVars, bridgeVars,
         taskVars, connVars, sockVars, histVars
<1>6. applied' = 0 /\ Unwritten => NothingPut
  BY DEF HooksAccept, Unwritten, NothingPut, TypeOK, TaskTypes, storeVars, bridgeVars,
         taskVars, connVars, sockVars, histVars
<1> QED
  BY <1>1, <1>3, <1>4, <1>5, <1>6 DEF Mild

LEMMA AddMetaIsMild == ASSUME IInv, NEW k \in Tasks, AddMeta(k) PROVE Mild
<1>1. UNCHANGED <<cached, owner, announced, streams, inst, ref, hooks, forgets, crossed>>
  BY DEF AddMeta, storeVars, bridgeVars, taskVars, connVars, sockVars, histVars
<1>2. pc \in [Tasks -> TaskPcs]
  BY DEF IInv, TypeOK, TaskTypes
<1>3. \A q \in Tasks : (pc'[q] = pc[q] \/ Onward(pc[q], pc'[q]))
                       /\ (pc'[q] = "apply" => pc[q] = "apply" \/ applied' # 0)
  BY <1>2 DEF AddMeta, Goto, Onward, ConnectPcs, FramePcs, CleanupPcs
<1>4. SocketGoesOn
  BY DEF AddMeta, Goto, SocketGoesOn, storeVars, bridgeVars, taskVars, connVars, sockVars,
         histVars
<1>5. (applied # 0 => applied' # 0) /\ applied' <= Len(Plan)' + 1
  BY DEF AddMeta, IInv, TypeOK, ConnTypes, ConnectOK, Plan, storeVars, bridgeVars, taskVars,
         connVars, sockVars, histVars
<1>6. applied' = 0 /\ Unwritten => NothingPut
  BY DEF AddMeta, Unwritten, NothingPut, TypeOK, TaskTypes, storeVars, bridgeVars, taskVars,
         connVars, sockVars, histVars
<1> QED
  BY <1>1, <1>3, <1>4, <1>5, <1>6 DEF Mild

LEMMA ApplyMembershipIsMild ==
    ASSUME IInv, NEW k \in Tasks, ApplyMembership(k)
    PROVE  Mild
<1>1. UNCHANGED <<cached, owner, announced, streams, inst, ref, hooks, forgets, crossed>>
  BY DEF ApplyMembership, storeVars, bridgeVars, taskVars, connVars, sockVars, histVars
<1>2. UNCHANGED pc
  BY DEF ApplyMembership, storeVars, bridgeVars, taskVars, connVars, sockVars, histVars
<1>3. \A q \in Tasks : (pc'[q] = pc[q] \/ Onward(pc[q], pc'[q]))
                       /\ (pc'[q] = "apply" => pc[q] = "apply" \/ applied' # 0)
  BY <1>2
<1>4. SocketGoesOn
  BY DEF ApplyMembership, SocketGoesOn, storeVars, bridgeVars, taskVars, connVars, sockVars,
         histVars
<1>5. (applied # 0 => applied' # 0) /\ applied' <= Len(Plan)' + 1
  BY DEF ApplyMembership, IInv, TypeOK, ConnTypes, ConnectOK, Plan, storeVars, bridgeVars,
         taskVars, connVars, sockVars, histVars
<1>6. applied' = 0 /\ Unwritten => NothingPut
  BY DEF ApplyMembership, IInv, TypeOK, ConnTypes
<1> QED
  BY <1>1, <1>3, <1>4, <1>5, <1>6 DEF Mild

LEMMA UndoIsMild == ASSUME IInv, NEW k \in Tasks, Undo(k) PROVE Mild
<1>1. UNCHANGED <<cached, owner, announced, streams, inst, ref, hooks, forgets, crossed>>
  BY DEF Undo, QueryRows, storeVars, bridgeVars, taskVars, connVars, sockVars, histVars
<1>2. pc \in [Tasks -> TaskPcs]
  BY DEF IInv, TypeOK, TaskTypes
<1>3. \A q \in Tasks : (pc'[q] = pc[q] \/ Onward(pc[q], pc'[q]))
                       /\ (pc'[q] = "apply" => pc[q] = "apply" \/ applied' # 0)
  BY <1>2 DEF Undo, Goto, QueryRows, Onward, ConnectPcs, FramePcs, CleanupPcs
<1>4. SocketGoesOn
  BY DEF Undo, Goto, QueryRows, SocketGoesOn, storeVars, bridgeVars, taskVars, connVars,
         sockVars, histVars
<1>5. (applied # 0 => applied' # 0) /\ applied' <= Len(Plan)' + 1
  BY DEF Undo, QueryRows, IInv, TypeOK, ConnTypes, ConnectOK, Plan, storeVars, bridgeVars,
         taskVars, connVars, sockVars, histVars
<1>6. applied' = 0 /\ Unwritten => NothingPut
  <2>1. PICK ops \in SUBSET Del(Rows) : todo' = [todo EXCEPT ![k] = ops]
    BY QueryIs DEF Undo, IInv
  <2>2. /\ \A op \in todo'[k] : op[1] = "del"
        /\ \A q \in Tasks \ {k} : todo'[q] = todo[q]
    BY <2>1, DeletionsPutNothing DEF IInv, TypeOK, TaskTypes
  <2> QED
    BY <2>2 DEF Undo, QueryRows, Unwritten, NothingPut
<1> QED
  BY <1>1, <1>3, <1>4, <1>5, <1>6 DEF Mild

LEMMA UndoneIsMild == ASSUME IInv, NEW k \in Tasks, Undone(k) PROVE Mild
<1>1. UNCHANGED <<cached, owner, announced, streams, inst, ref, hooks, forgets, crossed>>
  BY DEF Undone, storeVars, bridgeVars, taskVars, connVars, sockVars, histVars
<1>2. pc \in [Tasks -> TaskPcs]
  BY DEF IInv, TypeOK, TaskTypes
<1>3. \A q \in Tasks : (pc'[q] = pc[q] \/ Onward(pc[q], pc'[q]))
                       /\ (pc'[q] = "apply" => pc[q] = "apply" \/ applied' # 0)
  BY <1>2 DEF Undone, Goto, Answer, Onward, ConnectPcs, FramePcs, CleanupPcs
<1>4. SocketGoesOn
  BY DEF Undone, Goto, Answer, SocketGoesOn, storeVars, bridgeVars, taskVars, connVars,
         sockVars, histVars
<1>5. (applied # 0 => applied' # 0) /\ applied' <= Len(Plan)' + 1
  BY DEF Undone, IInv, TypeOK, ConnTypes, ConnectOK, Plan, storeVars, bridgeVars, taskVars,
         connVars, sockVars, histVars
<1>6. applied' = 0 /\ Unwritten => NothingPut
  BY DEF Undone, Unwritten, NothingPut, TypeOK, TaskTypes, storeVars, bridgeVars, taskVars,
         connVars, sockVars, histVars
<1> QED
  BY <1>1, <1>3, <1>4, <1>5, <1>6 DEF Mild

LEMMA RowDoneIsMild == ASSUME IInv, NEW k \in Tasks, RowDone(k) PROVE Mild
<1>1. UNCHANGED <<cached, owner, announced, streams, inst, ref, hooks, forgets, crossed>>
  BY DEF RowDone, storeVars, bridgeVars, taskVars, connVars, sockVars, histVars
<1>2. UNCHANGED pc
  BY DEF RowDone, storeVars, bridgeVars, taskVars, connVars, sockVars, histVars
<1>3. \A q \in Tasks : (pc'[q] = pc[q] \/ Onward(pc[q], pc'[q]))
                       /\ (pc'[q] = "apply" => pc[q] = "apply" \/ applied' # 0)
  BY <1>2
<1>4. SocketGoesOn
  BY DEF RowDone, SocketGoesOn, storeVars, bridgeVars, taskVars, connVars, sockVars,
         histVars
<1>5. (applied # 0 => applied' # 0) /\ applied' <= Len(Plan)' + 1
  BY DEF RowDone, IInv, TypeOK, ConnTypes, ConnectOK, Plan, storeVars, bridgeVars, taskVars,
         connVars, sockVars, histVars
<1>6. applied' = 0 /\ Unwritten => NothingPut
  <2> SUFFICES ASSUME Unwritten PROVE NothingPut
    OBVIOUS
  <2>1. PICK op \in todo[k] : rows' = Landed({op}) /\ todo' = [todo EXCEPT ![k] = @ \ {op}]
    BY DEF RowDone
  <2>2. op[1] = "del" /\ rows = {} /\ stray' = stray
    BY DEF RowDone, Unwritten
  <2>3. rows' = {} /\ \A q \in Tasks : todo'[q] \subseteq todo[q]
    BY <2>1, <2>2, DeletionsPutNothing DEF IInv, TypeOK, TaskTypes
  <2> QED
    BY <2>2, <2>3 DEF Unwritten, NothingPut
<1> QED
  BY <1>1, <1>3, <1>4, <1>5, <1>6 DEF Mild

LEMMA RowFailsIsMild == ASSUME IInv, NEW k \in Tasks, RowFails(k) PROVE Mild
<1>1. UNCHANGED <<cached, owner, announced, streams, inst, ref, hooks, forgets, crossed>>
  BY DEF RowFails, Fault, storeVars, bridgeVars, taskVars, connVars, sockVars, histVars
<1>2. pc \in [Tasks -> TaskPcs]
  BY DEF IInv, TypeOK, TaskTypes
<1>3. \A q \in Tasks : (pc'[q] = pc[q] \/ Onward(pc[q], pc'[q]))
                       /\ (pc'[q] = "apply" => pc[q] = "apply" \/ applied' # 0)
  BY <1>2 DEF RowFails, Goto, Answer, Onward, ConnectPcs, FramePcs, CleanupPcs
<1>4. SocketGoesOn
  BY DEF RowFails, Goto, Answer, SocketGoesOn, storeVars, bridgeVars, taskVars, connVars,
         sockVars, histVars
<1>5. (applied # 0 => applied' # 0) /\ applied' <= Len(Plan)' + 1
  BY DEF RowFails, Fault, IInv, TypeOK, ConnTypes, ConnectOK, Plan, storeVars, bridgeVars,
         taskVars, connVars, sockVars, histVars
<1>6. applied' = 0 /\ Unwritten => NothingPut
  BY DEF RowFails, Fault, Unwritten, NothingPut, TypeOK, TaskTypes, storeVars, bridgeVars,
         taskVars, connVars, sockVars, histVars
<1> QED
  BY <1>1, <1>3, <1>4, <1>5, <1>6 DEF Mild

LEMMA ReadMetaIsMild == ASSUME IInv, NEW k \in Tasks, ReadMeta(k) PROVE Mild
<1>1. UNCHANGED <<cached, owner, announced, streams, inst, ref, hooks, forgets, crossed>>
  BY DEF ReadMeta, storeVars, bridgeVars, taskVars, connVars, sockVars, histVars
<1>2. pc \in [Tasks -> TaskPcs]
  BY DEF IInv, TypeOK, TaskTypes
<1>3. \A q \in Tasks : (pc'[q] = pc[q] \/ Onward(pc[q], pc'[q]))
                       /\ (pc'[q] = "apply" => pc[q] = "apply" \/ applied' # 0)
  BY <1>2 DEF ReadMeta, Goto, Onward, ConnectPcs, FramePcs, CleanupPcs
<1>4. SocketGoesOn
  BY DEF ReadMeta, Goto, SocketGoesOn, storeVars, bridgeVars, taskVars, connVars, sockVars,
         histVars
<1>5. (applied # 0 => applied' # 0) /\ applied' <= Len(Plan)' + 1
  BY DEF ReadMeta, IInv, TypeOK, ConnTypes, ConnectOK, Plan, storeVars, bridgeVars,
         taskVars, connVars, sockVars, histVars
<1>6. applied' = 0 /\ Unwritten => NothingPut
  BY DEF ReadMeta, Unwritten, NothingPut, TypeOK, TaskTypes, storeVars, bridgeVars,
         taskVars, connVars, sockVars, histVars
<1> QED
  BY <1>1, <1>3, <1>4, <1>5, <1>6 DEF Mild

LEMMA UnknownIsMild == ASSUME IInv, NEW k \in Tasks, Unknown(k) PROVE Mild
<1>1. UNCHANGED <<cached, owner, announced, streams, inst, ref, hooks, forgets, crossed>>
  BY DEF Unknown, storeVars, bridgeVars, taskVars, connVars, sockVars, histVars
<1>2. pc \in [Tasks -> TaskPcs]
  BY DEF IInv, TypeOK, TaskTypes
<1>3. \A q \in Tasks : (pc'[q] = pc[q] \/ Onward(pc[q], pc'[q]))
                       /\ (pc'[q] = "apply" => pc[q] = "apply" \/ applied' # 0)
  BY <1>2 DEF Unknown, Sharing, Onward, ConnectPcs, FramePcs, CleanupPcs
<1>4. SocketGoesOn
  BY DEF Unknown, Sharing, SocketGoesOn, storeVars, bridgeVars, taskVars, connVars,
         sockVars, histVars
<1>5. (applied # 0 => applied' # 0) /\ applied' <= Len(Plan)' + 1
  BY DEF Unknown, IInv, TypeOK, ConnTypes, ConnectOK, Plan, storeVars, bridgeVars, taskVars,
         connVars, sockVars, histVars
<1>6. applied' = 0 /\ Unwritten => NothingPut
  BY DEF Unknown, Unwritten, NothingPut, TypeOK, TaskTypes, storeVars, bridgeVars, taskVars,
         connVars, sockVars, histVars
<1> QED
  BY <1>1, <1>3, <1>4, <1>5, <1>6 DEF Mild

LEMMA RefuseIsMild == ASSUME IInv, NEW k \in Tasks, Refuse(k) PROVE Mild
<1>1. UNCHANGED <<cached, owner, announced, streams, inst, ref, hooks, forgets, crossed>>
  BY DEF Refuse, DropSocket, storeVars, bridgeVars, taskVars, connVars, sockVars, histVars
<1>2. pc \in [Tasks -> TaskPcs]
  BY DEF IInv, TypeOK, TaskTypes
<1>3. \A q \in Tasks : (pc'[q] = pc[q] \/ Onward(pc[q], pc'[q]))
                       /\ (pc'[q] = "apply" => pc[q] = "apply" \/ applied' # 0)
  BY <1>2 DEF Refuse, Goto, DropSocket, Onward, ConnectPcs, FramePcs, CleanupPcs
<1>4. SocketGoesOn
  BY DEF Refuse, Goto, DropSocket, SocketGoesOn, storeVars, bridgeVars, taskVars, connVars,
         sockVars, histVars
<1>5. (applied # 0 => applied' # 0) /\ applied' <= Len(Plan)' + 1
  BY DEF Refuse, DropSocket, IInv, TypeOK, ConnTypes, ConnectOK, Plan, storeVars,
         bridgeVars, taskVars, connVars, sockVars, histVars
<1>6. applied' = 0 /\ Unwritten => NothingPut
  BY DEF Refuse, DropSocket, Unwritten, NothingPut, TypeOK, TaskTypes, storeVars,
         bridgeVars, taskVars, connVars, sockVars, histVars
<1> QED
  BY <1>1, <1>3, <1>4, <1>5, <1>6 DEF Mild

LEMMA HandlerEndsIsMild == ASSUME IInv, NEW k \in Tasks, HandlerEnds(k) PROVE Mild
<1>1. UNCHANGED <<cached, owner, announced, streams, inst, ref, hooks, forgets, crossed>>
  BY DEF HandlerEnds, storeVars, bridgeVars, taskVars, connVars, sockVars, histVars
<1>2. pc \in [Tasks -> TaskPcs]
  BY DEF IInv, TypeOK, TaskTypes
<1>3. \A q \in Tasks : (pc'[q] = pc[q] \/ Onward(pc[q], pc'[q]))
                       /\ (pc'[q] = "apply" => pc[q] = "apply" \/ applied' # 0)
  BY <1>2 DEF HandlerEnds, Goto, Onward, ConnectPcs, FramePcs, CleanupPcs
<1>4. SocketGoesOn
  BY DEF HandlerEnds, Goto, SocketGoesOn, storeVars, bridgeVars, taskVars, connVars,
         sockVars, histVars
<1>5. (applied # 0 => applied' # 0) /\ applied' <= Len(Plan)' + 1
  BY DEF HandlerEnds, IInv, TypeOK, ConnTypes, ConnectOK, Plan, storeVars, bridgeVars,
         taskVars, connVars, sockVars, histVars
<1>6. applied' = 0 /\ Unwritten => NothingPut
  BY DEF HandlerEnds, Unwritten, NothingPut, TypeOK, TaskTypes, storeVars, bridgeVars,
         taskVars, connVars, sockVars, histVars
<1> QED
  BY <1>1, <1>3, <1>4, <1>5, <1>6 DEF Mild

LEMMA HandlerMembershipIsMild ==
    ASSUME IInv, NEW k \in Tasks, NEW x \in AppRooms, HandlerMembership(k, x)
    PROVE  Mild
<1>1. UNCHANGED <<cached, owner, announced, streams, inst, ref, hooks, forgets, crossed>>
  BY DEF HandlerMembership, storeVars, bridgeVars, taskVars, connVars, sockVars, histVars
<1>2. pc \in [Tasks -> TaskPcs]
  BY DEF IInv, TypeOK, TaskTypes
<1>3. \A q \in Tasks : (pc'[q] = pc[q] \/ Onward(pc[q], pc'[q]))
                       /\ (pc'[q] = "apply" => pc[q] = "apply" \/ applied' # 0)
  BY <1>2 DEF HandlerMembership, Goto, Onward, ConnectPcs, FramePcs, CleanupPcs
<1>4. SocketGoesOn
  BY DEF HandlerMembership, Goto, SocketGoesOn, storeVars, bridgeVars, taskVars, connVars,
         sockVars, histVars
<1>5. (applied # 0 => applied' # 0) /\ applied' <= Len(Plan)' + 1
  BY DEF HandlerMembership, IInv, TypeOK, ConnTypes, ConnectOK, Plan, storeVars, bridgeVars,
         taskVars, connVars, sockVars, histVars
<1>6. applied' = 0 /\ Unwritten => NothingPut
  BY DEF HandlerMembership, Unwritten, FramePcs
<1> QED
  BY <1>1, <1>3, <1>4, <1>5, <1>6 DEF Mild

LEMMA LookUpIsMild == ASSUME IInv, NEW k \in Tasks, LookUp(k) PROVE Mild
<1>1. UNCHANGED <<cached, owner, announced, streams, inst, ref, hooks, forgets, crossed>>
  BY DEF LookUp, storeVars, bridgeVars, taskVars, connVars, sockVars, histVars
<1>2. pc \in [Tasks -> TaskPcs]
  BY DEF IInv, TypeOK, TaskTypes
<1>3. \A q \in Tasks : (pc'[q] = pc[q] \/ Onward(pc[q], pc'[q]))
                       /\ (pc'[q] = "apply" => pc[q] = "apply" \/ applied' # 0)
  BY <1>2 DEF LookUp, Goto, Onward, ConnectPcs, FramePcs, CleanupPcs
<1>4. SocketGoesOn
  BY DEF LookUp, Goto, SocketGoesOn, storeVars, bridgeVars, taskVars, connVars, sockVars,
         histVars
<1>5. (applied # 0 => applied' # 0) /\ applied' <= Len(Plan)' + 1
  BY DEF LookUp, IInv, TypeOK, ConnTypes, ConnectOK, Plan, storeVars, bridgeVars, taskVars,
         connVars, sockVars, histVars
<1>6. applied' = 0 /\ Unwritten => NothingPut
  BY DEF LookUp, Unwritten, NothingPut, TypeOK, TaskTypes, storeVars, bridgeVars, taskVars,
         connVars, sockVars, histVars
<1> QED
  BY <1>1, <1>3, <1>4, <1>5, <1>6 DEF Mild

LEMMA FarewellIsMild == ASSUME IInv, NEW k \in Tasks, Farewell(k) PROVE Mild
<1>1. UNCHANGED <<cached, owner, announced, streams, inst, ref, hooks, forgets, crossed>>
  BY DEF Farewell, storeVars, bridgeVars, taskVars, connVars, sockVars, histVars
<1>2. pc \in [Tasks -> TaskPcs]
  BY DEF IInv, TypeOK, TaskTypes
<1>3. \A q \in Tasks : (pc'[q] = pc[q] \/ Onward(pc[q], pc'[q]))
                       /\ (pc'[q] = "apply" => pc[q] = "apply" \/ applied' # 0)
  BY <1>2 DEF Farewell, Goto, Onward, ConnectPcs, FramePcs, CleanupPcs
<1>4. SocketGoesOn
  BY DEF Farewell, Goto, SocketGoesOn, storeVars, bridgeVars, taskVars, connVars, sockVars,
         histVars
<1>5. (applied # 0 => applied' # 0) /\ applied' <= Len(Plan)' + 1
  BY DEF Farewell, IInv, TypeOK, ConnTypes, ConnectOK, Plan, storeVars, bridgeVars,
         taskVars, connVars, sockVars, histVars
<1>6. applied' = 0 /\ Unwritten => NothingPut
  BY DEF Farewell, Unwritten, NothingPut, TypeOK, TaskTypes, storeVars, bridgeVars,
         taskVars, connVars, sockVars, histVars
<1> QED
  BY <1>1, <1>3, <1>4, <1>5, <1>6 DEF Mild

LEMMA QueryIsMild == ASSUME IInv, NEW k \in Tasks, Query(k) PROVE Mild
<1>1. UNCHANGED <<cached, owner, announced, streams, inst, ref, hooks, forgets, crossed>>
  BY DEF Query, QueryRows, storeVars, bridgeVars, taskVars, connVars, sockVars, histVars
<1>2. pc \in [Tasks -> TaskPcs]
  BY DEF IInv, TypeOK, TaskTypes
<1>3. \A q \in Tasks : (pc'[q] = pc[q] \/ Onward(pc[q], pc'[q]))
                       /\ (pc'[q] = "apply" => pc[q] = "apply" \/ applied' # 0)
  BY <1>2 DEF Query, Goto, QueryRows, Onward, ConnectPcs, FramePcs, CleanupPcs
<1>4. SocketGoesOn
  BY DEF Query, Goto, QueryRows, SocketGoesOn, storeVars, bridgeVars, taskVars, connVars,
         sockVars, histVars
<1>5. (applied # 0 => applied' # 0) /\ applied' <= Len(Plan)' + 1
  BY DEF Query, QueryRows, IInv, TypeOK, ConnTypes, ConnectOK, Plan, storeVars, bridgeVars,
         taskVars, connVars, sockVars, histVars
<1>6. applied' = 0 /\ Unwritten => NothingPut
  <2>1. PICK ops \in SUBSET Del(Rows) : todo' = [todo EXCEPT ![k] = ops]
    BY QueryIs DEF Query, IInv
  <2>2. /\ \A op \in todo'[k] : op[1] = "del"
        /\ \A q \in Tasks \ {k} : todo'[q] = todo[q]
    BY <2>1, DeletionsPutNothing DEF IInv, TypeOK, TaskTypes
  <2> QED
    BY <2>2 DEF Query, QueryRows, Unwritten, NothingPut
<1> QED
  BY <1>1, <1>3, <1>4, <1>5, <1>6 DEF Mild

LEMMA CloseIsMild == ASSUME IInv, NEW k \in Tasks, Close(k) PROVE Mild
<1>1. UNCHANGED <<cached, owner, announced, streams, inst, ref, hooks, forgets, crossed>>
  BY DEF Close, DropSocket, storeVars, bridgeVars, taskVars, connVars, sockVars, histVars
<1>2. pc \in [Tasks -> TaskPcs]
  BY DEF IInv, TypeOK, TaskTypes
<1>3. \A q \in Tasks : (pc'[q] = pc[q] \/ Onward(pc[q], pc'[q]))
                       /\ (pc'[q] = "apply" => pc[q] = "apply" \/ applied' # 0)
  BY <1>2 DEF Close, Goto, DropSocket, Onward, ConnectPcs, FramePcs, CleanupPcs
<1>4. SocketGoesOn
  BY DEF Close, Goto, DropSocket, SocketGoesOn, storeVars, bridgeVars, taskVars, connVars,
         sockVars, histVars
<1>5. (applied # 0 => applied' # 0) /\ applied' <= Len(Plan)' + 1
  BY DEF Close, DropSocket, IInv, TypeOK, ConnTypes, ConnectOK, Plan, storeVars, bridgeVars,
         taskVars, connVars, sockVars, histVars
<1>6. applied' = 0 /\ Unwritten => NothingPut
  BY DEF Close, DropSocket, Unwritten, NothingPut, TypeOK, TaskTypes, storeVars, bridgeVars,
         taskVars, connVars, sockVars, histVars
<1> QED
  BY <1>1, <1>3, <1>4, <1>5, <1>6 DEF Mild

LEMMA ReadFailsIsMild == ASSUME IInv, NEW k \in Tasks, ReadFails(k) PROVE Mild
<1>1. UNCHANGED <<cached, owner, announced, streams, inst, ref, hooks, forgets, crossed>>
  BY DEF ReadFails, storeVars, bridgeVars, taskVars, connVars, sockVars, histVars
<1>2. pc \in [Tasks -> TaskPcs]
  BY DEF IInv, TypeOK, TaskTypes
<1>3. \A q \in Tasks : (pc'[q] = pc[q] \/ Onward(pc[q], pc'[q]))
                       /\ (pc'[q] = "apply" => pc[q] = "apply" \/ applied' # 0)
  BY <1>2 DEF ReadFails, Sharing, Onward, ConnectPcs, FramePcs, CleanupPcs
<1>4. SocketGoesOn
  BY DEF ReadFails, Sharing, SocketGoesOn, storeVars, bridgeVars, taskVars, connVars,
         sockVars, histVars
<1>5. (applied # 0 => applied' # 0) /\ applied' <= Len(Plan)' + 1
  BY DEF ReadFails, IInv, TypeOK, ConnTypes, ConnectOK, Plan, storeVars, bridgeVars,
         taskVars, connVars, sockVars, histVars
<1>6. applied' = 0 /\ Unwritten => NothingPut
  BY DEF ReadFails, Unwritten, NothingPut, TypeOK, TaskTypes, storeVars, bridgeVars,
         taskVars, connVars, sockVars, histVars
<1> QED
  BY <1>1, <1>3, <1>4, <1>5, <1>6 DEF Mild

LEMMA HookMembershipIsMild ==
    ASSUME IInv, NEW x \in AppRooms, NEW join \in BOOLEAN, HookMembership(x, join)
    PROVE  Mild
<1>1. UNCHANGED <<cached, owner, announced, streams, inst, ref, hooks, forgets, crossed>>
  BY DEF HookMembership, storeVars, bridgeVars, taskVars, connVars, sockVars, histVars
<1>2. UNCHANGED pc
  BY DEF HookMembership, storeVars, bridgeVars, taskVars, connVars, sockVars, histVars
<1>3. \A q \in Tasks : (pc'[q] = pc[q] \/ Onward(pc[q], pc'[q]))
                       /\ (pc'[q] = "apply" => pc[q] = "apply" \/ applied' # 0)
  BY <1>2
<1>4. SocketGoesOn
  BY DEF HookMembership, SocketGoesOn, storeVars, bridgeVars, taskVars, connVars, sockVars,
         histVars
<1>5. (applied # 0 => applied' # 0) /\ applied' <= Len(Plan)' + 1
  BY DEF HookMembership, IInv, TypeOK, ConnTypes, ConnectOK, Plan, storeVars, bridgeVars,
         taskVars, connVars, sockVars, histVars
<1>6. applied' = 0 /\ Unwritten => NothingPut
  BY DEF HookMembership, Unwritten, NothingPut, TypeOK, TaskTypes, storeVars, bridgeVars,
         taskVars, connVars, sockVars, histVars
<1> QED
  BY <1>1, <1>3, <1>4, <1>5, <1>6 DEF Mild

LEMMA HookDisconnectIsMild == ASSUME IInv, HookDisconnect PROVE Mild
<1>1. UNCHANGED <<cached, owner, announced, streams, inst, ref, hooks, forgets, crossed>>
  BY DEF HookDisconnect, storeVars, bridgeVars, taskVars, connVars, sockVars, histVars
<1>2. UNCHANGED pc
  BY DEF HookDisconnect, storeVars, bridgeVars, taskVars, connVars, sockVars, histVars
<1>3. \A q \in Tasks : (pc'[q] = pc[q] \/ Onward(pc[q], pc'[q]))
                       /\ (pc'[q] = "apply" => pc[q] = "apply" \/ applied' # 0)
  BY <1>2
<1>4. SocketGoesOn
  BY DEF HookDisconnect, SocketGoesOn, storeVars, bridgeVars, taskVars, connVars, sockVars,
         histVars
<1>5. (applied # 0 => applied' # 0) /\ applied' <= Len(Plan)' + 1
  BY DEF HookDisconnect, IInv, TypeOK, ConnTypes, ConnectOK, Plan, storeVars, bridgeVars,
         taskVars, connVars, sockVars, histVars
<1>6. applied' = 0 /\ Unwritten => NothingPut
  BY DEF HookDisconnect, Unwritten, NothingPut, TypeOK, TaskTypes, storeVars, bridgeVars,
         taskVars, connVars, sockVars, histVars
<1> QED
  BY <1>1, <1>3, <1>4, <1>5, <1>6 DEF Mild

LEMMA StrayLandsIsMild == ASSUME IInv, StrayLands PROVE Mild
<1>1. UNCHANGED <<cached, owner, announced, streams, inst, ref, hooks, forgets, crossed>>
  BY DEF StrayLands, storeVars, bridgeVars, taskVars, connVars, sockVars, histVars
<1>2. UNCHANGED pc
  BY DEF StrayLands, storeVars, bridgeVars, taskVars, connVars, sockVars, histVars
<1>3. \A q \in Tasks : (pc'[q] = pc[q] \/ Onward(pc[q], pc'[q]))
                       /\ (pc'[q] = "apply" => pc[q] = "apply" \/ applied' # 0)
  BY <1>2
<1>4. SocketGoesOn
  BY DEF StrayLands, SocketGoesOn, storeVars, bridgeVars, taskVars, connVars, sockVars,
         histVars
<1>5. (applied # 0 => applied' # 0) /\ applied' <= Len(Plan)' + 1
  BY DEF StrayLands, IInv, TypeOK, ConnTypes, ConnectOK, Plan, storeVars, bridgeVars,
         taskVars, connVars, sockVars, histVars
<1>6. applied' = 0 /\ Unwritten => NothingPut
  <2> SUFFICES ASSUME Unwritten PROVE NothingPut
    OBVIOUS
  <2>1. PICK op \in stray : rows' \in {Landed({op}), rows} /\ stray' = stray \ {op}
    BY DEF StrayLands
  <2>2. op[1] = "del" /\ rows = {} /\ todo' = todo
    BY DEF StrayLands, Unwritten, taskVars
  <2>3. rows' = {}
    BY <2>1, <2>2, DeletionsPutNothing
  <2> QED
    BY <2>1, <2>2, <2>3 DEF Unwritten, NothingPut
<1> QED
  BY <1>1, <1>3, <1>4, <1>5, <1>6 DEF Mild

LEMMA ClientClosesIsMild == ASSUME IInv, ClientCloses PROVE Mild
<1>1. UNCHANGED <<cached, owner, announced, streams, inst, ref, hooks, forgets, crossed>>
  BY DEF ClientCloses, DropSocket, storeVars, bridgeVars, taskVars, connVars, sockVars,
         histVars
<1>2. UNCHANGED pc
  BY DEF ClientCloses, storeVars, bridgeVars, taskVars, connVars, sockVars, histVars
<1>3. \A q \in Tasks : (pc'[q] = pc[q] \/ Onward(pc[q], pc'[q]))
                       /\ (pc'[q] = "apply" => pc[q] = "apply" \/ applied' # 0)
  BY <1>2
<1>4. SocketGoesOn
  BY DEF ClientCloses, DropSocket, SocketGoesOn, storeVars, bridgeVars, taskVars, connVars,
         sockVars, histVars
<1>5. (applied # 0 => applied' # 0) /\ applied' <= Len(Plan)' + 1
  BY DEF ClientCloses, DropSocket, IInv, TypeOK, ConnTypes, ConnectOK, Plan, storeVars,
         bridgeVars, taskVars, connVars, sockVars, histVars
<1>6. applied' = 0 /\ Unwritten => NothingPut
  BY DEF ClientCloses, DropSocket, Unwritten, NothingPut, TypeOK, TaskTypes, storeVars,
         bridgeVars, taskVars, connVars, sockVars, histVars
<1> QED
  BY <1>1, <1>3, <1>4, <1>5, <1>6 DEF Mild

LEMMA ByeLostIsMild == ASSUME IInv, ByeLost PROVE Mild
<1>1. UNCHANGED <<cached, owner, announced, streams, inst, ref, hooks, forgets, crossed>>
  BY DEF ByeLost, storeVars, bridgeVars, taskVars, connVars, sockVars, histVars
<1>2. UNCHANGED pc
  BY DEF ByeLost, storeVars, bridgeVars, taskVars, connVars, sockVars, histVars
<1>3. \A q \in Tasks : (pc'[q] = pc[q] \/ Onward(pc[q], pc'[q]))
                       /\ (pc'[q] = "apply" => pc[q] = "apply" \/ applied' # 0)
  BY <1>2
<1>4. SocketGoesOn
  BY DEF ByeLost, SocketGoesOn, storeVars, bridgeVars, taskVars, connVars, sockVars,
         histVars
<1>5. (applied # 0 => applied' # 0) /\ applied' <= Len(Plan)' + 1
  BY DEF ByeLost, IInv, TypeOK, ConnTypes, ConnectOK, Plan, storeVars, bridgeVars, taskVars,
         connVars, sockVars, histVars
<1>6. applied' = 0 /\ Unwritten => NothingPut
  BY DEF ByeLost, Unwritten, NothingPut, TypeOK, TaskTypes, storeVars, bridgeVars, taskVars,
         connVars, sockVars, histVars
<1> QED
  BY <1>1, <1>3, <1>4, <1>5, <1>6 DEF Mild

LEMMA SlowConnectIsMild == ASSUME IInv, SlowConnect PROVE Mild
<1>1. UNCHANGED <<cached, owner, announced, streams, inst, ref, hooks, forgets, crossed>>
  BY DEF SlowConnect, storeVars, bridgeVars, taskVars, connVars, sockVars, histVars
<1>2. UNCHANGED pc
  BY DEF SlowConnect, storeVars, bridgeVars, taskVars, connVars, sockVars, histVars
<1>3. \A q \in Tasks : (pc'[q] = pc[q] \/ Onward(pc[q], pc'[q]))
                       /\ (pc'[q] = "apply" => pc[q] = "apply" \/ applied' # 0)
  BY <1>2
<1>4. SocketGoesOn
  BY DEF SlowConnect, SocketGoesOn, storeVars, bridgeVars, taskVars, connVars, sockVars,
         histVars
<1>5. (applied # 0 => applied' # 0) /\ applied' <= Len(Plan)' + 1
  BY DEF SlowConnect, IInv, TypeOK, ConnTypes, ConnectOK, Plan, storeVars, bridgeVars,
         taskVars, connVars, sockVars, histVars
<1>6. applied' = 0 /\ Unwritten => NothingPut
  BY DEF SlowConnect, Unwritten, NothingPut, TypeOK, TaskTypes, storeVars, bridgeVars,
         taskVars, connVars, sockVars, histVars
<1> QED
  BY <1>1, <1>3, <1>4, <1>5, <1>6 DEF Mild

-----------------------------------------------------------------------------
(* Steps that do not                                                       *)

\* The former clients of a container, and those known of at all, are so many.
LEMMA FormersAreFinite ==
    ASSUME TypeOK, NEW i \in Instances
    PROVE  IsFiniteSet(Former(i)) /\ Cardinality(Former(i)) \in Nat /\ Former(i) \subseteq 1..Len(owner)
<1>1. Len(owner) \in Nat /\ announced \subseteq 1..Len(owner)
  BY DEF TypeOK, BridgeTypes
<1>2. Former(i) \subseteq 1..Len(owner)
  BY <1>1 DEF Former
<1>3. IsFiniteSet(1..Len(owner))
  BY <1>1, FS_Interval
<1> QED
  BY <1>2, <1>3, FS_Subset, FS_CardinalityType

\* While no client was announced there are no former ones either.
LEMMA NoFormers ==
    ASSUME HistTypes', announced' = {}
    PROVE  FormerOK'
<1> SUFFICES ASSUME NEW i \in Instances PROVE Cardinality(Former(i)') <= forgets'[i]
  BY DEF FormerOK
<1>1. Former(i)' = {} /\ forgets'[i] \in Nat
  BY DEF Former, HistTypes
<1> QED
  BY <1>1, FS_EmptySet

\* An Observable's client is the one its handler was given.
LEMMA OpenStreamKeeps == ASSUME IInv, NEW k \in Tasks, OpenStream(k) PROVE IInv'
<1>1. /\ pc[k] = "handler" /\ pc \in [Tasks -> TaskPcs] /\ pc' = [pc EXCEPT ![k] = "idle"]
      /\ streams' = streams \cup {ref[k]} /\ ref[k] \in announced /\ owner[ref[k]] = inst[k]
      /\ cached[inst[k]] = ref[k] \/ inst[k] \in crossed
  BY DEF OpenStream, Goto, IInv, TypeOK, TaskTypes, StreamsOK
<1>2. UNCHANGED <<rows, stray, cached, owner, announced, inst, ref, todo, hooks, foreign, attempt,
                  applied, socket, forgets, crossed>>
  BY DEF OpenStream, storeVars, connVars, sockVars, histVars
<1>3. TypeOK'
  BY <1>1, OpenStreamTypes DEF IInv
<1>4. ~Before /\ applied # 0
  BY <1>1 DEF IInv, ConnectOK, VerdictOK, Unwritten, FramePcs
<1>5. \A q \in Tasks : Connecting(q)' => Connecting(q)
  BY <1>1 DEF Connecting, ConnectPcs
<1>6. ConnectOK'
  BY <1>2, <1>4, <1>5 DEF IInv, ConnectOK, Before, Plan
<1>7. VerdictOK' /\ CacheOK' /\ FormerOK'
  BY <1>2, <1>4 DEF IInv, VerdictOK, CacheOK, FormerOK, Former
<1>8. \A q \in Tasks : /\ pc'[q] \in FramePcs \cup CleanupPcs => pc'[q] = pc[q]
                       /\ pc'[q] = "handler" => pc'[q] = pc[q]
  BY <1>1 DEF FramePcs, CleanupPcs
<1>9. StreamsOK'
  BY <1>1, <1>2, <1>8 DEF IInv, StreamsOK, FramePcs
<1> QED
  BY <1>3, <1>6, <1>7, <1>9 DEF IInv

\* The answer of $connect caches the client of its hooks, the first of any.
LEMMA AcceptedKeeps == ASSUME IInv, NEW k \in Tasks, Accepted(k) PROVE IInv'
<1>1. /\ pc[k] = "apply" /\ pc \in [Tasks -> TaskPcs] /\ pc' = [pc EXCEPT ![k] = "idle"]
      /\ cached \in [Instances -> 0..Len(owner)] /\ inst[k] \in Instances
      /\ streams \subseteq announced
  BY DEF Accepted, Goto, IInv, TypeOK, TaskTypes, BridgeTypes
<1>2. /\ UNCHANGED <<rows, stray, owner, announced, streams, inst, ref, todo, hooks, foreign,
                     applied, forgets, crossed>>
      /\ cached' = IF hooks THEN [cached EXCEPT ![inst[k]] = ref[k]] ELSE cached
      /\ attempt' = [attempt EXCEPT !.live = FALSE]
      /\ socket' \in {socket, "open"}
  BY DEF Accepted, Answer, storeVars, histVars
<1>3. Connecting(k) /\ Before /\ announced = {} /\ applied # 0 /\ socket \in {"connecting", "refused"}
  BY <1>1 DEF IInv, ConnectOK, Connecting, ConnectPcs, Before
<1>4. TypeOK'
  BY AcceptedTypes DEF IInv
<1>5. \A q \in Tasks : ~Connecting(q)'
  <2>1. \A q \in Tasks : Connecting(q) => q = k
    BY <1>3 DEF IInv, ConnectOK
  <2> QED
    BY <1>1, <2>1 DEF Connecting, ConnectPcs
<1>6. ConnectOK'
  <2>1. ~Before'
    BY <1>2, <1>3, <1>5 DEF Before
  <2>2. attempt'.joins = attempt.joins
    BY <1>2 DEF IInv, TypeOK, ConnTypes
  <2>3. Plan' = Plan
    BY <1>2, <2>2 DEF Plan
  <2> QED
    BY <1>2, <1>5, <2>1, <2>3 DEF IInv, ConnectOK
<1>7. VerdictOK'
  BY <1>2, <1>3 DEF VerdictOK
<1>8. CacheOK'
  BY <1>1, <1>2, <1>3 DEF IInv, CacheOK, ConnectOK
<1>9. FormerOK'
  BY <1>2, <1>3, <1>4, NoFormers DEF TypeOK
<1>10. StreamsOK'
  <2>1. \A q \in Tasks : pc'[q] \notin FramePcs
    BY <1>1, <1>3 DEF IInv, ConnectOK, FramePcs
  <2> QED
    BY <1>1, <1>2, <1>3, <2>1 DEF StreamsOK, FramePcs
<1> QED
  BY <1>4, <1>6, <1>7, <1>8, <1>9, <1>10 DEF IInv

\* $connect is the first thing to happen to a connection.
LEMMA ConnectKeeps ==
    ASSUME IInv, NEW k \in Tasks, NEW i \in Instances, Connect(k, i)
    PROVE  IInv'
<1>1. /\ pc[k] = "idle" /\ pc \in [Tasks -> TaskPcs]
      /\ pc' = [pc EXCEPT ![k] = IF hooks THEN "hooks" ELSE "add"]
      /\ inst' = [inst EXCEPT ![k] = i] /\ inst \in [Tasks -> Instances]
      /\ socket = "new" /\ socket' = "connecting" /\ streams \subseteq announced
      /\ ref \in [Tasks -> 0..Len(owner)]
  BY DEF Connect, Start, Goto, IInv, TypeOK, TaskTypes, BridgeTypes
<1>2. /\ UNCHANGED <<rows, stray, cached, announced, streams, todo, hooks, foreign, applied,
                     forgets, crossed>>
      /\ attempt' \in {attempt, [attempt EXCEPT !.live = TRUE]}
  BY DEF Connect, Start, storeVars, histVars
<1>3. /\ announced = {} /\ (\A q \in Tasks : pc[q] \notin FramePcs /\ ~Connecting(q))
      /\ \A j \in Instances : cached[j] = 0
  BY <1>1 DEF IInv, ConnectOK, Before
<1>4. TypeOK'
  BY ConnectTypes DEF IInv
<1>5. hooks => ref'[k] # 0 /\ owner'[ref'[k]] = i
  <2> SUFFICES ASSUME hooks PROVE ref'[k] # 0 /\ owner'[ref'[k]] = i
    OBVIOUS
  <2>1. owner' = Append(owner, i) /\ ref' = [ref EXCEPT ![k] = Len(owner) + 1]
    BY DEF Connect
  <2>2. owner'[Len(owner) + 1] = i /\ Len(owner) \in Nat
    BY <2>1, OwnerGrows DEF IInv
  <2> QED
    BY <1>1, <2>1, <2>2
<1>6. \A q \in Tasks : /\ pc'[q] \notin FramePcs /\ (Connecting(q)' => q = k)
                       /\ pc'[q] # "apply"
  BY <1>1, <1>3 DEF Connecting, ConnectPcs, FramePcs
<1>7. ConnectOK'
  <2>1. attempt'.joins = attempt.joins
    BY <1>2 DEF IInv, TypeOK, ConnTypes
  <2>2. Plan' = Plan
    BY <1>2, <2>1 DEF Plan
  <2> QED
    BY <1>1, <1>2, <1>3, <1>5, <1>6, <2>2 DEF IInv, ConnectOK
<1>8. VerdictOK'
  BY <1>1, <1>2, <1>6 DEF IInv, VerdictOK, Unwritten
<1>9. CacheOK'
  BY <1>2, <1>3 DEF CacheOK
<1>10. FormerOK'
  BY <1>2, <1>3, <1>4, NoFormers DEF TypeOK
<1>11. StreamsOK'
  BY <1>1, <1>2, <1>3, <1>6 DEF StreamsOK, FramePcs
<1> QED
  BY <1>4, <1>7, <1>8, <1>9, <1>10, <1>11 DEF IInv

\* Once $connect is answered, it stays so.
LEMMA IsAnswered ==
    ASSUME IInv, socket = "open" \/ \E q \in Tasks : pc[q] \in FramePcs
    PROVE  ~Before /\ applied # 0
<1>1. CASE socket = "open"
  BY <1>1 DEF IInv, ConnectOK, VerdictOK, Unwritten, Before
<1>2. CASE \E q \in Tasks : pc[q] \in FramePcs
  BY <1>2 DEF IInv, ConnectOK, VerdictOK, Unwritten
<1> QED
  BY <1>1, <1>2

\* ... and what $connect decided stays as it is.
LEMMA StaysAnswered ==
    ASSUME IInv, ~Before, applied # 0, UNCHANGED <<socket, foreign, attempt, applied>>,
           \A q \in Tasks : Connecting(q)' => Connecting(q)
    PROVE  ConnectOK' /\ VerdictOK'
<1>1. ~Before' /\ \A q \in Tasks : ~Connecting(q)'
  BY DEF Before
<1>2. Plan' = Plan
  BY DEF Plan
<1> QED
  BY <1>1, <1>2 DEF IInv, ConnectOK, VerdictOK

\* Handing the tasks the container's client, found or made.
LEMMA ServeKeeps ==
    ASSUME IInv, NEW i \in Instances, NEW tasks \in SUBSET Tasks, Serve(i, tasks),
           UNCHANGED <<streams, forgets>>, crossed \subseteq crossed',
           \A q \in tasks : inst'[q] = i,
           \A q \in Tasks : q \notin tasks => inst'[q] = inst[q],
           \A q \in Tasks : q \notin tasks /\ pc[q] \in CleanupPcs /\ inst[q] = i => i \in crossed'
    PROVE  CacheOK' /\ FormerOK' /\ StreamsOK'
<1> USE DEF IInv
<1>1. PICK n \in 1..Len(owner') :
        /\ owner' \in Seq(Instances) /\ Len(owner') \in {Len(owner), Len(owner) + 1}
        /\ \A m \in 1..Len(owner) : owner'[m] = owner[m]
        /\ cached[i] # 0 => n = cached[i] /\ UNCHANGED owner
        /\ cached[i] = 0 => n = Len(owner) + 1 /\ owner'[n] = i
        /\ cached' = [cached EXCEPT ![i] = n] /\ announced' = announced \cup {n}
        /\ ref' = [q \in Tasks |-> IF q \in tasks THEN n ELSE ref[q]]
        /\ pc' = [q \in Tasks |-> IF q \in tasks THEN "handler" ELSE pc[q]]
  BY ServeIs
<1>2. /\ Len(owner) \in Nat /\ cached \in [Instances -> 0..Len(owner)]
      /\ announced \subseteq 1..Len(owner) /\ streams \subseteq announced
      /\ inst \in [Tasks -> Instances] /\ owner \in Seq(Instances)
  BY DEF TypeOK, BridgeTypes, TaskTypes
<1>3. n # 0 /\ owner'[n] = i
  BY <1>1, <1>2 DEF CacheOK
<1>4. cached'[i] = n /\ \A j \in Instances \ {i} : cached'[j] = cached[j]
  BY <1>1, <1>2
<1>5. \A m \in announced : m # 0 /\ owner'[m] = owner[m]
  BY <1>1, <1>2
<1>6. \A m \in announced : owner[m] \in Instances
  BY <1>2
<1>7. CacheOK'
  <2> SUFFICES ASSUME NEW j \in Instances, cached'[j] # 0 PROVE owner'[cached'[j]] = j
    BY DEF CacheOK
  <2>1. CASE j = i
    BY <2>1, <1>3, <1>4
  <2>2. CASE j # i
    <3>1. cached'[j] = cached[j] /\ owner[cached[j]] = j /\ cached[j] \in 1..Len(owner)
      BY <2>2, <1>2, <1>4 DEF CacheOK
    <3> QED
      BY <3>1, <1>1
  <2> QED
    BY <2>1, <2>2
<1>8. FormerOK'
  <2> SUFFICES ASSUME NEW j \in Instances PROVE Cardinality(Former(j)') <= forgets'[j]
    BY DEF FormerOK
  <2>1. CASE j # i
    <3>1. Former(j)' = Former(j)
      BY <2>1, <1>1, <1>3, <1>4, <1>5 DEF Former
    <3> QED
      BY <3>1 DEF FormerOK
  <2>2. CASE j = i
    <3>1. cached[i] # 0 => cached[i] = n
      BY <1>1
    <3>2. cached[i] = 0 => n \notin announced
      BY <1>1, <1>2
    <3>3. Former(i)' = Former(i)
      BY <3>1, <3>2, <1>1, <1>3, <1>4, <1>5 DEF Former
    <3> QED
      BY <2>2, <3>3 DEF FormerOK
  <2> QED
    BY <2>1, <2>2
<1>9. \A j \in Instances, m \in announced : cached[j] = m \/ j \in crossed
                                           => cached'[j] = m \/ j \in crossed'
  <2>1. cached[i] # 0 => cached[i] = n
    BY <1>1
  <2> QED
    BY <2>1, <1>4, <1>5
<1>10. StreamsOK'
  <2>1. ASSUME NEW q \in Tasks, pc'[q] = "handler"
        PROVE  /\ ref'[q] \in announced' /\ owner'[ref'[q]] = inst'[q]
               /\ cached'[inst'[q]] = ref'[q] \/ inst'[q] \in crossed'
    <3>1. CASE q \in tasks
      BY <3>1, <1>1, <1>3, <1>4
    <3>2. CASE q \notin tasks
      <4>1. pc[q] = "handler" /\ ref'[q] = ref[q] /\ inst'[q] = inst[q]
        BY <2>1, <3>2, <1>1
      <4>2. ref[q] \in announced /\ owner[ref[q]] = inst[q] /\ inst[q] \in Instances
            /\ (cached[inst[q]] = ref[q] \/ inst[q] \in crossed)
        BY <4>1, <1>2 DEF StreamsOK
      <4> QED
        BY <4>1, <4>2, <1>1, <1>5, <1>9
    <3> QED
      BY <3>1, <3>2
  <2>2. ASSUME NEW m \in streams' PROVE cached'[owner'[m]] = m \/ owner'[m] \in crossed'
    <3>1. m \in announced /\ owner'[m] = owner[m] /\ owner[m] \in Instances
          /\ (cached[owner[m]] = m \/ owner[m] \in crossed)
      BY <2>2, <1>2, <1>5, <1>6 DEF StreamsOK
    <3> QED
      BY <3>1, <1>9
  <2>3. \A q \in Tasks : pc'[q] \in CleanupPcs =>
          q \notin tasks /\ pc[q] \in CleanupPcs /\ inst'[q] = inst[q] /\ ref'[q] = ref[q]
    BY <1>1 DEF CleanupPcs
  <2>4. ASSUME NEW p \in Tasks, NEW q \in Tasks, pc'[p] \in CleanupPcs, pc'[q] \in FramePcs,
               inst'[p] = inst'[q]
        PROVE  inst'[p] \in crossed'
    <3>1. CASE q \in tasks
      BY <2>3, <2>4, <3>1
    <3>2. CASE q \notin tasks
      BY <2>3, <2>4, <3>2, <1>1 DEF StreamsOK
    <3> QED
      BY <3>1, <3>2
  <2>5. ASSUME NEW p \in Tasks, NEW m \in streams', pc'[p] \in CleanupPcs, owner'[m] = inst'[p]
        PROVE  ref'[p] = m \/ inst'[p] \in crossed'
    BY <2>3, <2>5, <1>2, <1>5 DEF StreamsOK
  <2> QED
    BY <2>1, <2>2, <2>4, <2>5 DEF StreamsOK
<1> QED
  BY <1>7, <1>8, <1>10

\* A frame for a container that has the client, or needs none of the store.
LEMMA FrameServedKeeps ==
    ASSUME IInv, NEW k \in Tasks, NEW i \in Instances, FrameServed(k, i)
    PROVE  IInv'
<1>1. /\ pc[k] = "idle" /\ pc \in [Tasks -> TaskPcs] /\ socket = "open"
      /\ inst' = [inst EXCEPT ![k] = i] /\ inst \in [Tasks -> Instances]
      /\ crossed' = IF \E q \in On(i) : pc[q] \in CleanupPcs THEN crossed \cup {i} ELSE crossed
      /\ Serve(i, {k})
  BY DEF FrameServed, StartFrame, Start, IInv, TypeOK, TaskTypes
<1>2. UNCHANGED <<streams, forgets, socket, foreign, attempt, applied>>
  BY DEF FrameServed, StartFrame, connVars, sockVars
<1>3. TypeOK'
  BY FrameServedTypes DEF IInv
<1>4. \A q \in Tasks : Connecting(q)' => Connecting(q)
  BY <1>1 DEF Serve, Connecting, ConnectPcs
<1>5. ConnectOK' /\ VerdictOK'
  BY <1>1, <1>2, <1>4, IsAnswered, StaysAnswered
<1>6. \A q \in Tasks : q \notin {k} /\ pc[q] \in CleanupPcs /\ inst[q] = i => i \in crossed'
  BY <1>1 DEF On, CleanupPcs
<1>7. CacheOK' /\ FormerOK' /\ StreamsOK'
  BY <1>1, <1>2, <1>6, ServeKeeps
<1> QED
  BY <1>3, <1>5, <1>7 DEF IInv

\* One that waits for the store first.
LEMMA FrameUncachedKeeps ==
    ASSUME IInv, NEW k \in Tasks, NEW i \in Instances, FrameUncached(k, i)
    PROVE  IInv'
<1>1. /\ pc[k] = "idle" /\ pc \in [Tasks -> TaskPcs] /\ socket = "open"
      /\ inst' = [inst EXCEPT ![k] = i] /\ inst \in [Tasks -> Instances]
      /\ crossed' = IF \E q \in On(i) : pc[q] \in CleanupPcs THEN crossed \cup {i} ELSE crossed
      /\ \E to \in {"restore", "await"} : pc' = [pc EXCEPT ![k] = to]
  BY DEF FrameUncached, StartFrame, Start, Goto, IInv, TypeOK, TaskTypes
<1>2. UNCHANGED <<streams, forgets, socket, foreign, attempt, applied, cached, owner, announced, ref>>
  BY DEF FrameUncached, StartFrame, connVars, sockVars
<1>3. TypeOK'
  BY FrameUncachedTypes DEF IInv
<1>4. \A q \in Tasks : q # k => pc'[q] = pc[q] /\ inst'[q] = inst[q]
  BY <1>1
<1>5. pc'[k] \in {"restore", "await"} /\ inst'[k] = i
  BY <1>1
<1>6. \A q \in Tasks : Connecting(q)' => Connecting(q)
  BY <1>4, <1>5 DEF Connecting, ConnectPcs
<1>7. ConnectOK' /\ VerdictOK'
  BY <1>1, <1>2, <1>6, IsAnswered, StaysAnswered
<1>8. CacheOK' /\ FormerOK'
  BY <1>2 DEF IInv, CacheOK, FormerOK, Former
<1>9. \A q \in Tasks : q # k /\ pc[q] \in CleanupPcs /\ inst[q] = i => i \in crossed'
  BY <1>1 DEF On, CleanupPcs
<1>10. \A q \in Tasks : pc'[q] \in CleanupPcs \cup {"handler"} => q # k
  BY <1>5 DEF CleanupPcs
<1>11. crossed \subseteq crossed'
  BY <1>1
<1>12. StreamsOK'
  BY <1>2, <1>4, <1>5, <1>9, <1>10, <1>11 DEF IInv, StreamsOK
<1> QED
  BY <1>3, <1>7, <1>8, <1>12 DEF IInv

\* The frames that shared a read are served together.
LEMMA RehydratedKeeps == ASSUME IInv, NEW k \in Tasks, Rehydrated(k) PROVE IInv'
<1>1. /\ pc[k] = "found" /\ pc \in [Tasks -> TaskPcs] /\ inst[k] \in Instances
      /\ Sharing(k) \in SUBSET Tasks /\ Serve(inst[k], Sharing(k))
  BY DEF Rehydrated, Sharing, IInv, TypeOK, TaskTypes
<1>2. UNCHANGED <<streams, forgets, socket, foreign, attempt, applied, inst, crossed>>
  BY DEF Rehydrated, connVars, sockVars, histVars
<1>3. TypeOK'
  BY RehydratedTypes DEF IInv
<1>4. pc[k] \in FramePcs
  BY <1>1 DEF FramePcs
<1>5. \A q \in Tasks : Connecting(q)' => Connecting(q)
  BY <1>1 DEF Serve, Connecting, ConnectPcs
<1>6. ConnectOK' /\ VerdictOK'
  BY <1>2, <1>4, <1>5, IsAnswered, StaysAnswered
<1>7. \A q \in Sharing(k) : inst'[q] = inst[k]
  BY <1>2 DEF Sharing
<1>8. \A q \in Tasks : q \notin Sharing(k) /\ pc[q] \in CleanupPcs /\ inst[q] = inst[k]
                       => inst[k] \in crossed'
  BY <1>2, <1>4 DEF IInv, StreamsOK
<1>9. CacheOK' /\ FormerOK' /\ StreamsOK'
  BY <1>1, <1>2, <1>7, <1>8, ServeKeeps
<1> QED
  BY <1>3, <1>6, <1>9 DEF IInv

\* A cleanup begins with the client its container has cached.
LEMMA CleanupBegins ==
    ASSUME IInv, TypeOK', NEW k \in Tasks, NEW i \in Instances,
           pc[k] \in {"idle", "handler"}, BeginCleanup(k, i),
           inst' = [inst EXCEPT ![k] = i], UNCHANGED socket
    PROVE  IInv'
<1> USE DEF IInv
<1>1. /\ pc \in [Tasks -> TaskPcs] /\ inst \in [Tasks -> Instances] /\ streams \subseteq announced
      /\ ref \in [Tasks -> 0..Len(owner)]
  BY DEF TypeOK, BridgeTypes, TaskTypes
<1>2. /\ UNCHANGED <<rows, stray, cached, owner, announced, streams, todo, hooks, foreign, attempt,
                     applied, forgets>>
      /\ ref' = [ref EXCEPT ![k] = cached[i]]
      /\ \E to \in {"farewell", "lookup", "blind"} : pc' = [pc EXCEPT ![k] = to]
      /\ crossed' = IF \E q \in On(i) \ {k} : pc[q] \in FramePcs THEN crossed \cup {i} ELSE crossed
  BY DEF BeginCleanup, Goto, Cached, storeVars, bridgeVars, connVars
<1>3. /\ pc'[k] \in CleanupPcs /\ pc'[k] \notin FramePcs /\ ~Connecting(k)' /\ ~Connecting(k)
      /\ pc'[k] # "apply" /\ pc'[k] # "handler" /\ ref'[k] = cached[i] /\ inst'[k] = i
  BY <1>1, <1>2 DEF CleanupPcs, FramePcs, ConnectPcs, Connecting
<1>4. \A q \in Tasks : q # k => pc'[q] = pc[q] /\ ref'[q] = ref[q] /\ inst'[q] = inst[q]
  BY <1>1, <1>2
<1>5. \A q \in Tasks : q # k => Connecting(q)' = Connecting(q)
  BY <1>4 DEF Connecting
<1>6. ConnectOK'
  <2>1. Plan' = Plan
    BY <1>2 DEF Plan
  <2>2. Before' => Before
    BY <1>3, <1>5 DEF Before
  <2> QED
    BY <1>2, <1>3, <1>4, <1>5, <2>1, <2>2 DEF ConnectOK
<1>7. VerdictOK'
  BY <1>2, <1>3, <1>4 DEF VerdictOK, Unwritten
<1>8. CacheOK' /\ FormerOK'
  BY <1>2 DEF CacheOK, FormerOK, Former
<1>9. crossed \subseteq crossed'
  BY <1>2
<1>10. \A q \in Tasks : q # k /\ pc[q] \in FramePcs /\ inst[q] = i => i \in crossed'
  BY <1>2 DEF On, FramePcs
<1>11. StreamsOK'
  <2>1. \A q \in Tasks : pc'[q] = "handler" => /\ ref'[q] \in announced' /\ owner'[ref'[q]] = inst'[q]
                                               /\ cached'[inst'[q]] = ref'[q] \/ inst'[q] \in crossed'
    BY <1>2, <1>3, <1>4, <1>9 DEF StreamsOK
  <2>2. \A n \in streams' : cached'[owner'[n]] = n \/ owner'[n] \in crossed'
    BY <1>2, <1>9 DEF StreamsOK
  <2>3. ASSUME NEW p \in Tasks, NEW q \in Tasks, pc'[p] \in CleanupPcs, pc'[q] \in FramePcs,
               inst'[p] = inst'[q]
        PROVE  inst'[p] \in crossed'
    <3>1. q # k /\ pc[q] \in FramePcs /\ inst'[q] = inst[q]
      BY <2>3, <1>3, <1>4
    <3>2. CASE p = k
      BY <2>3, <3>1, <3>2, <1>3, <1>10
    <3>3. CASE p # k
      BY <2>3, <3>1, <3>3, <1>4, <1>9 DEF StreamsOK
    <3> QED
      BY <3>2, <3>3
  <2>4. ASSUME NEW p \in Tasks, NEW n \in streams', pc'[p] \in CleanupPcs, owner'[n] = inst'[p]
        PROVE  ref'[p] = n \/ inst'[p] \in crossed'
    <3>1. CASE p = k
      BY <2>4, <3>1, <1>2, <1>3, <1>9 DEF StreamsOK
    <3>2. CASE p # k
      BY <2>4, <3>2, <1>2, <1>4, <1>9 DEF StreamsOK
    <3> QED
      BY <3>1, <3>2
  <2> QED
    BY <2>1, <2>2, <2>3, <2>4 DEF StreamsOK
<1> QED
  BY <1>6, <1>7, <1>8, <1>11

\* $disconnect, a post that is answered 410, a kick, and a handler that cleans: all
\* of them begin a cleanup.
LEMMA DisconnectedKeeps ==
    ASSUME IInv, NEW k \in Tasks, NEW i \in Instances, Disconnected(k, i)
    PROVE  IInv'
<1>1. /\ pc[k] = "idle" /\ inst' = [inst EXCEPT ![k] = i] /\ UNCHANGED socket /\ BeginCleanup(k, i)
  BY DEF Disconnected, Start, sockVars
<1>2. TypeOK'
  BY DisconnectedTypes DEF IInv
<1> QED
  BY <1>1, <1>2, CleanupBegins

\* (a post that is answered 410)
LEMMA GoneKeeps ==
    ASSUME IInv, NEW k \in Tasks, NEW i \in Instances, Gone(k, i)
    PROVE  IInv'
<1>1. /\ pc[k] = "idle" /\ inst' = [inst EXCEPT ![k] = i] /\ UNCHANGED socket /\ BeginCleanup(k, i)
  BY DEF Gone, Start, sockVars
<1>2. TypeOK'
  BY GoneTypes DEF IInv
<1> QED
  BY <1>1, <1>2, CleanupBegins

\* (a kick)
LEMMA KickKeeps ==
    ASSUME IInv, NEW k \in Tasks, NEW i \in Instances, Kick(k, i)
    PROVE  IInv'
<1>1. /\ pc[k] = "idle" /\ inst' = [inst EXCEPT ![k] = i] /\ UNCHANGED socket /\ BeginCleanup(k, i)
  BY DEF Kick, Start, sockVars
<1>2. TypeOK'
  BY KickTypes DEF IInv
<1> QED
  BY <1>1, <1>2, CleanupBegins

\* (a handler that hangs up, or whose own send is answered 410)
LEMMA HandlerCleansKeeps == ASSUME IInv, NEW k \in Tasks, HandlerCleans(k) PROVE IInv'
<1>1. /\ pc[k] = "handler" /\ UNCHANGED <<inst, socket>> /\ BeginCleanup(k, inst[k])
      /\ inst \in [Tasks -> Instances]
  BY DEF HandlerCleans, sockVars, IInv, TypeOK, TaskTypes
<1>2. inst[k] \in Instances /\ inst' = [inst EXCEPT ![k] = inst[k]]
  BY <1>1
<1>3. TypeOK'
  BY HandlerCleansTypes DEF IInv
<1> QED
  BY <1>1, <1>2, <1>3, CleanupBegins

\* A container that forgets its client has one former client more.
LEMMA ForgetKeeps == ASSUME IInv, NEW k \in Tasks, Forget(k) PROVE IInv'
<1> DEFINE i == inst[k]
<1>1. /\ pc[k] = "delete" /\ pc \in [Tasks -> TaskPcs] /\ i \in Instances
      /\ cached \in [Instances -> 0..Len(owner)] /\ Len(owner) \in Nat
      /\ forgets \in [Instances -> Nat] /\ streams \subseteq announced
      /\ \E to \in {"close", "idle"} : pc' = [pc EXCEPT ![k] = to]
  <2>1. /\ pc \in [Tasks -> TaskPcs] /\ i \in Instances
        /\ cached \in [Instances -> 0..Len(owner)] /\ streams \subseteq announced
    BY DEF IInv, TypeOK, TaskTypes, BridgeTypes
  <2>2. Len(owner) \in Nat /\ forgets \in [Instances -> Nat]
    BY DEF IInv, TypeOK, BridgeTypes, HistTypes
  <2>3. pc[k] = "delete" /\ \E to \in {"close", "idle"} : pc' = [pc EXCEPT ![k] = to]
    BY DEF Forget, Goto
  <2> QED
    BY <2>1, <2>2, <2>3
<1>2. /\ streams' = streams \ {ref[k]} /\ cached' = [cached EXCEPT ![i] = 0]
      /\ forgets' = [forgets EXCEPT ![i] = @ + 1]
      /\ UNCHANGED <<rows, stray, owner, announced, inst, ref, todo, hooks, foreign, attempt,
                     applied, socket, crossed>>
  BY DEF Forget, TearDown, storeVars, connVars, sockVars
<1>3. TypeOK'
  BY ForgetTypes DEF IInv
<1>4. /\ pc'[k] \notin FramePcs /\ ~Connecting(k)' /\ ~Connecting(k)
      /\ pc'[k] # "apply" /\ pc'[k] # "handler" /\ pc[k] \in CleanupPcs
  BY <1>1 DEF CleanupPcs, FramePcs, ConnectPcs, Connecting
<1>5. \A q \in Tasks : q # k => pc'[q] = pc[q]
  BY <1>1
<1>6. \A q \in Tasks : Connecting(q)' = Connecting(q)
  BY <1>4, <1>5 DEF Connecting
<1>7. /\ cached'[i] = 0 /\ forgets'[i] = forgets[i] + 1
      /\ \A j \in Instances \ {i} : cached'[j] = cached[j] /\ forgets'[j] = forgets[j]
  BY <1>1, <1>2
<1> HIDE DEF i
<1>8. ConnectOK'
  <2>1. Plan' = Plan
    BY <1>2 DEF Plan
  <2>2. Before' = Before
    BY <1>2, <1>6 DEF Before
  <2> QED
    BY <1>2, <1>4, <1>5, <1>6, <1>7, <2>1, <2>2 DEF IInv, ConnectOK
<1>9. VerdictOK'
  BY <1>2, <1>4, <1>5 DEF IInv, VerdictOK, Unwritten
<1>10. CacheOK'
  BY <1>2, <1>7 DEF IInv, CacheOK
<1>11. FormerOK'
  <2> SUFFICES ASSUME NEW j \in Instances PROVE Cardinality(Former(j)') <= forgets'[j]
    BY DEF FormerOK
  <2>1. CASE j # i
    <3>1. Former(j)' = Former(j)
      BY <2>1, <1>2, <1>7 DEF Former
    <3> QED
      BY <2>1, <3>1, <1>7 DEF IInv, FormerOK
  <2>2. CASE j = i
    <3> DEFINE before == Former(j)
    <3>1. Former(j)' \subseteq before \cup {cached[i]}
      BY <2>2, <1>2 DEF Former
    <3>2. /\ IsFiniteSet(before) /\ Cardinality(before) \in Nat /\ Cardinality(before) <= forgets[i]
      BY <1>1, <2>2, FormersAreFinite DEF IInv, FormerOK
    <3> HIDE DEF before
    <3>3. /\ IsFiniteSet(before \cup {cached[i]})
          /\ Cardinality(before \cup {cached[i]}) <= Cardinality(before) + 1
          /\ Cardinality(before \cup {cached[i]}) \in Nat
      <4>1. IsFiniteSet(before \cup {cached[i]})
        BY <3>2, FS_AddElement
      <4>2. \/ Cardinality(before \cup {cached[i]}) = Cardinality(before)
            \/ Cardinality(before \cup {cached[i]}) = Cardinality(before) + 1
        BY <3>2, FS_AddElement
      <4> QED
        BY <3>2, <4>1, <4>2
    <3>4. Cardinality(Former(j)') <= Cardinality(before \cup {cached[i]})
          /\ Cardinality(Former(j)') \in Nat
      BY <3>1, <3>3, FS_Subset, FS_CardinalityType
    <3>5. forgets[i] \in Nat
      BY <1>1
    <3> QED
      BY <2>2, <3>2, <3>3, <3>4, <3>5, <1>7
  <2> QED
    BY <2>1, <2>2
<1>12. StreamsOK'
  <2>1. \A q \in Tasks : pc'[q] \in FramePcs => pc[q] \in FramePcs /\ (inst[q] = i => i \in crossed)
    BY <1>4, <1>5 DEF IInv, StreamsOK, i
  <2>2. \A q \in Tasks : pc'[q] \in CleanupPcs => pc[q] \in CleanupPcs
    BY <1>4, <1>5
  <2>3. ASSUME NEW q \in Tasks, pc'[q] = "handler"
        PROVE  /\ ref[q] \in announced /\ owner[ref[q]] = inst[q]
               /\ cached'[inst[q]] = ref[q] \/ inst[q] \in crossed
    <3>1. q # k /\ pc[q] = "handler" /\ pc'[q] \in FramePcs /\ inst[q] \in Instances
      BY <2>3, <1>4, <1>5 DEF FramePcs, IInv, TypeOK, TaskTypes
    <3>2. inst[q] # i => cached'[inst[q]] = cached[inst[q]]
      BY <3>1, <1>7
    <3> QED
      BY <3>1, <3>2, <2>1 DEF IInv, StreamsOK
  <2>4. ASSUME NEW n \in streams'
        PROVE  cached'[owner[n]] = n \/ owner[n] \in crossed
    <3>1. n \in streams /\ n # ref[k] /\ owner[n] \in Instances
      BY <2>4, <1>1, <1>2 DEF IInv, TypeOK, BridgeTypes
    <3>2. CASE owner[n] = i
      BY <3>1, <3>2, <1>4 DEF IInv, StreamsOK, i
    <3>3. CASE owner[n] # i
      BY <3>1, <3>3, <1>7 DEF IInv, StreamsOK
    <3> QED
      BY <3>2, <3>3
  <2> QED
    BY <2>1, <2>2, <2>3, <2>4, <1>2 DEF IInv, StreamsOK
<1> QED
  BY <1>3, <1>8, <1>9, <1>10, <1>11, <1>12 DEF IInv

\* A container that dies takes its clients and its tasks with it.
LEMMA CrashKeeps == ASSUME IInv, NEW i \in Instances, Crash(i) PROVE IInv'
<1>1. /\ pc \in [Tasks -> TaskPcs] /\ inst \in [Tasks -> Instances]
      /\ cached \in [Instances -> 0..Len(owner)] /\ Len(owner) \in Nat
      /\ forgets \in [Instances -> Nat] /\ streams \subseteq announced
  BY DEF IInv, TypeOK, TaskTypes, BridgeTypes, HistTypes
<1>2. /\ UNCHANGED <<rows, owner, inst, ref, hooks, foreign, applied, forgets, crossed>>
      /\ stray' = stray \cup UNION {todo[k] : k \in On(i)}
      /\ todo' = [k \in Tasks |-> IF k \in On(i) THEN {} ELSE todo[k]]
      /\ pc' = [k \in Tasks |-> IF k \in On(i) THEN "idle" ELSE pc[k]]
      /\ cached' = [cached EXCEPT ![i] = 0]
      /\ announced' = {n \in announced : owner[n] # i}
      /\ streams' = {n \in streams : owner[n] # i}
      /\ attempt' \in {attempt, [attempt EXCEPT !.live = FALSE]}
      /\ socket' = socket \/ (socket = "connecting" /\ socket' = "refused")
  BY DEF Crash, Answer
<1>3. TypeOK'
  BY CrashTypes DEF IInv
<1>4. ASSUME NEW q \in Tasks, pc'[q] # "idle" PROVE pc'[q] = pc[q] /\ inst[q] # i
  BY <1>2, <1>4 DEF On
<1>5. "idle" \notin FramePcs \cup CleanupPcs \cup ConnectPcs \cup {"handler", "apply"}
  BY DEF FramePcs, CleanupPcs, ConnectPcs
<1>6. cached'[i] = 0 /\ \A j \in Instances \ {i} : cached'[j] = cached[j]
  BY <1>1, <1>2
<1>7. ConnectOK'
  <2>1. \A q \in Tasks : Connecting(q)' => Connecting(q) /\ pc'[q] = pc[q]
    BY <1>4, <1>5 DEF Connecting
  <2>2. attempt'.joins = attempt.joins
    BY <1>2 DEF IInv, TypeOK, ConnTypes
  <2>3. Plan' = Plan
    BY <1>2, <2>2 DEF Plan
  <2>4. Before' => Before
    BY <1>2, <2>1 DEF Before
  <2>5. \A q \in Tasks : pc'[q] \in FramePcs => pc[q] \in FramePcs
    BY <1>4, <1>5
  <2>6. announced = {} => announced' = {}
    BY <1>2
  <2>7. \A j \in Instances : cached[j] = 0 => cached'[j] = 0
    BY <1>6
  <2>8. ASSUME NEW q \in Tasks, Connecting(q)'
        PROVE  /\ socket' \in {"connecting", "refused"}
               /\ hooks' => ref'[q] # 0 /\ owner'[ref'[q]] = inst'[q]
               /\ pc'[q] = "apply" => applied' # 0
    <3>1. Connecting(q) /\ pc'[q] = pc[q]
      BY <2>1, <2>8
    <3> QED
      BY <3>1, <1>2 DEF IInv, ConnectOK
  <2>9. \A p, q \in Tasks : Connecting(p)' /\ Connecting(q)' => p = q
    BY <2>1 DEF IInv, ConnectOK
  <2>10. applied' <= Len(Plan)' + 1
    BY <1>2, <2>3 DEF IInv, ConnectOK
  <2> QED
    BY <2>4, <2>5, <2>6, <2>7, <2>8, <2>9, <2>10 DEF IInv, ConnectOK
<1>8. VerdictOK'
  <2> SUFFICES ASSUME applied = 0 PROVE Unwritten'
    BY <1>2 DEF VerdictOK
  <2>1. Unwritten
    BY DEF IInv, VerdictOK
  <2>2. \A op \in UNION {todo[k] : k \in On(i)} : op[1] = "del"
    BY <2>1 DEF Unwritten, On
  <2>3. \A q \in Tasks : pc'[q] \notin FramePcs
    BY <2>1, <1>4, <1>5 DEF Unwritten
  <2>4. \A q \in Tasks : \A op \in todo'[q] : op[1] = "del"
    BY <2>1, <1>2 DEF Unwritten
  <2> QED
    BY <2>1, <2>2, <2>3, <2>4, <1>2 DEF Unwritten
<1>9. CacheOK'
  BY <1>2, <1>6 DEF IInv, CacheOK
<1>10. FormerOK'
  <2> SUFFICES ASSUME NEW j \in Instances PROVE Cardinality(Former(j)') <= forgets'[j]
    BY DEF FormerOK
  <2>1. CASE j # i
    <3>1. Former(j)' = Former(j)
      BY <2>1, <1>2, <1>6 DEF Former
    <3> QED
      BY <3>1, <1>2 DEF IInv, FormerOK
  <2>2. CASE j = i
    <3>1. Former(j)' = {}
      BY <2>2, <1>2 DEF Former
    <3>2. forgets'[j] \in Nat
      BY <1>1, <1>2
    <3> QED
      BY <3>1, <3>2, FS_EmptySet
  <2> QED
    BY <2>1, <2>2
<1>11. StreamsOK'
  <2>1. ASSUME NEW q \in Tasks, pc'[q] = "handler"
        PROVE  /\ ref[q] \in announced' /\ owner[ref[q]] = inst[q]
               /\ cached'[inst[q]] = ref[q] \/ inst[q] \in crossed
    <3>1. pc[q] = "handler" /\ inst[q] # i /\ inst[q] \in Instances
      BY <2>1, <1>1, <1>4
    <3>2. /\ ref[q] \in announced /\ owner[ref[q]] = inst[q]
          /\ cached[inst[q]] = ref[q] \/ inst[q] \in crossed
      BY <3>1 DEF IInv, StreamsOK
    <3> QED
      BY <3>1, <3>2, <1>2, <1>6
  <2>2. ASSUME NEW n \in streams' PROVE cached'[owner[n]] = n \/ owner[n] \in crossed
    <3>1. n \in streams /\ owner[n] # i /\ owner[n] \in Instances
      BY <1>1, <1>2 DEF IInv, TypeOK, BridgeTypes
    <3> QED
      BY <3>1, <1>6 DEF IInv, StreamsOK
  <2>3. \A q \in Tasks : /\ pc'[q] \in FramePcs => pc[q] \in FramePcs
                         /\ pc'[q] \in CleanupPcs => pc[q] \in CleanupPcs
    BY <1>4, <1>5
  <2>4. streams' \subseteq streams
    BY <1>2
  <2> QED
    BY <2>1, <2>2, <2>3, <2>4, <1>2 DEF IInv, StreamsOK
<1> QED
  BY <1>3, <1>7, <1>8, <1>9, <1>10, <1>11 DEF IInv

-----------------------------------------------------------------------------
(* The invariant, and what follows from it                                 *)

\* Every step of Next leaves the invariant as it is.
LEMMA NextKeeps == ASSUME IInv, [Next]_vars PROVE IInv'
<1> USE IInv
<1>0. TypeOK
  BY DEF IInv
<1>1. CASE UNCHANGED vars
  <2>1. Plan' = Plan
    BY <1>1 DEF vars, connVars, Plan
  <2>2. Mild
    BY <1>1, <2>1 DEF vars, storeVars, bridgeVars, taskVars, connVars, sockVars, histVars, Mild,
         SocketGoesOn, NothingPut, Unwritten, IInv, ConnectOK
  <2>3. TypeOK'
    BY <1>0, <1>1 DEF vars, storeVars, bridgeVars, taskVars, connVars, sockVars, histVars, TypeOK,
         FlagTypes, ConnTypes, StoreTypes, BridgeTypes, TaskTypes, HistTypes
  <2> QED
    BY <2>2, <2>3, MildKeeps
<1>2. ASSUME NEW k \in Tasks, HooksRefuse(k) PROVE IInv'
  BY <1>0, <1>2, HooksRefuseIsMild, HooksRefuseTypes, MildKeeps
<1>3. ASSUME NEW k \in Tasks, HooksAccept(k) PROVE IInv'
  BY <1>0, <1>3, HooksAcceptIsMild, HooksAcceptTypes, MildKeeps
<1>4. ASSUME NEW k \in Tasks, AddMeta(k) PROVE IInv'
  BY <1>0, <1>4, AddMetaIsMild, AddMetaTypes, MildKeeps
<1>5. ASSUME NEW k \in Tasks, ApplyMembership(k) PROVE IInv'
  <2>1. applied # 0
    BY <1>5 DEF ApplyMembership, IInv, ConnectOK, Connecting, ConnectPcs
  <2> QED
    BY <1>0, <1>5, <2>1, ApplyMembershipIsMild, ApplyMembershipTypes, MildKeeps
<1>6. ASSUME NEW k \in Tasks, Accepted(k) PROVE IInv'
  BY <1>6, AcceptedKeeps
<1>7. ASSUME NEW k \in Tasks, Undo(k) PROVE IInv'
  BY <1>0, <1>7, UndoIsMild, UndoTypes, MildKeeps
<1>8. ASSUME NEW k \in Tasks, Undone(k) PROVE IInv'
  BY <1>0, <1>8, UndoneIsMild, UndoneTypes, MildKeeps
<1>9. ASSUME NEW k \in Tasks, RowDone(k) PROVE IInv'
  BY <1>0, <1>9, RowDoneIsMild, RowDoneTypes, MildKeeps
<1>10. ASSUME NEW k \in Tasks, RowFails(k) PROVE IInv'
  BY <1>0, <1>10, RowFailsIsMild, RowFailsTypes, MildKeeps
<1>11. ASSUME NEW k \in Tasks, ReadMeta(k) PROVE IInv'
  BY <1>0, <1>11, ReadMetaIsMild, ReadMetaTypes, MildKeeps
<1>12. ASSUME NEW k \in Tasks, Rehydrated(k) PROVE IInv'
  BY <1>12, RehydratedKeeps
<1>13. ASSUME NEW k \in Tasks, Unknown(k) PROVE IInv'
  BY <1>0, <1>13, UnknownIsMild, UnknownTypes, MildKeeps
<1>14. ASSUME NEW k \in Tasks, Refuse(k) PROVE IInv'
  BY <1>0, <1>14, RefuseIsMild, RefuseTypes, MildKeeps
<1>15. ASSUME NEW k \in Tasks, HandlerEnds(k) PROVE IInv'
  BY <1>0, <1>15, HandlerEndsIsMild, HandlerEndsTypes, MildKeeps
<1>16. ASSUME NEW k \in Tasks, OpenStream(k) PROVE IInv'
  BY <1>16, OpenStreamKeeps
<1>17. ASSUME NEW k \in Tasks, HandlerCleans(k) PROVE IInv'
  BY <1>17, HandlerCleansKeeps
<1>18. ASSUME NEW k \in Tasks, NEW x \in AppRooms, HandlerMembership(k, x) PROVE IInv'
  BY <1>0, <1>18, HandlerMembershipIsMild, HandlerMembershipTypes, MildKeeps
<1>19. ASSUME NEW k \in Tasks, LookUp(k) PROVE IInv'
  BY <1>0, <1>19, LookUpIsMild, LookUpTypes, MildKeeps
<1>20. ASSUME NEW k \in Tasks, Farewell(k) PROVE IInv'
  BY <1>0, <1>20, FarewellIsMild, FarewellTypes, MildKeeps
<1>21. ASSUME NEW k \in Tasks, Query(k) PROVE IInv'
  BY <1>0, <1>21, QueryIsMild, QueryTypes, MildKeeps
<1>22. ASSUME NEW k \in Tasks, Forget(k) PROVE IInv'
  BY <1>22, ForgetKeeps
<1>23. ASSUME NEW k \in Tasks, Close(k) PROVE IInv'
  BY <1>0, <1>23, CloseIsMild, CloseTypes, MildKeeps
<1>24. ASSUME NEW k \in Tasks, ReadFails(k) PROVE IInv'
  BY <1>0, <1>24, ReadFailsIsMild, ReadFailsTypes, MildKeeps
<1>25. ASSUME NEW k \in Tasks, NEW i \in Instances, Connect(k, i) PROVE IInv'
  BY <1>25, ConnectKeeps
<1>26. ASSUME NEW k \in Tasks, NEW i \in Instances, FrameServed(k, i) PROVE IInv'
  BY <1>26, FrameServedKeeps
<1>27. ASSUME NEW k \in Tasks, NEW i \in Instances, FrameUncached(k, i) PROVE IInv'
  BY <1>27, FrameUncachedKeeps
<1>28. ASSUME NEW k \in Tasks, NEW i \in Instances, Disconnected(k, i) PROVE IInv'
  BY <1>28, DisconnectedKeeps
<1>29. ASSUME NEW k \in Tasks, NEW i \in Instances, Gone(k, i) PROVE IInv'
  BY <1>29, GoneKeeps
<1>30. ASSUME NEW k \in Tasks, NEW i \in Instances, Kick(k, i) PROVE IInv'
  BY <1>30, KickKeeps
<1>31. ASSUME NEW x \in AppRooms, NEW join \in BOOLEAN, HookMembership(x, join) PROVE IInv'
  BY <1>0, <1>31, HookMembershipIsMild, HookMembershipTypes, MildKeeps
<1>32. CASE HookDisconnect
  BY <1>0, <1>32, HookDisconnectIsMild, HookDisconnectTypes, MildKeeps
<1>33. CASE StrayLands
  BY <1>0, <1>33, StrayLandsIsMild, StrayLandsTypes, MildKeeps
<1>34. CASE ClientCloses
  BY <1>0, <1>34, ClientClosesIsMild, ClientClosesTypes, MildKeeps
<1>35. CASE ByeLost
  BY <1>0, <1>35, ByeLostIsMild, ByeLostTypes, MildKeeps
<1>36. CASE SlowConnect
  BY <1>0, <1>36, SlowConnectIsMild, SlowConnectTypes, MildKeeps
<1>37. ASSUME NEW i \in Instances, Crash(i) PROVE IInv'
  BY <1>37, CrashKeeps
<1>38. ASSUME NEW k \in Tasks, Step(k) PROVE IInv'
  BY <1>38, <1>2, <1>3, <1>4, <1>5, <1>6, <1>7, <1>8, <1>9, <1>11, <1>12, <1>13, <1>14,
    <1>15, <1>16, <1>17, <1>18, <1>19, <1>20, <1>21, <1>22, <1>23 DEF Step
<1>39. ASSUME NEW k \in Tasks, NEW i \in Instances, Event(k, i) PROVE IInv'
  BY <1>39, <1>25, <1>26, <1>27, <1>28, <1>29, <1>30 DEF Event
<1> QED
  BY <1>1, <1>38, <1>39, <1>10, <1>24, <1>31, <1>32, <1>33, <1>34, <1>35, <1>36, <1>37 DEF Next

\* The invariant holds in every behaviour.
LEMMA Inductive == Spec => []IInv
<1>1. Init => IInv
  BY InitIInv
<1>2. IInv /\ [Next]_vars => IInv'
  BY NextKeeps
<1> QED
  BY <1>1, <1>2, PTL DEF Spec

\* The bridge's maps, the store's rows and the invocations are of their types: no
\* cache entry and no invocation holds a client object that was never made, and
\* accept() never goes past the memberships its hooks recorded.
THEOREM TypeCorrect == Spec => []TypeOK
<1>1. IInv => TypeOK
  BY DEF IInv
<1> QED
  BY <1>1, Inductive, PTL

\* Decide, then persist: whatever the hooks do, in whatever order, and whatever
\* fails or is delivered meanwhile, no row of the connection is in the table
\* before accept() has begun to write.
THEOREM NothingIsWrittenEarly == Spec => []NothingBeforeVerdict
<1>1. IInv => NothingBeforeVerdict
  BY DEF IInv, VerdictOK, Unwritten, NothingBeforeVerdict
<1> QED
  BY <1>1, Inductive, PTL

\* However many frames arrive together on a container, Nest is told of the
\* connection there once, and once more for every cleanup that made it forget.
THEOREM ToldOnce == Spec => []AnnouncedOnce
<1>1. IInv => AnnouncedOnce
  <2> SUFFICES ASSUME IInv, NEW i \in Instances
               PROVE  Cardinality({n \in announced : owner[n] = i}) <= 1 + forgets[i]
    BY DEF AnnouncedOnce
  <2> DEFINE all    == {n \in announced : owner[n] = i}
             former == Former(i)
  <2>1. all \subseteq former \cup {cached[i]}
    BY DEF Former
  <2>2. /\ IsFiniteSet(former) /\ Cardinality(former) \in Nat /\ Cardinality(former) <= forgets[i]
    BY FormersAreFinite DEF IInv, FormerOK
  <2>3. forgets[i] \in Nat
    BY DEF IInv, TypeOK, HistTypes
  <2> HIDE DEF all, former
  <2>4. /\ IsFiniteSet(former \cup {cached[i]})
        /\ \/ Cardinality(former \cup {cached[i]}) = Cardinality(former)
           \/ Cardinality(former \cup {cached[i]}) = Cardinality(former) + 1
    BY <2>2, FS_AddElement
  <2>5. Cardinality(all) <= Cardinality(former \cup {cached[i]}) /\ Cardinality(all) \in Nat
    BY <2>1, <2>4, FS_Subset, FS_CardinalityType
  <2>6. Cardinality(all) <= 1 + forgets[i]
    BY <2>2, <2>3, <2>4, <2>5
  <2> QED
    BY <2>6 DEF all
<1> QED
  BY <1>1, Inductive, PTL

\* Every client with a live Observable is the one its container has cached, and
\* so the one the next cleanup there unsubscribes, unless a cleanup and a frame of
\* the connection were under way on that container at once.
THEOREM NoStreamIsOrphaned == Spec => []NoOrphanStreams
<1>1. IInv => NoOrphanStreams
  BY DEF IInv, StreamsOK, NoOrphanStreams
<1> QED
  BY <1>1, Inductive, PTL
=============================================================================
