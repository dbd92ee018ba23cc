----------------------------- MODULE Connection -----------------------------
(***************************************************************************)
(* The life of one connection across the instances that serve it:          *)
(* GatewayBridge's connect phase, the lazy rebuilding of its client on     *)
(* other instances, the frames' own joins and kicks, and cleanup, over the *)
(* rows DynamoConnectionStore keeps for it. Two connections share no state *)
(* here: every map and row is keyed by the connection id.                  *)
(*                                                                         *)
(* API Gateway (the socket), the application's hooks and handlers, and the *)
(* failures are external.                                                  *)
(***************************************************************************)
EXTENDS Naturals, Sequences, FiniteSets

CONSTANTS
    Instances,      \* containers running the bridge
    Tasks,          \* invocations that can be in progress at the same time
    None,           \* no task
    PerInstance,    \* how many of them one container runs: 1 on Lambda
    HookModes,      \* whether connect hooks are registered: a set of BOOLEANs
    ForeignModes,   \* whether a protocol's subprotocol is negotiated: likewise
    AppRooms,       \* the application's rooms
    Faults,         \* the kinds of failure considered
    MaxFaults,      \* bound: failures in one behaviour
    MaxStarts,      \* bound: invocations in one behaviour
    MaxMemberships  \* bound: join()/leave() calls of the connect hooks

FaultKinds == {"row", "staleQuery", "get", "close", "lostBye", "slowConnect", "crash"}

ASSUME ConnectionAssumption ==
    /\ None \notin Tasks /\ Instances # {}
    /\ PerInstance \in Nat \ {0}
    /\ HookModes \in SUBSET BOOLEAN /\ ForeignModes \in SUBSET BOOLEAN
    /\ "@@global" \notin AppRooms
    /\ Faults \subseteq FaultKinds
    /\ MaxFaults \in Nat /\ MaxStarts \in Nat /\ MaxMemberships \in Nat

VARIABLES
    hooks,          \* hasConnectHooks
    foreign,        \* $connect negotiated a protocol's subprotocol
    socket,         \* "new", "connecting", "open", "refused" or "closed"
    bye,            \* its $disconnect is still to be delivered
    rows,           \* the connection's rows in the Connections table
    attempt,        \* the ConnectAttempt of the client being connected
    applied,        \* how far accept() is: 0 = nothing written
    cached,         \* cached[i]: the client in bridge.clients, 0 = none
    lead,           \* lead[i]: the task whose read bridge.rehydrating shares
    owner,          \* owner[n]: the instance client object n lives on
    announced,      \* client objects Nest was told about
    streams,        \* client objects with live Observable subscriptions
    kind, inst, pc, \* per task: its trigger, its instance, where it is
    ref,            \* per task: the client object it works with, 0 = none
    todo,           \* per task: row operations a Promise.all waits for
    stray,          \* row operations still out after theirs gave up
    \* what the properties look at
    swept,          \* a store.remove has read the connection's rows
    farewells,      \* onDisconnect rounds that were given the client
    forgets,        \* forgets[i]: cleanups that finished on i
    crossed,        \* instances where a cleanup and a frame overlapped
    hungUp,         \* a disconnect() call has resolved
    excuses,        \* what went wrong that may leave rows behind
    faults, starts

storeVars  == <<rows, stray, swept>>
bridgeVars == <<cached, lead, owner, announced, streams>>
taskVars   == <<kind, inst, pc, ref, todo>>
connVars   == <<hooks, foreign, attempt, applied>>
sockVars   == <<socket, bye>>
histVars   == <<farewells, forgets, crossed, hungUp, excuses>>
vars == <<storeVars, bridgeVars, taskVars, connVars, sockVars, histVars, faults, starts>>

GLOBAL_ROOM == "@@global"
Rooms  == AppRooms \cup {GLOBAL_ROOM}
Meta   == <<"meta">>
Fwd(x) == <<"fwd", x>>
Rev(x) == <<"rev", x>>
RowsOf(x) == {Fwd(x), Rev(x)}
Rows   == {Meta} \cup UNION {RowsOf(x) : x \in Rooms}

Put(S) == {<<"put", row>> : row \in S}
Del(S) == {<<"del", row>> : row \in S}
Landed(ops) == (rows \cup {row \in Rows : <<"put", row>> \in ops})
                     \ {row \in Rows : <<"del", row>> \in ops}

CleanupPcs == {"lookup", "farewell", "blind", "query", "delete", "forget", "close"}
FramePcs   == {"restore", "await", "found", "missing", "handler", "write", "refuse"}
Causes     == FaultKinds \cup {"late", "early", "torn"}

Fault(f)    == f \in Faults /\ faults < MaxFaults /\ faults' = faults + 1
Goto(k, at) == pc' = [pc EXCEPT ![k] = at]
On(i)       == {k \in Tasks : pc[k] # "idle" /\ inst[k] = i}
\* Wrong on purpose, for the mutation runs: the cache is not looked at.
NeverCached(i) == 0
Cached(i) == cached[i]

Init ==
    /\ hooks \in HookModes /\ foreign \in ForeignModes
    /\ socket = "new" /\ bye = FALSE /\ rows = {}
    /\ attempt = [live |-> FALSE, refused |-> FALSE, joins |-> <<>>] /\ applied = 0
    /\ cached = [i \in Instances |-> 0] /\ lead = [i \in Instances |-> None]
    /\ owner = <<>> /\ announced = {} /\ streams = {}
    /\ kind = [k \in Tasks |-> "none"] /\ inst = [k \in Tasks |-> CHOOSE i \in Instances : TRUE]
    /\ pc = [k \in Tasks |-> "idle"] /\ ref = [k \in Tasks |-> 0]
    /\ todo = [k \in Tasks |-> {}] /\ stray = {}
    /\ swept = FALSE /\ farewells = 0 /\ forgets = [i \in Instances |-> 0]
    /\ crossed = {} /\ hungUp = FALSE /\ excuses = {} /\ faults = 0 /\ starts = 0

-----------------------------------------------------------------------------
(* What the actions share                                                  *)

\* API Gateway acts on the answer to $connect, unless it stopped waiting.
Answer(accepted) ==
    socket' = IF socket # "connecting" THEN socket ELSE IF accepted THEN "open" ELSE "refused"

\* The socket closes; a $disconnect event follows.
DropSocket ==
    IF socket = "open" THEN socket' = "closed" /\ bye' = TRUE ELSE UNCHANGED sockVars

\* An event starts a task, if its container has room for one more.
Start(k, i, trigger) ==
    /\ pc[k] = "idle" /\ starts < MaxStarts /\ starts' = starts + 1
    /\ Cardinality(On(i)) < PerInstance
    /\ kind' = [kind EXCEPT ![k] = trigger] /\ inst' = [inst EXCEPT ![k] = i]
    /\ UNCHANGED <<todo, faults>>

\* A put that lands behind the back of a cleanup leaves a row it never saw.
LateWrite(op) == excuses' = IF op[1] = "put" /\ swept THEN excuses \cup {"late"} ELSE excuses

\* One of the calls of a Promise.all is answered.
RowDone(k) == \E op \in todo[k] :
    /\ rows' = Landed({op})
    /\ todo' = [todo EXCEPT ![k] = @ \ {op}]
    /\ LateWrite(op)
    /\ UNCHANGED <<stray, swept, bridgeVars, kind, inst, pc, ref, connVars, sockVars,
                   farewells, forgets, crossed, hungUp, faults, starts>>

\* One of them fails, and Promise.all with it, or the query of store.remove
\* does. The others are not recalled, and the one that failed may have been
\* applied too. accept() goes on to undo, the rest answer 500: a failing undo
\* does so as well.
RowFails(k) ==
    /\ Fault("row") /\ (todo[k] # {} \/ pc[k] \in {"undo", "query"})
    /\ stray' = stray \cup todo[k]
    /\ todo' = [todo EXCEPT ![k] = {}]
    /\ excuses' = excuses \cup {"row"}
    /\ IF pc[k] = "apply" /\ hooks
       THEN Goto(k, "undo") /\ UNCHANGED sockVars
       ELSE Goto(k, "idle") /\ UNCHANGED bye
            /\ IF kind[k] = "connect" THEN Answer(FALSE) ELSE UNCHANGED socket
    /\ UNCHANGED <<rows, swept, bridgeVars, kind, inst, ref, connVars,
                   farewells, forgets, crossed, hungUp, starts>>

StrayLands == \E op \in stray :
    /\ rows' \in {Landed({op}), rows}
    /\ stray' = stray \ {op}
    /\ LateWrite(op)
    /\ UNCHANGED <<swept, bridgeVars, taskVars, connVars, sockVars,
                   farewells, forgets, crossed, hungUp, faults, starts>>

\* store.remove: a query of the partition CONN#id, which is not a consistent
\* read, and the deletes of what it returned. A forward row goes with the
\* reverse row that names it.
\* Wrong on purpose: only the rows of that partition are deleted.
OwnedOnly(seen) == Del({row \in seen : row[1] # "fwd"})
RemoveRows(seen) ==
    Del({row \in seen : row[1] # "fwd"} \cup {Fwd(row[2]) : row \in {q \in seen : q[1] = "rev"}})

QueryRows(k) ==
    /\ \/ UNCHANGED <<faults, excuses>> /\ todo' = [todo EXCEPT ![k] = RemoveRows(rows)]
       \/ /\ Fault("staleQuery") /\ excuses' = excuses \cup {"staleQuery"}
          /\ \E seen \in SUBSET rows : todo' = [todo EXCEPT ![k] = RemoveRows(seen)]
    /\ swept' = TRUE
    /\ UNCHANGED <<rows, stray, bridgeVars, kind, inst, ref, connVars, sockVars,
                   farewells, forgets, crossed, hungUp, starts>>

-----------------------------------------------------------------------------
(* $connect: decide, then persist                                          *)

Connect(k, i) ==
    /\ Start(k, i, "connect")
    /\ socket = "new" /\ socket' = "connecting"
    /\ IF hooks
       THEN /\ attempt' = [attempt EXCEPT !.live = TRUE]
            /\ owner' = Append(owner, i)
            /\ ref' = [ref EXCEPT ![k] = Len(owner) + 1]
            /\ Goto(k, "hooks")
       ELSE Goto(k, "add") /\ UNCHANGED <<attempt, owner, ref>>
    /\ UNCHANGED <<storeVars, cached, lead, announced, streams, hooks, foreign, applied, bye,
                   histVars>>

\* Wrong on purpose: joins are persisted at once.
HookJoinsAtOnce(x, join) ==
    /\ attempt.live
    /\ rows' = Landed(IF join THEN Put(RowsOf(x)) ELSE Del(RowsOf(x)))
    /\ UNCHANGED <<stray, swept, bridgeVars, taskVars, connVars, sockVars, histVars,
                   faults, starts>>

\* client.join/leave by a connect hook: recorded, not written. The hook may be
\* one that outlived connectTimeout, or an unawaited part of one.
HookMembership(x, join) ==
    /\ attempt.live /\ Len(attempt.joins) < MaxMemberships
    /\ attempt' = [attempt EXCEPT !.joins = Append(@, <<x, join>>)]
    /\ UNCHANGED <<storeVars, bridgeVars, taskVars, hooks, foreign, applied, sockVars,
                   histVars, faults, starts>>

\* client.disconnect() by a connect hook.
HookDisconnect ==
    /\ attempt.live /\ ~attempt.refused
    /\ attempt' = [attempt EXCEPT !.refused = TRUE]
    /\ hungUp' = TRUE
    /\ UNCHANGED <<storeVars, bridgeVars, taskVars, hooks, foreign, applied, sockVars,
                   farewells, forgets, crossed, excuses, faults, starts>>

\* A hook throws, the chain outlives connectTimeout, or one of them called
\* disconnect() before the chain returned.
HooksRefuse(k) ==
    /\ pc[k] = "hooks"
    /\ Answer(FALSE) /\ Goto(k, "idle")
    /\ UNCHANGED <<storeVars, bridgeVars, kind, inst, ref, todo, connVars, bye, histVars,
                   faults, starts>>

HooksAccept(k) ==
    /\ pc[k] = "hooks" /\ ~attempt.refused
    /\ Goto(k, "add")
    /\ UNCHANGED <<storeVars, bridgeVars, kind, inst, ref, todo, connVars, sockVars, histVars,
                   faults, starts>>

\* store.add, unless normaliseData finds client.data too large or no object.
AddMeta(k) ==
    /\ pc[k] = "add"
    /\ \/ Goto(k, "apply") /\ applied' = 1 /\ todo' = [todo EXCEPT ![k] = Put({Meta})]
       \/ hooks /\ Goto(k, "undo") /\ UNCHANGED <<applied, todo>>
    /\ UNCHANGED <<storeVars, bridgeVars, kind, inst, ref, hooks, foreign, attempt, sockVars,
                   histVars, faults, starts>>

\* The global room unless a foreign protocol was negotiated, then what the hooks
\* recorded, including what they go on recording during accept().
Plan == (IF foreign THEN <<>> ELSE <<<<GLOBAL_ROOM, TRUE>>>>) \o attempt.joins

\* Wrong on purpose: a leave() that the hooks recorded is not applied.
JoinsOnly(n) == Put(RowsOf(Plan[n][1]))
MembershipOps(n) == IF Plan[n][2] THEN Put(RowsOf(Plan[n][1])) ELSE Del(RowsOf(Plan[n][1]))

ApplyMembership(k) ==
    /\ pc[k] = "apply" /\ todo[k] = {} /\ applied <= Len(Plan)
    /\ todo' = [todo EXCEPT ![k] = MembershipOps(applied)]
    /\ applied' = applied + 1
    /\ UNCHANGED <<storeVars, bridgeVars, kind, inst, pc, ref, hooks, foreign, attempt, sockVars,
                   histVars, faults, starts>>

\* Everything is recorded: the attempt is over, and the client is cached here.
\* Without connect hooks there is no client yet.
Accepted(k) ==
    /\ pc[k] = "apply" /\ todo[k] = {} /\ applied > Len(Plan)
    /\ attempt' = [attempt EXCEPT !.live = FALSE]
    /\ cached' = IF hooks THEN [cached EXCEPT ![inst[k]] = ref[k]] ELSE cached
    /\ Answer(TRUE) /\ Goto(k, "idle")
    /\ UNCHANGED <<storeVars, lead, owner, announced, streams, kind, inst, ref, todo, hooks,
                   foreign, applied, bye, histVars, faults, starts>>

\* A connection that cannot be recorded whole is not accepted: store.remove.
Undo(k) == pc[k] = "undo" /\ Goto(k, "undoing") /\ QueryRows(k)

Undone(k) ==
    /\ pc[k] = "undoing" /\ todo[k] = {}
    /\ Answer(FALSE) /\ Goto(k, "idle")
    /\ UNCHANGED <<storeVars, bridgeVars, kind, inst, ref, todo, connVars, bye, histVars,
                   faults, starts>>

-----------------------------------------------------------------------------
(* A message frame: which client is it for?                                *)

\* Wrong on purpose: a new object whatever the cache says.
AlwaysNew(i) == Len(owner) + 1
\* The client in the cache, or a new object for this instance.
ClientFor(i) == IF Cached(i) # 0 THEN Cached(i) ELSE Len(owner) + 1

\* clients.set and announce(): the 'connection' event, once per object.
Serve(i, tasks) ==
    LET n == ClientFor(i)
    IN /\ owner' = IF Cached(i) # 0 THEN owner ELSE Append(owner, i)
       /\ cached' = [cached EXCEPT ![i] = n]
       /\ announced' = announced \cup {n}
       /\ ref' = [k \in Tasks |-> IF k \in tasks THEN n ELSE ref[k]]
       /\ pc' = [k \in Tasks |-> IF k \in tasks THEN "handler" ELSE pc[k]]

StartFrame(k, i) ==
    /\ Start(k, i, "frame") /\ socket = "open"
    /\ crossed' = IF \E q \in On(i) : pc[q] \in CleanupPcs THEN crossed \cup {i} ELSE crossed
    /\ UNCHANGED <<storeVars, streams, connVars, sockVars, farewells, forgets, hungUp, excuses>>

\* materialize() with a cached client, and ensureClient() without connect hooks.
FrameServed(k, i) ==
    /\ StartFrame(k, i) /\ (Cached(i) # 0 \/ ~hooks)
    /\ Serve(i, {k}) /\ UNCHANGED lead

\* materialize() without one: read the store, or share the read in flight.
FrameUncached(k, i) ==
    /\ StartFrame(k, i) /\ Cached(i) = 0 /\ hooks
    /\ IF lead[i] = None
       THEN lead' = [lead EXCEPT ![i] = k] /\ Goto(k, "restore")
       ELSE Goto(k, "await") /\ UNCHANGED lead
    /\ UNCHANGED <<cached, owner, announced, ref>>

\* store.get, a consistent read.
ReadMeta(k) ==
    /\ pc[k] = "restore"
    /\ Goto(k, IF Meta \in rows THEN "found" ELSE "missing")
    /\ UNCHANGED <<storeVars, bridgeVars, kind, inst, ref, todo, connVars, sockVars, histVars,
                   faults, starts>>

\* The frames that share k's read.
Sharing(k) == {k} \cup {q \in Tasks : pc[q] = "await" /\ inst[q] = inst[k]}
\* Wrong on purpose: the map entry is dropped only when the read succeeded.
LeadKept(k) == lead
LeadDone(k) == [lead EXCEPT ![inst[k]] = None]

ReadFails(k) ==
    /\ Fault("get") /\ pc[k] = "restore"
    /\ pc' = [q \in Tasks |-> IF q \in Sharing(k) THEN "idle" ELSE pc[q]]
    /\ lead' = LeadDone(k)
    /\ UNCHANGED <<storeVars, cached, owner, announced, streams, kind, inst, ref, todo, connVars,
                   sockVars, histVars, starts>>

\* rehydrate(): one that was cached meanwhile wins.
Rehydrated(k) ==
    /\ pc[k] = "found"
    /\ Serve(inst[k], Sharing(k))
    /\ lead' = [lead EXCEPT ![inst[k]] = None]
    /\ UNCHANGED <<storeVars, streams, kind, inst, todo, connVars, sockVars, histVars,
                   faults, starts>>

Unknown(k) ==
    /\ pc[k] = "missing"
    /\ pc' = [q \in Tasks |-> IF q \in Sharing(k) THEN "refuse" ELSE pc[q]]
    /\ lead' = [lead EXCEPT ![inst[k]] = None]
    /\ UNCHANGED <<storeVars, cached, owner, announced, streams, kind, inst, ref, todo, connVars,
                   sockVars, histVars, faults, starts>>

\* refuseUnknown(): 403, and the socket is closed, or the failure to close it logged.
Refuse(k) ==
    /\ pc[k] = "refuse" /\ Goto(k, "idle")
    /\ \/ DropSocket /\ UNCHANGED faults
       \/ Fault("close") /\ UNCHANGED sockVars
    /\ UNCHANGED <<storeVars, bridgeVars, kind, inst, ref, todo, connVars, histVars, starts>>

-----------------------------------------------------------------------------
(* ... and what its handler does with it. A handler does one of these; one   *)
(* that does more is as good as several frames.                              *)

HandlerEnds(k) ==
    /\ pc[k] = "handler" \/ (pc[k] = "write" /\ todo[k] = {})
    /\ Goto(k, "idle")
    /\ UNCHANGED <<storeVars, bridgeVars, kind, inst, ref, todo, connVars, sockVars, histVars,
                   faults, starts>>

\* It returns an Observable: client.subscriptions.push.
OpenStream(k) ==
    /\ pc[k] = "handler"
    /\ streams' = streams \cup {ref[k]}
    /\ Goto(k, "idle")
    /\ UNCHANGED <<storeVars, cached, lead, owner, announced, kind, inst, ref, todo, connVars,
                   sockVars, histVars, faults, starts>>

\* client.join / client.leave on an accepted connection: written now. Nothing
\* orders the two rows of one call, nor the calls of two frames.
Opposite(k, ops) == \E q \in Tasks \ {k}, row \in Rows :
    {<<"put", row>>, <<"del", row>>} \subseteq todo[q] \cup ops

HandlerMembership(k, x) ==
    /\ pc[k] = "handler"
    /\ \E ops \in {Put(RowsOf(x)), Del(RowsOf(x))} :
         /\ todo' = [todo EXCEPT ![k] = ops]
         /\ excuses' = IF Opposite(k, ops) THEN excuses \cup {"torn"} ELSE excuses
    /\ Goto(k, "write")
    /\ UNCHANGED <<storeVars, bridgeVars, kind, inst, ref, connVars, sockVars, farewells,
                   forgets, crossed, hungUp, faults, starts>>

-----------------------------------------------------------------------------
(* cleanup(): $disconnect, 410 Gone, or a kick                              *)

\* The client cached when it starts; none: with hooks, ask the store for one.
BeginCleanup(k, i) ==
    /\ ref' = [ref EXCEPT ![k] = Cached(i)]
    /\ Goto(k, IF Cached(i) # 0 THEN "farewell" ELSE IF hooks THEN "lookup" ELSE "blind")
    /\ crossed' = IF \E q \in On(i) \ {k} : pc[q] \in FramePcs THEN crossed \cup {i} ELSE crossed
    /\ UNCHANGED <<storeVars, bridgeVars, todo, connVars, farewells, forgets, hungUp, faults>>

Disconnected(k, i) ==
    /\ bye /\ bye' = FALSE
    /\ Start(k, i, "disconnect") /\ BeginCleanup(k, i)
    /\ UNCHANGED <<socket, excuses>>

\* A cleanup of a connection whose $connect has not been answered.
Early == excuses' = IF socket = "connecting" THEN excuses \cup {"early"} ELSE excuses

\* A broadcast or a stream posts to a socket that is not there, or not yet:
\* accept() has written the room rows before API Gateway has its answer.
Gone(k, i) ==
    /\ socket \in {"connecting", "closed", "refused"}
    /\ \/ \E x \in Rooms : Fwd(x) \in rows
       \/ \E n \in streams : owner[n] = i
    /\ Start(k, i, "gone") /\ BeginCleanup(k, i) /\ Early
    /\ UNCHANGED sockVars

\* bridge.disconnect(connectionId), by whoever knows the id.
Kick(k, i) ==
    /\ socket # "new"
    /\ Start(k, i, "kick") /\ BeginCleanup(k, i) /\ Early
    /\ UNCHANGED sockVars

\* A handler calls client.disconnect(), or its own send is answered 410.
HandlerCleans(k) ==
    /\ pc[k] = "handler"
    /\ \/ kind' = [kind EXCEPT ![k] = "kick"]
       \/ socket # "open" /\ kind' = [kind EXCEPT ![k] = "gone"]
    /\ BeginCleanup(k, inst[k])
    /\ UNCHANGED <<inst, sockVars, excuses, starts>>

\* Wrong on purpose: a client that is not cached is not looked up.
NoLookUp(k) ==
    /\ pc[k] = "lookup" /\ Goto(k, "blind")
    /\ UNCHANGED <<storeVars, bridgeVars, kind, inst, ref, todo, connVars, sockVars, histVars,
                   faults, starts>>

\* restore() for the protocols' sake; its failure is logged.
LookUp(k) ==
    /\ pc[k] = "lookup"
    /\ \/ /\ Goto(k, IF Meta \in rows THEN "farewell" ELSE "blind")
          /\ UNCHANGED <<excuses, faults>>
       \/ Fault("get") /\ excuses' = excuses \cup {"get"} /\ Goto(k, "blind")
    /\ UNCHANGED <<storeVars, bridgeVars, kind, inst, ref, todo, connVars, sockVars, farewells,
                   forgets, crossed, hungUp, starts>>

\* The gateways' handleDisconnect: they get the client, or are not called.
OnDisconnect(known) == farewells' = IF known THEN farewells + 1 ELSE farewells

\* Every protocol's onDisconnect, with the client if there is one.
Farewell(k) ==
    /\ pc[k] \in {"farewell", "blind"}
    /\ OnDisconnect(pc[k] = "farewell")
    /\ Goto(k, "query")
    /\ UNCHANGED <<storeVars, bridgeVars, kind, inst, ref, todo, connVars, sockVars,
                   forgets, crossed, hungUp, excuses, faults, starts>>

Query(k) == pc[k] = "query" /\ Goto(k, "delete") /\ QueryRows(k)

\* Wrong on purpose: the streams of the client stay subscribed.
KeepStreams(n) == streams
TearDown(n) == streams \ {n}

\* The rows are gone: unsubscribe what was cached at the start, and uncache
\* whatever is cached now.
Forget(k) ==
    /\ pc[k] = "delete" /\ todo[k] = {}
    /\ streams' = TearDown(ref[k])
    /\ cached' = [cached EXCEPT ![inst[k]] = 0]
    /\ forgets' = [forgets EXCEPT ![inst[k]] = @ + 1]
    /\ Goto(k, IF kind[k] = "kick" THEN "close" ELSE "idle")
    /\ UNCHANGED <<storeVars, lead, owner, announced, kind, inst, ref, todo, connVars, sockVars,
                   farewells, crossed, hungUp, excuses, faults, starts>>

\* publisher.disconnect: an already closed socket counts as done.
Close(k) ==
    /\ pc[k] = "close"
    /\ \/ DropSocket /\ hungUp' = TRUE /\ UNCHANGED faults
       \/ Fault("close") /\ UNCHANGED <<sockVars, hungUp>>
    /\ Goto(k, "idle")
    /\ UNCHANGED <<storeVars, bridgeVars, kind, inst, ref, todo, connVars, farewells, forgets,
                   crossed, excuses, starts>>

-----------------------------------------------------------------------------
(* API Gateway, and failures                                                *)

ClientCloses ==
    /\ socket = "open" /\ DropSocket
    /\ UNCHANGED <<storeVars, bridgeVars, taskVars, connVars, histVars, faults, starts>>

\* $disconnect is best effort.
ByeLost ==
    /\ Fault("lostBye") /\ bye /\ bye' = FALSE
    /\ excuses' = excuses \cup {"lostBye"}
    /\ UNCHANGED <<storeVars, bridgeVars, taskVars, connVars, socket, farewells, forgets,
                   crossed, hungUp, starts>>

\* API Gateway gives up on $connect while the invocation goes on: what follows
\* decide() is not bounded by connectTimeout.
SlowConnect ==
    /\ Fault("slowConnect") /\ socket = "connecting" /\ socket' = "refused"
    /\ excuses' = excuses \cup {"slowConnect"}
    /\ UNCHANGED <<storeVars, bridgeVars, taskVars, connVars, bye, farewells, forgets,
                   crossed, hungUp, starts>>

\* A container dies with its memory; the calls it sent may still land.
Crash(i) ==
    LET lost == On(i)
    IN /\ Fault("crash") /\ (lost # {} \/ cached[i] # 0)
       /\ stray' = stray \cup UNION {todo[k] : k \in lost}
       /\ todo' = [k \in Tasks |-> IF k \in lost THEN {} ELSE todo[k]]
       /\ pc' = [k \in Tasks |-> IF k \in lost THEN "idle" ELSE pc[k]]
       /\ cached' = [cached EXCEPT ![i] = 0] /\ lead' = [lead EXCEPT ![i] = None]
       /\ announced' = {n \in announced : owner[n] # i}
       /\ streams' = {n \in streams : owner[n] # i}
       /\ attempt' = IF attempt.live /\ owner[1] = i THEN [attempt EXCEPT !.live = FALSE] ELSE attempt
       /\ IF \E k \in lost : kind[k] = "connect" THEN Answer(FALSE) ELSE UNCHANGED socket
       /\ excuses' = IF lost = {} THEN excuses ELSE excuses \cup {"crash"}
       /\ UNCHANGED <<rows, swept, owner, kind, inst, ref, hooks, foreign, applied, bye,
                      farewells, forgets, crossed, hungUp, starts>>

-----------------------------------------------------------------------------

\* What a task does of its own accord until it has answered.
Step(k) ==
    \/ HooksRefuse(k) \/ HooksAccept(k) \/ AddMeta(k) \/ ApplyMembership(k) \/ Accepted(k)
    \/ Undo(k) \/ Undone(k) \/ RowDone(k)
    \/ ReadMeta(k) \/ Rehydrated(k) \/ Unknown(k) \/ Refuse(k)
    \/ HandlerEnds(k) \/ OpenStream(k) \/ HandlerCleans(k)
    \/ \E x \in AppRooms : HandlerMembership(k, x)
    \/ LookUp(k) \/ Farewell(k) \/ Query(k) \/ Forget(k) \/ Close(k)

Event(k, i) ==
    \/ Connect(k, i) \/ FrameServed(k, i) \/ FrameUncached(k, i)
    \/ Disconnected(k, i) \/ Gone(k, i) \/ Kick(k, i)

Next ==
    \/ \E k \in Tasks : Step(k) \/ RowFails(k) \/ ReadFails(k)
    \/ \E k \in Tasks, i \in Instances : Event(k, i)
    \/ \E x \in AppRooms, join \in BOOLEAN : HookMembership(x, join)
    \/ HookDisconnect
    \/ StrayLands \/ ClientCloses \/ ByeLost \/ SlowConnect
    \/ \E i \in Instances : Crash(i)

\* A running task goes on: AWS calls are answered, handlers return, and hooks
\* return or run into connectTimeout. Events and failures need not happen.
Fairness == \A k \in Tasks : WF_vars(Step(k))

Spec == Init /\ [][Next]_vars
FairSpec == Spec /\ Fairness

-----------------------------------------------------------------------------
(* Properties                                                               *)

TaskPcs == {"idle", "hooks", "add", "apply", "undo", "undoing"} \cup FramePcs \cup CleanupPcs

FlagTypes ==
    /\ hooks \in BOOLEAN /\ foreign \in BOOLEAN /\ bye \in BOOLEAN
    /\ swept \in BOOLEAN /\ hungUp \in BOOLEAN

ConnTypes ==
    /\ socket \in {"new", "connecting", "open", "refused", "closed"}
    /\ attempt \in [live : BOOLEAN, refused : BOOLEAN, joins : Seq(AppRooms \X BOOLEAN)]
    /\ Len(attempt.joins) <= MaxMemberships /\ applied \in 0..(MaxMemberships + 2)

StoreTypes == rows \subseteq Rows /\ stray \subseteq Put(Rows) \cup Del(Rows)

BridgeTypes ==
    /\ owner \in Seq(Instances)
    /\ cached \in [Instances -> 0..Len(owner)] /\ lead \in [Instances -> Tasks \cup {None}]
    /\ announced \subseteq 1..Len(owner) /\ streams \subseteq announced

TaskTypes ==
    /\ kind \in [Tasks -> {"none", "connect", "frame", "disconnect", "gone", "kick"}]
    /\ inst \in [Tasks -> Instances] /\ pc \in [Tasks -> TaskPcs]
    /\ ref \in [Tasks -> 0..Len(owner)]
    /\ todo \in [Tasks -> SUBSET (Put(Rows) \cup Del(Rows))]

HistTypes ==
    /\ farewells \in Nat /\ forgets \in [Instances -> Nat] /\ crossed \subseteq Instances
    /\ excuses \subseteq Causes
    /\ faults \in 0..MaxFaults /\ starts \in 0..MaxStarts

TypeOK == FlagTypes /\ ConnTypes /\ StoreTypes /\ BridgeTypes /\ TaskTypes /\ HistTypes

AllIdle == \A k \in Tasks : pc[k] = "idle"
Quiet   == AllIdle /\ ~bye /\ stray = {}

\* When nothing runs for a connection that is gone, none of its rows are left,
\* in any room, unless one of the named failures or races happened: no schedule
\* of $disconnect, kicks, 410s and frames leaves a ghost of itself.
GhostsExplained ==
    Quiet /\ socket \in {"closed", "refused"} => rows = {} \/ excuses # {}

\* The rooms a connection is in after accept(): its last word on each.
Remembered(x) == \E n \in DOMAIN Plan :
    Plan[n] = <<x, TRUE>> /\ \A m \in DOMAIN Plan : m > n => Plan[m][1] # x
WholeRows == {Meta} \cup UNION {RowsOf(x) : x \in {y \in Rooms : Remembered(y)}}

\* A connection that cannot be recorded whole is not accepted: when API Gateway
\* is answered 200, exactly the rows of the hooks' final say exist, whatever
\* failed on the way, unless a kick or a 410 cleaned up after it meanwhile.
AcceptedWhole ==
    [][socket = "connecting" /\ socket' = "open" => rows = WholeRows \/ "early" \in excuses]_vars

\* Decide, then persist: until accept() starts nothing is written, so hooks that
\* refuse, or go on joining rooms after connectTimeout, leave nothing behind.
NothingBeforeVerdict == applied = 0 => rows = {}

\* With connect hooks, the application hears of the end of a connection it
\* accepted, with the client in hand, unless one of the named failures happened.
FarewellSaid ==
    hooks /\ Quiet /\ socket = "closed" => farewells > 0 \/ excuses # {}

\* A live stream belongs to the client object its instance will tear down, except
\* where a cleanup and a frame of the connection overlapped on that instance.
NoOrphanStreams ==
    \A n \in streams : cached[owner[n]] = n \/ owner[n] \in crossed

\* Nest is told about a connection once per instance, however many frames arrive
\* together, until a cleanup there makes the instance forget it.
AnnouncedOnce ==
    \A i \in Instances : Cardinality({n \in announced : owner[n] = i}) <= 1 + forgets[i]

\* Every invocation answers, frames waiting for each other's read included.
Answered == \A k \in Tasks : pc[k] # "idle" ~> pc[k] = "idle"

\* A $disconnect that follows a resolved kick of an accepted connection finds
\* nothing left to clean: no client, so no second onDisconnect with one.
KickIsFinal ==
    [][\A k \in Tasks :
         pc[k] = "idle" /\ pc'[k] = "farewell" /\ kind'[k] = "disconnect"
         => ~hungUp \/ attempt.refused \/ "early" \in excuses]_vars

\* remove() clears every room on disconnect: with no failure, and nothing written
\* behind its back, two frames' join() and leave() at the same time included.
RemoveClears ==
    Quiet /\ socket = "closed" => rows = {} \/ excuses \ {"torn"} # {}
=============================================================================
