----------------------------- MODULE Container -----------------------------
(***************************************************************************)
(* One process that serves events: its boot, the routing of an event to    *)
(* its handler and of a frame to its protocol, and the DispatchScope that  *)
(* holds an answer back until the sends its handler dropped have settled.  *)
(* In lambda mode one event is served at a time, and the process freezes   *)
(* as soon as it is answered; in HTTP mode requests are concurrent.        *)
(*                                                                         *)
(* What a send puts on the wire is Connection's subject, what a broadcast  *)
(* becomes is Outbox's.  The events, the gateways' own code, the sends     *)
(* themselves and the freeze are external.                                 *)
(***************************************************************************)
EXTENDS Naturals, Sequences, FiniteSets

CONSTANTS
    Modes,      \* the ways to run considered, of "lambda" and "http"
    NEvents,    \* bound: the events are 1..NEvents, in the order they arrive
    MaxSends,   \* bound: sends and broadcasts made
    BootFaults  \* whether a bootstrap may fail

ASSUME ContainerAssumption ==
    /\ Modes \subseteq {"lambda", "http"}
    /\ NEvents \in Nat /\ MaxSends \in Nat /\ BootFaults \in BOOLEAN

VARIABLES
    mode,       \* how this process runs
    boot,       \* the memoized `ready` promise
    protocols,  \* the bridge's protocols, in registration order
    ev,         \* per event: where its dispatch is
    queue,      \* per event: its scope's pending sends
    inflight,   \* per event: those its settle() is awaiting
    sends,      \* every send and broadcast, in the order made
    streams     \* the events whose Observable is subscribed

scopeVars == <<queue, inflight>>
vars == <<mode, boot, protocols, ev, scopeVars, sends, streams>>

Events == 1..NEvents
\* "frame": an { event, data } frame; "gql": a graphql-transport-ws one; "records":
\* a batch of the stream; "odd": of no known shape or, over HTTP, without the
\* secret or not JSON.
Kinds  == {"frame", "gql", "connect", "disconnect", "records", "odd"}

Absent == [pc |-> "none", kind |-> "odd", claimed |-> "nobody", lingers |-> FALSE]

Init ==
    /\ mode \in Modes
    /\ boot = IF mode = "http" THEN "up" ELSE "cold"
    /\ protocols = IF mode = "http" THEN <<"nest", "gql">> ELSE <<>>
    /\ ev = [i \in Events |-> Absent]
    /\ queue = [i \in Events |-> {}] /\ inflight = [i \in Events |-> {}]
    /\ sends = <<>> /\ streams = {}

At(i, pc) == ev[i].pc = pc
Frozen    == mode = "lambda" /\ \A i \in Events : ev[i].pc \in {"none", "answered"}

-----------------------------------------------------------------------------
(* The boot                                                                 *)

\* Wrong on purpose, for the mutation runs: a failed bootstrap is run again.
ReadyRetried(promise) == IF promise \in {"cold", "failed"} THEN "booting" ELSE promise
\* ready ??= bootstrap(): a rejected promise is kept like any other.
Ready(promise) == IF promise = "cold" THEN "booting" ELSE promise

\* bridge.use(): nothing looks whether the bridge has it already.
Use(protocol) == protocols' = Append(protocols, protocol)

\* The adapter's constructor registers the { event, data } protocol.
AdapterMade ==
    /\ boot = "booting" /\ boot' = "adapted"
    /\ Use("nest")
    /\ UNCHANGED <<mode, ev, scopeVars, sends, streams>>

\* app.init() has built the schema, and GraphQL is enabled.
SchemaMade ==
    /\ boot = "adapted" /\ boot' = "up"
    /\ Use("gql")
    /\ UNCHANGED <<mode, ev, scopeVars, sends, streams>>

BootFails ==
    /\ BootFaults /\ boot \in {"booting", "adapted"} /\ boot' = "failed"
    /\ UNCHANGED <<mode, protocols, ev, scopeVars, sends, streams>>

-----------------------------------------------------------------------------
(* An event comes in, and is routed                                         *)

Arrive(i, kind) ==
    /\ At(i, "none") /\ \A j \in Events : j < i => ~At(j, "none")
    /\ mode = "lambda" => Frozen
    /\ mode = "http" => kind # "records"
    /\ ev' = [ev EXCEPT ![i] = [Absent EXCEPT !.pc = "waiting", !.kind = kind]]
    /\ boot' = Ready(boot)
    /\ UNCHANGED <<mode, protocols, scopeVars, sends, streams>>

\* Wrong on purpose: whoever registered first looks at a frame first.
AsRegistered(m, n) == m < n
Fallback(p) == p = "nest"
\* Protocols with a frame signature of their own get first refusal; position m is
\* asked before n.
Ordered(m, n) == IF Fallback(protocols[m]) = Fallback(protocols[n]) THEN m < n
                 ELSE Fallback(protocols[n])

\* Nest has no signature to recognise a frame by: it takes what it is shown.
Claims(p, kind) == p = "nest" \/ kind = "gql"
Claimant(kind) ==
    LET takers == {n \in DOMAIN protocols : Claims(protocols[n], kind)}
    IN IF takers = {} THEN "nobody"
       ELSE protocols[CHOOSE n \in takers : \A m \in takers \ {n} : Ordered(n, m)]

Begin(i) ==
    /\ At(i, "waiting") /\ boot = "up"
    /\ LET kind == ev[i].kind
       IN ev' = [ev EXCEPT ![i].pc = IF kind = "odd" THEN "answered" ELSE "running",
                           ![i].claimed = IF kind \in {"frame", "gql"} THEN Claimant(kind) ELSE @]
    /\ UNCHANGED <<mode, boot, protocols, scopeVars, sends, streams>>

\* Every event of a container whose bootstrap has failed is an error.
Poisoned(i) ==
    /\ At(i, "waiting") /\ boot = "failed"
    /\ ev' = [ev EXCEPT ![i].pc = "answered"]
    /\ UNCHANGED <<mode, boot, protocols, scopeVars, sends, streams>>

-----------------------------------------------------------------------------
(* The handler's sends, and the scope they are enqueued in                  *)

\* $disconnect and the flush run outside any.
Scoped(i) == ev[i].kind \in {"frame", "gql", "connect"}

\* Wrong on purpose: one module-level queue.
SharedQueue(i) == 1
Queue(i) == i

\* AsyncLocalStorage: a synchronous emission is in its emitter's context.
Context(i, s) == i

\* Made when no scope was open any more, or none had been opened.
Outside(i) == At(i, "answered") \/ ev[i].kind \in {"disconnect", "records"}

\* In which order the streams of a subject emit does not matter.
Orders(to) == {f \in [1..Cardinality(to) -> to] : \A m, n \in DOMAIN f : f[m] = f[n] => m = n}

\* Dispatch i sends one frame to the client of each event in "to".
Sends(i, to, waited) == \E f \in Orders(to) :
    LET frame(n) == [what |-> "frame", by |-> i, at |-> "flying", waited |-> waited,
                     outside |-> Outside(i), to |-> f[n]]
        held(q) == {n \in DOMAIN f : Queue(Context(i, f[n])) = q /\ Scoped(Context(i, f[n]))}
    IN /\ Len(sends) + Cardinality(to) <= MaxSends
       /\ sends' = sends \o [n \in DOMAIN f |-> frame(n)]
       /\ queue' = [q \in Events |-> queue[q] \cup {Len(sends) + n : n \in held(q)}]

\* client.emit, an @Ack callback, or the exception filter: nobody awaits it.
\* During $connect a client cannot be sent to, but enqueueBroadcast is there.
Emit(i) ==
    /\ At(i, "running") /\ ev[i].kind # "gql"
    /\ Sends(i, {i}, FALSE)
    /\ UNCHANGED <<mode, boot, protocols, ev, inflight, streams>>

\* The plain return of a @SubscribeMessage.
Answer(i) ==
    /\ At(i, "running") /\ ev[i].kind = "frame"
    /\ Sends(i, {i}, TRUE)
    /\ UNCHANGED <<mode, boot, protocols, ev, inflight, streams>>

\* A handler pushes to a subject: every live stream emits.
Push(i) ==
    /\ At(i, "running") /\ ev[i].kind \in {"frame", "gql"} /\ streams # {}
    /\ Sends(i, streams, FALSE)
    /\ UNCHANGED <<mode, boot, protocols, ev, inflight, streams>>

\* A call of its own, that no scope is told of: only its handler can await it.
Direct(i, what, waited) ==
    /\ At(i, "running") /\ Len(sends) < MaxSends
    /\ sends' = Append(sends, [what |-> what, by |-> i, at |-> "flying", waited |-> waited,
                               outside |-> Outside(i), to |-> i])
    /\ UNCHANGED <<mode, boot, protocols, ev, scopeVars, streams>>

\* server.to(room).emit appends a record, awaited if its handler awaits it.
Broadcast(i, waited) == Direct(i, "record", waited)

\* GraphQL answers with toConnectionRaw(), and awaits each of its answers.
AnswerRaw(i) == ev[i].kind = "gql" /\ Direct(i, "raw", TRUE)

\* The handler returns or throws; an Observable it returns is subscribed. It may
\* leave work behind, that sends later.
Return(i, lingers, observable) ==
    /\ At(i, "running")
    /\ \A n \in DOMAIN sends : sends[n].by = i /\ sends[n].waited => sends[n].at # "flying"
    /\ ev' = [ev EXCEPT ![i].pc = IF Scoped(i) THEN "settling" ELSE "answered",
                        ![i].lingers = lingers]
    /\ observable => ev[i].kind = "frame"
    /\ streams' = IF observable THEN streams \cup {i} ELSE streams
    /\ UNCHANGED <<mode, boot, protocols, scopeVars, sends>>

\* The connect hooks outlive connectTimeout, and go on unattended: what they
\* still await, the answer no longer does.
TimedOut(i) ==
    /\ At(i, "running") /\ ev[i].kind = "connect"
    /\ sends' = [n \in DOMAIN sends |->
                   IF sends[n].by = i THEN [sends[n] EXCEPT !.waited = FALSE] ELSE sends[n]]
    /\ ev' = [ev EXCEPT ![i].pc = IF Scoped(i) THEN "settling" ELSE "answered",
                        ![i].lingers = TRUE]
    /\ UNCHANGED <<mode, boot, protocols, scopeVars, streams>>

\* What was left behind sends, in the context it was started in.
Late(i) ==
    /\ ev[i].lingers /\ ev[i].pc \in {"settling", "answered"} /\ ~Frozen
    /\ Sends(i, {i}, FALSE)
    /\ ev' = [ev EXCEPT ![i].lingers = FALSE]
    /\ UNCHANGED <<mode, boot, protocols, inflight, streams>>

\* Wrong on purpose: what a send enqueues while it is awaited is left.
DrainOnce(i) == inflight[i] = {} /\ queue[Queue(i)] # {}
Again(i) == queue[Queue(i)] # {}

\* settle(): await everything that was pending, then look again.
Settle(i) ==
    /\ At(i, "settling")
    /\ \A n \in inflight[i] : sends[n].at # "flying"
    /\ IF Again(i)
       THEN /\ inflight' = [inflight EXCEPT ![i] = queue[Queue(i)]]
            /\ queue' = [queue EXCEPT ![Queue(i)] = {}]
            /\ UNCHANGED ev
       ELSE /\ ev' = [ev EXCEPT ![i].pc = "answered"]
            /\ UNCHANGED scopeVars
    /\ UNCHANGED <<mode, boot, protocols, sends, streams>>

Flying(n) == n \in DOMAIN sends /\ sends[n].at = "flying"

\* A send ends. If its socket is gone, onSendError's cleanup is over with it.
Land(n) ==
    /\ ~Frozen /\ Flying(n)
    /\ sends' = [sends EXCEPT ![n].at = "landed"]
    /\ streams' \in {streams, streams \ {sends[n].to}}
    /\ UNCHANGED <<mode, boot, protocols, ev, scopeVars>>

\* A frame it delivers makes its sender send again, before anyone is told.
LandAndReact(n) ==
    LET i == sends[n].by
        landed == [sends EXCEPT ![n].at = "landed"]
    IN /\ ~Frozen /\ Flying(n) /\ sends[n].what = "frame" /\ ~Outside(i)
       /\ Len(sends) < MaxSends
       /\ sends' = Append(landed, [sends[n] EXCEPT !.waited = FALSE, !.outside = FALSE, !.to = i])
       /\ queue' = [queue EXCEPT ![Queue(i)] = IF Scoped(i) THEN @ \cup {Len(sends) + 1} ELSE @]
       /\ UNCHANGED <<mode, boot, protocols, ev, inflight, streams>>

\* The process is frozen with a send half way.
FrozenMid(n) ==
    /\ Frozen /\ Flying(n)
    /\ sends' = [sends EXCEPT ![n].at = "lost"]
    /\ UNCHANGED <<mode, boot, protocols, ev, scopeVars, streams>>

-----------------------------------------------------------------------------

Next ==
    \/ AdapterMade \/ SchemaMade \/ BootFails
    \/ \E i \in Events :
         \/ \E kind \in Kinds : Arrive(i, kind)
         \/ Begin(i) \/ Poisoned(i)
         \/ Emit(i) \/ Answer(i) \/ AnswerRaw(i) \/ Push(i)
         \/ \E waited \in BOOLEAN : Broadcast(i, waited)
         \/ \E lingers, observable \in BOOLEAN : Return(i, lingers, observable)
         \/ TimedOut(i) \/ Late(i) \/ Settle(i)
    \/ \E n \in 1..MaxSends : Land(n) \/ LandAndReact(n) \/ FrozenMid(n)

Spec == Init /\ [][Next]_vars

-----------------------------------------------------------------------------
(* Properties                                                               *)

EventRecords ==
    [pc : {"none", "waiting", "running", "settling", "answered"}, kind : Kinds,
     claimed : {"nobody", "nest", "gql"}, lingers : BOOLEAN]
SendRecords ==
    [what : {"frame", "record", "raw"}, by : Events, at : {"flying", "landed", "lost"}, to : Events,
     waited : BOOLEAN, outside : BOOLEAN]

TypeOK ==
    /\ mode \in Modes
    /\ boot \in {"cold", "booting", "adapted", "up", "failed"}
    /\ protocols \in Seq({"nest", "gql"}) /\ Len(protocols) <= 2
    /\ ev \in [Events -> EventRecords]
    /\ sends \in Seq(SendRecords) /\ Len(sends) <= MaxSends
    /\ queue \in [Events -> SUBSET DOMAIN sends] /\ inflight \in [Events -> SUBSET DOMAIN sends]
    /\ streams \subseteq Events

\* No dispatch ever awaited these: a broadcast its handler did not await has no
\* place in the scope, and what is sent outside of a scope has none to be in.
Unattended(s) == ~s.waited /\ (s.outside \/ s.what # "frame")

\* When a dispatch answers, everything sent on its behalf while it was served is
\* through: the frames of its own handler, those its push made another client's
\* stream emit, those that only came about while the others were awaited, and the
\* broadcasts and GraphQL's answers its handler awaited. So the freeze of the
\* process, which follows on the answer, takes none of them half way.
SendsSettled == \A n \in DOMAIN sends :
    At(sends[n].by, "answered") => sends[n].at # "flying" \/ Unattended(sends[n])

\* A request never waits for the sends of another one it runs next to.
OwnSendsOnly == \A i \in Events, n \in DOMAIN sends :
    n \in queue[i] \cup inflight[i] => sends[n].by = i

\* A graphql-transport-ws frame is GraphQL's and any other is Nest's, although
\* Nest takes whatever it is shown and registers first.
RoutedToOwner == \A i \in Events :
    ev[i].claimed # "nobody" => ev[i].claimed = IF ev[i].kind = "gql" THEN "gql" ELSE "nest"

\* The bridge outlives a failed bootstrap, and never has a protocol twice: its
\* hooks would run twice for every connection.
RegisteredOnce == \A m, n \in DOMAIN protocols : protocols[m] = protocols[n] => m = n
=============================================================================
