------------------------------ MODULE Emulator -----------------------------
(***************************************************************************)
(* The local emulator around the bridge: hand-made upgrades that dispatch  *)
(* $connect first, sockets whose frames and close it dispatches, and       *)
(* reload(), which swaps the Nest app and its bridge under live sockets.   *)
(* All instances share InMemoryConnectionStore, the in-memory subscription *)
(* registry and LocalSocketRegistry.                                       *)
(*                                                                         *)
(* One frame of a socket is in progress at a time. The clients, the ws     *)
(* library and the gateways' own code are external.                        *)
(***************************************************************************)
EXTENDS Naturals, FiniteSets

CONSTANTS
    Conns,      \* connection ids, each used by one upgrade
    Errors,     \* what connect hooks throw: [shape, status]
    Faults,     \* the kinds of failure considered
    MaxReloads  \* bound: the instances are 0..MaxReloads

Shapes == {"rejected", "http", "ws", "other"}

ASSUME EmulatorAssumption ==
    /\ Errors \subseteq [shape : Shapes, status : Nat]
    /\ Faults \subseteq {"reload", "handshake"} /\ MaxReloads \in Nat

VARIABLES
    upgrade,    \* per connection: where the emulator is with it
    client,     \* per connection: what its client sees
    on,         \* per connection: the instance that serves its $connect, or $disconnect
    offers,     \* the connections whose client offers graphql-transport-ws
    proto,      \* per connection: the negotiated subprotocol
    frame,      \* per connection: its frame in progress, and on which instance
    conns, global, rooms, \* the store: META, the global room, another room
    subs,       \* the subscription registry
    cached,     \* <<instance, connection>>: the bridges' client maps
    current,    \* the instance bridge and app are
    reloads,    \* per instance: the reload that builds it
    closed,     \* the instances whose app is closed
    ending,     \* close() has been called
    \* what the properties look at
    status,     \* per connection: the status its refusal was answered with
    kicked, took, \* closed by the server; served a join or a subscribe
    excuses     \* <<what, connection>> that may leave rows, or "overlap"

connVars  == <<upgrade, client, on, offers, proto, status>>
storeVars == <<conns, global, rooms, subs>>
appVars   == <<current, reloads, closed, ending>>
vars == <<connVars, frame, storeVars, cached, appVars, kicked, took, excuses>>

Instances == 0..MaxReloads
NoFrame   == [pc |-> "none", at |-> 0]

Init ==
    /\ upgrade = [c \in Conns |-> "none"] /\ client = [c \in Conns |-> "none"]
    /\ on = [c \in Conns |-> 0] /\ offers = {} /\ proto = [c \in Conns |-> "none"]
    /\ status = [c \in Conns |-> 0]
    /\ frame = [c \in Conns |-> NoFrame]
    /\ conns = {} /\ global = {} /\ rooms = {} /\ subs = {} /\ cached = {}
    /\ current = 0 /\ closed = {} /\ ending = FALSE
    /\ reloads = [r \in Instances |-> [pc |-> IF r = 0 THEN "done" ELSE "none", previous |-> 0]]
    /\ kicked = {} /\ took = {} /\ excuses = {}

-----------------------------------------------------------------------------
(* The upgrade                                                              *)

\* GraphQL is enabled on an instance once it is built.
Wired(r) == reloads[r].pc \in {"closing", "done"}
\* The first offered subprotocol a registered protocol answers to.
Negotiate(c, r, gql) == IF gql /\ Wired(r) THEN "gql" ELSE "none"

\* Wrong on purpose, for the mutation runs: the status is taken as it comes.
StatusAsIs(err) == err.status
StatusOf(err) ==
    LET between(lo, hi, or) == IF err.status \in lo..hi THEN err.status ELSE or
    IN CASE err.shape = "rejected" -> between(400, 599, 500)
         [] err.shape = "http"     -> between(400, 499, 500)
         [] err.shape = "ws"       -> between(400, 499, 401)
         [] OTHER                  -> 500

\* $connect is dispatched to the current bridge before the handshake completes.
Upgrade(c, gql) ==
    /\ upgrade[c] = "none" /\ ~ending
    /\ upgrade' = [upgrade EXCEPT ![c] = "deciding"]
    /\ client' = [client EXCEPT ![c] = "waiting"]
    /\ on' = [on EXCEPT ![c] = current]
    /\ offers' = IF gql THEN offers \cup {c} ELSE offers
    /\ proto' = [proto EXCEPT ![c] = Negotiate(c, current, gql)]
    /\ UNCHANGED <<frame, storeVars, cached, appVars, status, kicked, took, excuses>>

\* A hook throws, or outlives its time; or its data is refused, after which the
\* store is told to forget what it has not been told.
HooksRefuse(c, err) ==
    /\ upgrade[c] = "deciding"
    /\ status' = [status EXCEPT ![c] = StatusOf(err)]
    /\ IF StatusOf(err) \in 200..299
       THEN upgrade' = [upgrade EXCEPT ![c] = "answered"] /\ UNCHANGED client
       ELSE upgrade' = [upgrade EXCEPT ![c] = "refused"] /\ client' = [client EXCEPT ![c] = "gone"]
    /\ UNCHANGED <<on, offers, proto, frame, storeVars, cached, appVars, kicked, took, excuses>>

\* accept(): the META row.
HooksAccept(c) ==
    /\ upgrade[c] = "deciding"
    /\ upgrade' = [upgrade EXCEPT ![c] = "joining"]
    /\ conns' = conns \cup {c}
    /\ UNCHANGED <<client, on, offers, proto, frame, global, rooms, subs, cached, appVars, status,
                   kicked, took, excuses>>

\* The global room, for { event, data } sockets only; then the client is cached.
Accepted(c) ==
    /\ upgrade[c] = "joining"
    /\ upgrade' = [upgrade EXCEPT ![c] = "answered"]
    /\ global' = IF proto[c] = "none" THEN global \cup {c} ELSE global
    /\ cached' = cached \cup {<<on[c], c>>}
    /\ UNCHANGED <<client, on, offers, proto, frame, conns, rooms, subs, appVars, status, kicked,
                   took, excuses>>

\* Wrong on purpose: the upgrade does not look whether anybody is still there.
NotAsked(c) == FALSE
HungUp(c) == client[c] = "gone"

\* The response is 2xx. If the client is still there, ws completes the handshake,
\* unless it finds fault with the request, or is closing: then it answers by
\* itself, and nobody undoes the $connect.
Finish(c) ==
    LET becomes(pc, sees) == /\ upgrade' = [upgrade EXCEPT ![c] = pc]
                             /\ client' = [client EXCEPT ![c] = sees]
    IN /\ upgrade[c] = "answered"
       /\ \/ HungUp(c) /\ becomes("bye", "gone") /\ UNCHANGED excuses
          \/ ~HungUp(c) /\ client[c] = "gone" /\ becomes("aborted", "gone") /\ UNCHANGED excuses
          \/ /\ client[c] = "waiting" /\ ~ending
             /\ becomes("open", "open") /\ UNCHANGED excuses
          \/ /\ client[c] = "waiting" /\ (ending \/ "handshake" \in Faults)
             /\ becomes("aborted", "gone") /\ excuses' = excuses \cup {<<"aborted", c>>}
       /\ on' = [on EXCEPT ![c] = current]
       /\ UNCHANGED <<offers, proto, frame, storeVars, cached, appVars, status, kicked, took>>

-----------------------------------------------------------------------------
(* Frames                                                                   *)

\* The current bridge gets it. A cached client is served without a read.
FrameArrives(c) ==
    /\ upgrade[c] = "open" /\ client[c] \in {"open", "closing"} /\ frame[c] = NoFrame
    /\ frame' = [frame EXCEPT ![c] = [at |-> current,
                    pc |-> IF <<current, c>> \in cached THEN "serving" ELSE "reading"]]
    /\ UNCHANGED <<connVars, storeVars, cached, appVars, kicked, took, excuses>>

\* The store answers: the client is rebuilt, and cached.
Rehydrated(c) ==
    /\ frame[c].pc = "reading" /\ c \in conns
    /\ frame' = [frame EXCEPT ![c].pc = "serving"]
    /\ cached' = cached \cup {<<frame[c].at, c>>}
    /\ UNCHANGED <<connVars, storeVars, appVars, kicked, took, excuses>>

\* The server closes the socket: its client finds out, and ws closes it in turn.
ServerCloses(c) == client' = [client EXCEPT ![c] = IF @ = "open" THEN "closing" ELSE @]

\* Unknown to the store: refused, and closed.
RefuseUnknown(c) ==
    /\ frame[c].pc = "reading" /\ c \notin conns
    /\ frame' = [frame EXCEPT ![c] = NoFrame]
    /\ ServerCloses(c) /\ kicked' = kicked \cup {c}
    /\ UNCHANGED <<upgrade, on, offers, proto, status, storeVars, cached, appVars, took, excuses>>

\* A handler joins a room; on a GraphQL socket, a subscription is registered.
HandlerJoins(c) ==
    /\ frame[c].pc = "serving"
    /\ frame' = [frame EXCEPT ![c] = NoFrame]
    /\ IF proto[c] = "gql" THEN subs' = subs \cup {c} /\ UNCHANGED rooms
                           ELSE rooms' = rooms \cup {c} /\ UNCHANGED subs
    /\ took' = took \cup {c}
    /\ UNCHANGED <<connVars, conns, global, cached, appVars, kicked, excuses>>

\* A handler kicks its client: the cleanup, then the socket.
HandlerKicks(c) ==
    /\ frame[c].pc = "serving"
    /\ frame' = [frame EXCEPT ![c].pc = "kicking"]
    /\ kicked' = kicked \cup {c}
    /\ UNCHANGED <<connVars, storeVars, cached, appVars, took, excuses>>

\* cleanup(): the protocols' rows, then the store's and the cached client.
ProtocolsClean(c) == subs' = subs \ {c} /\ UNCHANGED <<conns, global, rooms, cached>>
StoreCleans(c, r) ==
    /\ conns' = conns \ {c} /\ global' = global \ {c} /\ rooms' = rooms \ {c}
    /\ cached' = cached \ {<<r, c>>}
    /\ UNCHANGED subs

KickCleans(c) ==
    /\ frame[c].pc = "kicking"
    /\ frame' = [frame EXCEPT ![c].pc = "kicked"]
    /\ ProtocolsClean(c)
    /\ UNCHANGED <<connVars, appVars, kicked, took, excuses>>

KickCloses(c) ==
    /\ frame[c].pc = "kicked"
    /\ frame' = [frame EXCEPT ![c] = NoFrame]
    /\ StoreCleans(c, frame[c].at) /\ ServerCloses(c)
    /\ UNCHANGED <<upgrade, on, offers, proto, status, appVars, kicked, took, excuses>>

-----------------------------------------------------------------------------
(* The socket closes                                                        *)

HangUp(c) ==
    /\ client[c] \in {"waiting", "open", "closing"}
    /\ client' = [client EXCEPT ![c] = "gone"]
    /\ UNCHANGED <<upgrade, on, offers, proto, status, frame, storeVars, cached, appVars, kicked,
                   took, excuses>>

\* $disconnect is dispatched, next to a frame that may still be served.
SocketClosed(c) ==
    /\ upgrade[c] = "open" /\ client[c] = "gone"
    /\ upgrade' = [upgrade EXCEPT ![c] = "bye"]
    /\ on' = [on EXCEPT ![c] = current]
    /\ excuses' = IF frame[c].pc \in {"reading", "serving"}
                  THEN excuses \cup {<<"crossed", c>>} ELSE excuses
    /\ UNCHANGED <<client, offers, proto, status, frame, storeVars, cached, appVars, kicked, took>>

ByeCleans(c) ==
    /\ upgrade[c] = "bye"
    /\ upgrade' = [upgrade EXCEPT ![c] = "removing"]
    /\ ProtocolsClean(c)
    /\ UNCHANGED <<client, on, offers, proto, status, frame, appVars, kicked, took, excuses>>

ByeDone(c) ==
    /\ upgrade[c] = "removing"
    /\ upgrade' = [upgrade EXCEPT ![c] = "done"]
    /\ StoreCleans(c, on[c])
    /\ UNCHANGED <<client, on, offers, proto, status, frame, appVars, kicked, took, excuses>>

-----------------------------------------------------------------------------
(* reload() and close()                                                     *)

\* Wrong on purpose: the bridge is swapped before the app is built around it.
SwappedFirst(r) == r
BridgeDuring(r) == current

Reload(r) ==
    /\ reloads[r].pc = "none" /\ r > 0 /\ reloads[r - 1].pc # "none" /\ ~ending
    /\ reloads' = [reloads EXCEPT ![r] = [pc |-> "building", previous |-> current]]
    /\ current' = BridgeDuring(r)
    /\ excuses' = IF \E q \in Instances : reloads[q].pc = "building"
                  THEN excuses \cup {<<"overlap", r>>} ELSE excuses
    /\ UNCHANGED <<connVars, frame, storeVars, cached, closed, ending, kicked, took>>

\* The app cannot be built: the instance in place stays.
ReloadFails(r) ==
    /\ "reload" \in Faults /\ reloads[r].pc = "building"
    /\ reloads' = [reloads EXCEPT ![r].pc = "failed"]
    /\ UNCHANGED <<connVars, frame, storeVars, cached, current, closed, ending, kicked, took,
                   excuses>>

\* Wrong on purpose: every instance makes itself a store and a registry.
OfItsOwn(rows) == {}
Shared(rows) == rows

\* Wrong on purpose: the instance to close is looked up after the swap.
AfterTheSwap(r) == r
Previous(r) == reloads[r].previous

\* GraphQL is enabled, and the new instance takes over.
ReloadSwaps(r) ==
    /\ reloads[r].pc = "building"
    /\ current' = r
    /\ reloads' = [reloads EXCEPT ![r] = [pc |-> "closing", previous |-> Previous(r)]]
    /\ conns' = Shared(conns) /\ global' = Shared(global) /\ rooms' = Shared(rooms)
    /\ subs' = Shared(subs)
    /\ UNCHANGED <<connVars, frame, cached, closed, ending, kicked, took, excuses>>

\* The old instance goes once the new one is live.
ReloadCloses(r) ==
    /\ reloads[r].pc = "closing"
    /\ closed' = closed \cup {reloads[r].previous}
    /\ reloads' = [reloads EXCEPT ![r].pc = "done"]
    /\ UNCHANGED <<connVars, frame, storeVars, cached, current, ending, kicked, took, excuses>>

\* Every open socket is terminated, and no further upgrade succeeds.
Close ==
    /\ ~ending /\ ending' = TRUE
    /\ client' = [c \in Conns |-> IF upgrade[c] = "open" THEN "gone" ELSE client[c]]
    /\ UNCHANGED <<upgrade, on, offers, proto, status, frame, storeVars, cached, current, reloads,
                   closed, kicked, took, excuses>>

\* server.close() is back when no socket is left, and the app goes.
Ended ==
    /\ ending /\ \A c \in Conns : client[c] \in {"none", "gone"}
    /\ closed' = closed \cup {current} /\ closed' # closed
    /\ UNCHANGED <<connVars, frame, storeVars, cached, current, reloads, ending, kicked, took,
                   excuses>>

-----------------------------------------------------------------------------

\* What the emulator does of its own accord about a connection.
Step(c) ==
    \/ HooksAccept(c) \/ Accepted(c) \/ Finish(c)
    \/ Rehydrated(c) \/ RefuseUnknown(c) \/ HandlerJoins(c) \/ KickCleans(c) \/ KickCloses(c)
    \/ SocketClosed(c) \/ ByeCleans(c) \/ ByeDone(c)

Next ==
    \/ \E c \in Conns :
         \/ Step(c)
         \/ \E gql \in BOOLEAN : Upgrade(c, gql)
         \/ \E err \in Errors : HooksRefuse(c, err)
         \/ FrameArrives(c) \/ HandlerKicks(c) \/ HangUp(c)
    \/ \E r \in Instances : Reload(r) \/ ReloadFails(r) \/ ReloadSwaps(r) \/ ReloadCloses(r)
    \/ Close \/ Ended

\* Handlers return, the in-memory store answers, and ws reports a closed socket.
Fairness == \A c \in Conns : WF_vars(Step(c))

Spec == Init /\ [][Next]_vars /\ Fairness

-----------------------------------------------------------------------------
(* Properties                                                               *)

TypeOK ==
    /\ upgrade \in [Conns -> {"none", "deciding", "joining", "answered", "refused", "aborted",
                              "open", "bye", "removing", "done"}]
    /\ client \in [Conns -> {"none", "waiting", "open", "closing", "gone"}]
    /\ on \in [Conns -> Instances] /\ offers \subseteq Conns /\ proto \in [Conns -> {"none", "gql"}]
    /\ status \in [Conns -> {0} \cup 400..599]
    /\ frame \in [Conns -> [pc : {"none", "reading", "serving", "kicking", "kicked"},
                            at : Instances]]
    /\ conns \subseteq Conns /\ global \subseteq Conns /\ rooms \subseteq Conns /\ subs \subseteq Conns
    /\ cached \subseteq Instances \X Conns
    /\ current \in Instances /\ closed \subseteq Instances /\ ending \in BOOLEAN
    /\ reloads \in [Instances -> [pc : {"none", "building", "failed", "closing", "done"},
                                  previous : Instances]]
    /\ kicked \subseteq Conns /\ took \subseteq Conns
    /\ excuses \subseteq ({"aborted", "crossed"} \X Conns) \cup ({"overlap"} \X Instances)

Excused(c) == \E e \in excuses : e[2] = c /\ e[1] # "overlap"
Rows(c)    == c \in conns \cup global \cup rooms \cup subs

\* Whoever hangs up during $connect, closes, is kicked or is refused leaves no
\* row, on whichever instance each step ran: unless a frame was being served as
\* the socket closed, or ws refused a handshake $connect had accepted.
LeavesNoRows == \A c \in Conns :
    upgrade[c] \in {"refused", "aborted", "done"} => ~Rows(c) \/ Excused(c)

\* An open socket is one the store knows, with what it has joined, before, during
\* and after any number of reloads: unless the server is closing it, or it was
\* served a frame as it closed.
OpenIsKnown == \A c \in Conns :
    upgrade[c] = "open" /\ c \notin kicked =>
        /\ c \in conns /\ (c \in global <=> proto[c] = "none")
        /\ c \in took => c \in rooms \cup subs

\* A client that offers graphql-transport-ws gets it from every instance, and is
\* never sent an { event, data } broadcast.
GraphQLNegotiated == \A c \in offers :
    upgrade[c] \notin {"none", "refused"} => proto[c] = "gql" /\ c \notin global

\* The old instance goes once the new one is live: when no reload is in progress
\* the current instance is the only one, unless two reloads overlapped.
OneInstance ==
    /\ current \notin closed \/ ending
    /\ (\A r \in Instances : reloads[r].pc \notin {"building", "closing"}) =>
         \/ \A r \in Instances \ {current} : reloads[r].pc = "done" => r \in closed
         \/ \E e \in excuses : e[1] = "overlap"

\* Whatever a connection's client goes through, the emulator forgets it for good
\* some time after it is gone.
Forgotten == \A c \in Conns : client[c] = "gone" ~> [](~Rows(c) \/ Excused(c))
=============================================================================
