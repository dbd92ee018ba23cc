--------------------------- MODULE Subscriptions ---------------------------
(***************************************************************************)
(* The GraphQL subscriptions of one socket: GraphQLWsHandler's frames and  *)
(* deliveries over the rows DynamoSubscriptionRegistry keeps, each in an   *)
(* invocation of its own, and ApiGwPubSub's two modes. Two sockets share   *)
(* no row, no id and no ledger key, so one is enough; what the Flusher     *)
(* does around a delivery is Outbox's subject and is reduced to claims,    *)
(* failures that retry the record, and the 410 that cleans up.             *)
(*                                                                         *)
(* The client, the publishers and the failures are external.               *)
(***************************************************************************)
EXTENDS Naturals, Sequences, FiniteSets

CONSTANTS
    Tasks,      \* invocations that can be in progress at the same time
    Topics,     \* topics a subscription field may register
    NIds,       \* the ids the client uses are 1..NIds
    PageSize,   \* rows on one page of a Query
    Rejected,   \* <<message, id>>: what the filter of a subscription rejects
    Faults,     \* the kinds of failure considered
    MaxFaults,  \* bound: failures in one behaviour
    MaxStarts,  \* bound: frames the client sends
    MaxMessages \* bound: messages published

FaultKinds == {"row", "send", "crash", "drift", "lostBye"}

ASSUME SubscriptionsAssumption ==
    /\ "rev" \notin Topics
    /\ NIds \in Nat \ {0} /\ PageSize \in Nat \ {0}
    /\ Rejected \subseteq Nat \X Nat /\ Faults \subseteq FaultKinds
    /\ MaxFaults \in Nat /\ MaxStarts \in Nat /\ MaxMessages \in Nat

VARIABLES
    socket, bye,     \* "open" or "closed"; its $disconnect is still to come
    rows,            \* the registry: which subscribe wrote each row, 0 = none
    asked,           \* the subscribe frames that reached the capture stage
    messages,        \* the topics of the outbox records, in order
    flushed,         \* the records the stream is done with
    claims,          \* the ledger: deliveries claimed or made
    task,            \* per invocation: where it is, and what it works on
    \* what the properties look at
    live,            \* the subscribe the client holds under each id, 0 = none
    ready,           \* subscribes whose registration has resolved
    owed, got,       \* <<record, id, subscribe>>: next frames due, and sent
    late,            \* records published once socket and subscribes were over
    excuses,         \* what happened that may leave or take rows
    faults, starts

sockVars   == <<socket, bye>>
clientVars == <<live, owed>>
outVars    == <<messages, flushed, late>>
vars == <<sockVars, clientVars, rows, asked, ready, outVars, claims, got, task, excuses, faults,
          starts>>

Ids     == 1..NIds
End     == NIds + 1
Fwd(t, id) == <<t, id>>
Rev(id)    == <<"rev", id>>
Keys    == (Topics \cup {"rev"}) \X Ids
Subs    == 0..Len(asked)

\* id, sub: the id and the subscribe it is about; msg: the record it flushes, 0
\* for a frame; cursor, targets: how far its fan-out has paged, and whom it
\* found; sweep: how far removeAll has paged; mode: the topics capture mode has
\* collected; todo: the row operations its Promise.all waits for.
Idle == [pc |-> "idle", id |-> 0, sub |-> 0, msg |-> 0, cursor |-> 0, targets |-> {},
         sweep |-> 0, mode |-> {}, todo |-> {}]

Fault(f)     == f \in Faults /\ faults < MaxFaults /\ faults' = faults + 1
Excuse(e)    == excuses' = excuses \cup e
Become(k, r) == task' = [task EXCEPT ![k] = r]
At(k, pc)    == task[k].pc = pc

Init ==
    /\ socket = "open" /\ bye = FALSE
    /\ rows = [key \in Keys |-> 0] /\ asked = <<>> /\ ready = {}
    /\ messages = <<>> /\ flushed = {} /\ late = {} /\ claims = {}
    /\ task = [k \in Tasks |-> Idle]
    /\ live = [id \in Ids |-> 0] /\ owed = {} /\ got = {}
    /\ excuses = {} /\ faults = 0 /\ starts = 0

-----------------------------------------------------------------------------
(* The registry: what a call writes, deletes and reads                      *)

\* The ids a task in progress works on rows or frames of.
Touches(k) ==
    IF task[k].pc \in {"adding", "lookup", "removing", "reply"} THEN {task[k].id}
    ELSE IF task[k].pc \in {"owned", "clearing"} THEN Ids ELSE {}

\* A subscribe that has not got to its rows.
Captures(k, id) == At(k, "capture") /\ task[k].id = id

\* Nothing orders two calls about one id: each is an invocation of its own.
Crossed(k, ids) == IF \E q \in Tasks \ {k} : Touches(q) \cap ids # {} THEN {"crossed"} ELSE {}
Follows(k, id)  == IF \E q \in Tasks \ {k} : Captures(q, id) THEN {"crossed"} ELSE Crossed(k, {id})

PutRows(id, n, topics) == {<<Fwd(t, id), n>> : t \in topics} \cup {<<Rev(id), n>>}

\* The topics are those the reverse row names, none if there is no reverse row.
DeleteRows(id) ==
    {<<Rev(id), 0>>} \cup
    (IF rows[Rev(id)] = 0 THEN {} ELSE {<<Fwd(t, id), 0>> : t \in asked[rows[Rev(id)]].topics})

\* One page of the rows of a partition, in key order after the cursor.
PageOf(part, after) ==
    LET left == {id \in Ids : id > after /\ rows[<<part, id>>] # 0}
    IN {id \in left : Cardinality({j \in left : j < id}) < PageSize}
\* Wrong on purpose, for the mutation runs: what the first page holds is taken for the whole answer.
NoMore(page) == End
After(page) ==
    IF Cardinality(page) < PageSize THEN End ELSE CHOOSE id \in page : \A j \in page : j <= id

\* The registry call is over: back to the flush it is part of, or answered.
Returned(k) == IF task[k].msg # 0 THEN [task[k] EXCEPT !.pc = "targets", !.sweep = 0, !.todo = {}]
               ELSE Idle

\* What the task has sent: removeAll deletes nothing before its last page.
Sent(k) == IF At(k, "owned") THEN {} ELSE task[k].todo

\* One of the calls of a Promise.all is answered, the last one ends it.
RowDone(k) == \E op \in Sent(k) :
    /\ rows' = [rows EXCEPT ![op[1]] = op[2]]
    /\ IF task[k].todo = {op}
       THEN /\ Become(k, Returned(k))
            /\ ready' = IF At(k, "adding") THEN ready \cup {task[k].sub} ELSE ready
       ELSE task' = [task EXCEPT ![k].todo = @ \ {op}] /\ UNCHANGED ready
    /\ UNCHANGED <<sockVars, clientVars, asked, outVars, claims, got, excuses, faults, starts>>

\* The ledger claim of the delivery a flush is at.
Claimed(k) == task[k].msg # 0 /\ task[k].pc \in {"replay", "lookup", "removing"}
Release(k) == claims' = IF Claimed(k) THEN claims \ {<<task[k].msg, task[k].id>>} ELSE claims

\* What a task leaves behind when it gives up on calls it has sent: each of
\* them may have been applied.
Abandon(k) == \E ops \in SUBSET Sent(k) :
    rows' = [key \in Keys |-> IF \E op \in ops : op[1] = key
                              THEN (CHOOSE op \in ops : op[1] = key)[2] ELSE rows[key]]

\* A call to DynamoDB fails, and the Promise.all it is part of. A removeAll that
\* fails is logged by cleanup(); anything else fails the frame or the flush.
RowFails(k) ==
    /\ Fault("row") /\ (Sent(k) # {} \/ task[k].pc \in {"lookup", "owned", "page"})
    /\ Abandon(k)
    /\ Excuse(IF At(k, "page") THEN {} ELSE {"row"})
    /\ IF task[k].pc \in {"owned", "clearing"}
       THEN Become(k, Returned(k)) /\ UNCHANGED claims
       ELSE Become(k, Idle) /\ Release(k)
    /\ UNCHANGED <<sockVars, clientVars, asked, ready, outVars, got, starts>>

\* The container dies, or runs out of time: a claim stays where it is.
Crash(k) ==
    /\ Fault("crash") /\ ~At(k, "idle")
    /\ Abandon(k)
    /\ Excuse(IF Touches(k) = {} /\ ~At(k, "capture") /\ ~Claimed(k) THEN {} ELSE {"crash"})
    /\ Become(k, Idle)
    /\ UNCHANGED <<sockVars, clientVars, asked, ready, outVars, claims, got, starts>>

\* The client no longer expects anything under this id.
Ended(id) ==
    /\ live' = [live EXCEPT ![id] = 0]
    /\ owed' = {due \in owed : due[2] # id}

\* cleanup(), as far as this protocol is concerned: removeAll. It may overtake a
\* subscribe that has not got to its rows.
BeginCleanup(k) ==
    /\ task' = [task EXCEPT ![k].pc = "owned"]
    /\ Excuse(Crossed(k, Ids) \cup (IF \E q \in Tasks : At(q, "capture") THEN {"overtaken"} ELSE {}))

\* removeAll() pages through the reverse rows before it deletes anything.
Owned(k) ==
    LET page == PageOf("rev", task[k].sweep)
        ops  == task[k].todo \cup UNION {DeleteRows(id) : id \in page}
    IN /\ At(k, "owned")
       /\ Become(k, IF After(page) # End
                    THEN [task[k] EXCEPT !.sweep = After(page), !.todo = ops]
                    ELSE IF ops = {} THEN Returned(k)
                    ELSE [task[k] EXCEPT !.pc = "clearing", !.todo = ops])
       /\ UNCHANGED <<sockVars, clientVars, rows, asked, ready, outVars, claims, got, excuses,
                      faults, starts>>

-----------------------------------------------------------------------------
(* The client's frames                                                      *)

Frame(k) ==
    /\ socket = "open" /\ At(k, "idle")
    /\ starts < MaxStarts /\ starts' = starts + 1
    /\ UNCHANGED <<sockVars, rows, ready, outVars, claims, got, faults>>

\* connection_init and ping, and a subscribe that is answered at once: a query
\* or a mutation with next and complete, one that cannot be parsed, validated
\* or run with an error. What a mutation publishes is Publish's.
AnswerInline(k, id) ==
    /\ Frame(k)
    /\ Become(k, [Idle EXCEPT !.pc = "reply", !.id = id])
    /\ Excuse(Follows(k, id))
    /\ UNCHANGED <<clientVars, asked>>

\* Rows under this id that a subscribe with these topics does not overwrite.
Outgrown(id, topics) == \E t \in Topics \ topics : rows[Fwd(t, id)] # 0
Reuse(id, topics) == IF Outgrown(id, topics) THEN {"reuse"} ELSE {}

\* A subscribe that gets as far as capture mode. No check that the id is free.
Subscribe(k, id, topics) ==
    LET n == Len(asked) + 1
    IN /\ Frame(k)
       /\ asked' = Append(asked, [id |-> id, wants |-> topics, topics |-> {}])
       /\ live' = [live EXCEPT ![id] = n] /\ owed' = {due \in owed : due[2] # id}
       /\ Become(k, [Idle EXCEPT !.pc = "capture", !.id = id, !.sub = n])
       /\ Excuse(Follows(k, id) \cup Reuse(id, topics))

\* complete: registry.remove, starting with its read of the reverse row.
Complete(k, id) ==
    /\ Frame(k)
    /\ Ended(id)
    /\ Become(k, [Idle EXCEPT !.pc = "lookup", !.id = id])
    /\ Excuse(Follows(k, id))
    /\ UNCHANGED asked

\* Wrong on purpose: one mode per process, the one of whichever runs first.
SharedMode(k) == CHOOSE q \in Tasks : task[q].pc \in {"capture", "replay"}
\* AsyncLocalStorage: the mode a resolver finds is that of its own dispatch.
Store(k) == k

\* The field's subscribe() runs in capture mode, which collects its topics; then
\* registry.add, or an error if there are none.
Capture(k) ==
    LET modes == [q \in Tasks |-> task[q].mode \cup
                    (IF q = Store(k) THEN asked[task[k].sub].wants ELSE {})]
    IN /\ At(k, "capture")
       /\ asked' = [asked EXCEPT ![task[k].sub].topics = modes[k]]
       /\ task' = [q \in Tasks |->
            IF q # k THEN [task[q] EXCEPT !.mode = modes[q]]
            ELSE IF modes[k] = {} THEN [task[k] EXCEPT !.pc = "reply"]
            ELSE [task[k] EXCEPT !.pc = "adding", !.todo = PutRows(task[k].id, task[k].sub, modes[k])]]
       /\ Excuse(Crossed(k, {task[k].id}))
       /\ UNCHANGED <<sockVars, clientVars, rows, ready, outVars, claims, got, faults, starts>>

\* The tolerant send: a 410 cleans up, any other failure fails the frame.
Reply(k) ==
    /\ At(k, "reply")
    /\ \/ /\ socket = "open" /\ Become(k, Idle)
          /\ IF task[k].id = 0 THEN UNCHANGED <<clientVars, excuses>>
             ELSE Ended(task[k].id) /\ Excuse(Reuse(task[k].id, {}))
          /\ UNCHANGED faults
       \/ socket = "closed" /\ BeginCleanup(k) /\ UNCHANGED <<clientVars, faults>>
       \/ Fault("send") /\ Become(k, Idle) /\ Excuse({"send"}) /\ UNCHANGED clientVars
    /\ UNCHANGED <<sockVars, rows, asked, ready, outVars, claims, got, starts>>

\* remove() has read the reverse row: delete what it names.
LookedUp(k) ==
    /\ At(k, "lookup")
    /\ task' = [task EXCEPT ![k].pc = "removing", ![k].todo = DeleteRows(task[k].id)]
    /\ UNCHANGED <<sockVars, clientVars, rows, asked, ready, outVars, claims, got, excuses,
                   faults, starts>>

\* $disconnect, on whichever container.
Disconnected(k) ==
    /\ bye /\ bye' = FALSE /\ At(k, "idle")
    /\ BeginCleanup(k)
    /\ UNCHANGED <<socket, clientVars, rows, asked, ready, outVars, claims, got, faults, starts>>

-----------------------------------------------------------------------------
(* Publishing, and the flush of one record                                  *)

\* A subscribe that the socket's end overtook may still add its rows.
Subscribing(k) == task[k].pc \in {"capture", "adding"}

\* bus.publish, by anyone. What is owed: a frame for every subscription of the
\* topic that is registered, and that the client has not ended.
Publish(t) ==
    LET m == Len(messages) + 1
    IN /\ Len(messages) < MaxMessages
       /\ messages' = Append(messages, t)
       /\ owed' = owed \cup {<<m, id, live[id]>> : id \in
                    {j \in Ids : /\ live[j] \in ready /\ t \in asked[live[j]].wants
                                 /\ <<m, j>> \notin Rejected}}
       /\ late' = IF socket = "closed" /\ \A k \in Tasks : ~Subscribing(k) THEN late \cup {m} ELSE late
       /\ UNCHANGED <<sockVars, live, rows, asked, ready, flushed, claims, got, task, excuses,
                      faults, starts>>

\* The stream hands over a record; one topic's records come in order.
StartFlush(k) == \E m \in DOMAIN messages \ flushed :
    /\ At(k, "idle") /\ \A q \in Tasks : task[q].msg # m
    /\ \A j \in 1..(m - 1) : messages[j] = messages[m] => j \in flushed
    /\ Become(k, [Idle EXCEPT !.pc = "page", !.msg = m])
    /\ UNCHANGED <<sockVars, clientVars, rows, asked, ready, outVars, claims, got, excuses,
                   faults, starts>>

\* A consistent read: one page of the topic's forward rows, whole.
PageByTopic(t, cursor) == {<<id, rows[Fwd(t, id)]>> : id \in PageOf(t, cursor)}

FanoutPage(k) ==
    LET page == PageByTopic(messages[task[k].msg], task[k].cursor)
    IN /\ At(k, "page")
       /\ task' = [task EXCEPT ![k].pc = "targets", ![k].cursor = After({x[1] : x \in page}),
                               ![k].targets = page]
       /\ UNCHANGED <<sockVars, clientVars, rows, asked, ready, outVars, claims, got, excuses,
                      faults, starts>>

\* Wrong on purpose: one ledger key per socket.
KeyPerSocket(id) == 0
\* A socket may hold several subscriptions on a topic: a key for each.
Key(id) == id

\* The Flusher claims a target, and re-runs its subscription in replay mode.
Claim(k) == \E target \in task[k].targets :
    LET left == [task[k] EXCEPT !.targets = @ \ {target}]
        key  == <<task[k].msg, Key(target[1])>>
    IN /\ At(k, "targets")
       /\ claims' = claims \cup {key}
       /\ Become(k, IF key \in claims THEN left
                    ELSE [left EXCEPT !.pc = "replay", !.id = target[1], !.sub = target[2]])
       /\ UNCHANGED <<sockVars, clientVars, rows, asked, ready, outVars, got, excuses, faults,
                      starts>>

\* The delivery is over, one way or the other.
NextTarget(k) == Become(k, [task[k] EXCEPT !.pc = "targets", !.id = 0, !.sub = 0])

\* Wrong on purpose: a 410 is only noted.
GoneIgnored(k) == NextTarget(k) /\ UNCHANGED excuses
\* The Flusher reaps a dead connection, and keeps the claim.
Gone(k) == BeginCleanup(k)

\* deliver(): replay mode yields the payload of the record, the filter has its
\* say, and the frame goes out.
Deliver(k) ==
    LET data == task[Store(k)].msg
        done == data = 0 \/ <<data, task[k].id>> \in Rejected
    IN /\ At(k, "replay")
       /\ \/ done /\ NextTarget(k) /\ UNCHANGED <<got, excuses>>
          \/ /\ ~done /\ socket = "open"
             /\ got' = got \cup {<<data, task[k].id, task[k].sub>>}
             /\ NextTarget(k) /\ UNCHANGED excuses
          \/ ~done /\ socket = "closed" /\ Gone(k) /\ UNCHANGED got
       /\ UNCHANGED <<sockVars, clientVars, rows, asked, ready, outVars, claims, faults, starts>>

\* Neither sent nor gone: the claim is given back, and the record retried.
SendFails(k) ==
    /\ Fault("send") /\ At(k, "replay")
    /\ Become(k, Idle) /\ Release(k)
    /\ UNCHANGED <<sockVars, clientVars, rows, asked, ready, outVars, got, excuses, starts>>

\* The code has moved on. The stored document no longer parses: the rows go,
\* and the client is not told. Or it parses and yields no stream: the client is
\* told, by an error that ends the subscription for it, and the rows stay.
Drift(k) ==
    /\ Fault("drift") /\ At(k, "replay") /\ socket = "open"
    /\ \/ /\ task' = [task EXCEPT ![k].pc = "lookup"] /\ Excuse({"drift"}) /\ UNCHANGED clientVars
       \/ NextTarget(k) /\ Excuse({"drift"}) /\ Ended(task[k].id)
    /\ UNCHANGED <<sockVars, rows, asked, ready, outVars, claims, got, starts>>

\* Everyone on the page is served: the next page, or the record is done.
PageDone(k) ==
    /\ At(k, "targets") /\ task[k].targets = {}
    /\ IF task[k].cursor = End
       THEN flushed' = flushed \cup {task[k].msg} /\ Become(k, Idle)
       ELSE task' = [task EXCEPT ![k].pc = "page"] /\ UNCHANGED flushed
    /\ UNCHANGED <<sockVars, clientVars, rows, asked, ready, messages, late, claims, got,
                   excuses, faults, starts>>

-----------------------------------------------------------------------------
(* The socket                                                               *)

ClientCloses ==
    /\ socket = "open" /\ socket' = "closed" /\ bye' = TRUE
    /\ live' = [id \in Ids |-> 0] /\ owed' = {}
    /\ UNCHANGED <<rows, asked, ready, outVars, claims, got, task, excuses, faults, starts>>

\* $disconnect is best effort.
ByeLost ==
    /\ Fault("lostBye") /\ bye /\ bye' = FALSE
    /\ Excuse({"lostBye"})
    /\ UNCHANGED <<socket, clientVars, rows, asked, ready, outVars, claims, got, task, starts>>

-----------------------------------------------------------------------------

\* What a task does of its own accord until it has answered.
Step(k) ==
    \/ Capture(k) \/ Reply(k) \/ LookedUp(k) \/ Owned(k) \/ RowDone(k)
    \/ FanoutPage(k) \/ Claim(k) \/ Deliver(k) \/ PageDone(k)

Next ==
    \/ \E k \in Tasks :
         \/ Step(k) \/ StartFlush(k) \/ Disconnected(k)
         \/ RowFails(k) \/ Crash(k) \/ SendFails(k) \/ Drift(k)
         \/ \E id \in Ids : Complete(k, id) \/ \E topics \in SUBSET Topics : Subscribe(k, id, topics)
         \/ \E id \in Ids \cup {0} : AnswerInline(k, id)
    \/ \E t \in Topics : Publish(t)
    \/ ClientCloses \/ ByeLost

\* Calls are answered, and the stream keeps handing over what is not flushed.
Fairness == (\A k \in Tasks : WF_vars(Step(k))) /\ WF_vars(\E k \in Tasks : StartFlush(k))

Spec == Init /\ [][Next]_vars
FairSpec == Spec /\ Fairness

-----------------------------------------------------------------------------
(* Properties                                                               *)

TaskPcs == {"idle", "capture", "adding", "lookup", "removing", "owned", "clearing", "reply",
            "page", "targets", "replay"}
Ops     == Keys \X Subs
Frames  == (DOMAIN messages) \X Ids \X (DOMAIN asked)
TaskRecords ==
    [pc : TaskPcs, id : Ids \cup {0}, sub : Subs, msg : {0} \cup DOMAIN messages, cursor : 0..End,
     targets : SUBSET (Ids \X (DOMAIN asked)), sweep : 0..NIds, mode : SUBSET Topics,
     todo : SUBSET Ops]

TypeOK ==
    /\ socket \in {"open", "closed"} /\ bye \in BOOLEAN
    /\ asked \in Seq([id : Ids, wants : SUBSET Topics, topics : SUBSET Topics])
    /\ rows \in [Keys -> Subs] /\ ready \subseteq DOMAIN asked
    /\ messages \in Seq(Topics) /\ flushed \subseteq DOMAIN messages /\ late \subseteq DOMAIN messages
    /\ claims \subseteq (DOMAIN messages) \X Ids /\ owed \subseteq Frames /\ got \subseteq Frames
    /\ \A k \in Tasks : task[k] \in TaskRecords
    /\ live \in [Ids -> Subs]
    /\ excuses \subseteq {"reuse", "crossed", "overtaken", "row", "send", "crash", "drift", "lostBye"}
    /\ faults \in 0..MaxFaults /\ starts \in 0..MaxStarts

\* No call on the registry is in progress, and no event is on its way.
Quiet == ~bye /\ \A k \in Tasks : Touches(k) = {} /\ ~At(k, "capture")

\* The rows a registry without races and failures holds for what the client
\* holds: one forward row per topic, and the reverse row.
Deserved(key) ==
    LET n == live[key[2]]
    IN IF n # 0 /\ (key[1] = "rev" \/ key[1] \in asked[n].wants) THEN n ELSE 0

\* Whatever the client subscribes, completes and closes, and whatever is
\* published meanwhile: once its frames are answered, the registry holds exactly
\* what the client does, unless calls about one id overlapped, an id was reused
\* with other topics, a cleanup overtook a subscribe, or one of the named
\* failures happened.
RegistryMatchesClient == Quiet => rows = [key \in Keys |-> Deserved(key)] \/ excuses # {}

\* Nobody loses a payload: when the stream is done with a record, every
\* subscription that was registered when it was published, and has not been
\* ended by the client, has had its next frame, with that payload.
Served == \A due \in owed : due[1] \in flushed => due \in got \/ excuses # {}

\* The rows of a dead socket heal: even if its $disconnect is lost, or ran before
\* a subscribe it overtook had got to its rows, the next record of their topic that
\* their filter lets through is met with a 410, which takes them away.
Heals == \A m \in 1..MaxMessages :
    m \in late ~> /\ m \in late
                  /\ \/ \A id \in Ids : <<m, id>> \in Rejected \/ rows[Fwd(messages[m], id)] = 0
                     \/ excuses \ {"lostBye", "overtaken"} # {}

\* $disconnect, a 410 and complete delete the rows: with no failure, and no two
\* calls about one id at a time, a socket that is gone leaves none.
DisconnectDeletes ==
    Quiet /\ socket = "closed" => rows = [key \in Keys |-> 0] \/ excuses \ {"reuse"} # {}
=============================================================================
