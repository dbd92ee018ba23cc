# A TLA+ model of apigw-ws-nest

`apigw-ws-nest` runs NestJS WebSocket gateways behind an API Gateway WebSocket
API: Lambda containers that keep nothing, two DynamoDB tables that keep
everything, and a table stream that turns a publish into a fan-out. What can go
wrong in it are orders of steps of several invocations, and failures between two
steps. This directory models that part of it, checks the models with TLC on small
instances, and proves with TLAPS what holds for every instance.

Source paths below are relative to the repository root (`src/outbox.ts` is the
library's file of that name). In `PROJECT.json` they carry the prefix `src/` under
which the repository is checked out, so there it is `src/src/outbox.ts`.

## 1. The system

| component | files | state it keeps | operations |
|---|---|---|---|
| Outbox, flusher, ledger | `src/outbox.ts`; `flush` in `src/gateway-bridge.ts` | a row per message (its stream), `DLV#` rows of claimed deliveries | publish, flush a batch, page, claim, send, release, requeue |
| Connection lifecycle | `src/gateway-bridge.ts` | per container: `clients`, `rehydrating`, `announced`; a `ConnectAttempt` per `$connect` | connect (decide, accept, undo), materialize, rehydrate, cleanup, disconnect |
| Connection store | `src/providers/aws.ts`, `dynamo.ts`, `local.ts` | META row, a forward and a reverse row per room | add, get, remove, join, leave, pages of members |
| Publisher | `src/providers/aws.ts` | a management client per endpoint, the endpoint itself in `process.env` | post, disconnect (410 when the socket is gone) |
| NestJS adapter | `src/ws-adapter.ts` | handlers and Observable subscriptions per client | hooks awaited at `$connect`/`$disconnect`, frames routed, streams opened |
| Dispatch scope | `src/dispatch-scope.ts` | promises a dispatch must await | enqueue, settle |
| GraphQL registry | `src/graphql/subscription-registry.ts` | a forward row per topic and a reverse row per subscription | add, by topic, remove, removeAll |
| GraphQL protocol | `src/graphql/handler.ts`, `pubsub.ts`, `messages.ts` | initialised connections; records in the registry | init, subscribe, complete, deliver |
| Boot and routing | `src/app-factory.ts`, `src/example/src/handler.ts`, `bootstrap.ts` | the memoized bootstrap, the bridge's protocols | bootstrap, serve |
| Emulator | `src/example/src/emulator.ts`, `src/providers/local.ts` | open sockets, the current bridge and app, the in-memory store and registry | upgrade, frame, hang up, reload, close |
| Example chat and posts | `src/example/src/chat/`, `posts/` | conversations, messages and posts in a table; room memberships | join, leave, send, create, delete, list |
| Infrastructure | `sst.config.ts` | event source settings | retry, discard |

They interact through the two tables only, apart from calls inside one container.
A handler publishes one row to `Messages`; the table's stream invokes `flush`
with batches, one topic always in the same lane; the flusher pages the topic's
rows in `Connections` and posts to each socket, claiming each delivery with a
conditional put so that a retry skips it. A post answered with 410 makes
`cleanup` remove the connection. Frames of one connection may run on several
containers, and several in one, each with its own idea of the client.

What makes it correct, per component:

- *Outbox*: every subscriber of the topic gets the message once, in order, up to
  failures that can be named; a batch is never acknowledged past a failure; every
  message is settled in the end.
- *Connection*: nothing is written before the verdict; an accepted connection is
  recorded whole; a connection that is gone leaves no row; the application hears
  of its end, once; no stream outlives its client; Nest hears of a connection
  once per container; every invocation answers.
- *Store and registry*: the two mirrored rows stay together, so removal by
  connection finds everything a read by room or topic can find.
- *GraphQL*: every accepted subscription is delivered to until it is completed,
  and not after.
- *Dispatch scope*: an answer waits for every send made for it, and for no other.
- *Boot and routing*: a protocol is registered once and gets the frames that are its.
- *Emulator*: an open socket is known to every instance, one that is gone to none.
- *Example*: no message falls between a history and the frames after it, and none
  reaches who is not in the conversation.

Hard parts are listed with their lines under `hazards` in `PROJECT.json`:
invocations killed between claim and send, lost answers, retries that overlap,
continuations, partial failures of `Promise.all`, reads before several awaits and
writes after them, caches of other containers, best-effort `$disconnect`.

## 2. The modules

| module | what it is |
|---|---|
| `Fanout` | what durable fan-out promises, without tables or invocations |
| `Outbox` | publish, stream lane, `GatewayBridge.flush`, `Flusher`, ledger, failures; refines `Fanout` |
| `OutboxProofs` | its types, and why a frame may be repeated, with proofs |
| `OutboxContractProofs` | losses, order, what a batch costs, and that `Outbox` is a `Fanout`, with proofs |
| `MCOutbox` | constant values and symmetry for its runs |
| `Connection` | one connection: sockets, rows, containers, `$connect`, frames, cleanup, kicks, failures |
| `ConnectionProofs` | its types, and who serves and caches the client, with proofs |
| `ConnectionRowsProofs` | its rows from `accept()` to the last cleanup, with proofs |
| `MCConnection` | symmetry for its runs |
| `Subscriptions` | the GraphQL subscriptions of one socket: registry rows, handler, capture and replay, a flush's deliveries, failures |
| `SubscriptionsProofs` | theorems about `Subscriptions`, with proofs |
| `MCSubscriptions` | constant values, symmetry, and the constraint of its runs |
| `Container` | one process: bootstrap, routing of events and frames, the dispatch scope, the freeze |
| `ContainerProofs` | theorems about `Container`, with proofs |
| `Emulator` | the local emulator: upgrades, frames, hang-ups, `reload()` and `close()` over a shared store |
| `EmulatorProofs` | theorems about `Emulator`, with proofs |
| `MCEmulator` | what connect hooks throw, in its run |
| `ExampleApp` | the handlers of the chat and the posts, call by call, over tables and rooms |
| `ExampleAppProofs` | theorems about `ExampleApp`, with proofs |
| `MCExampleApp` | symmetry for its run |

The modules meet at their edges and do not repeat each other. `Outbox` takes
targets and posts as given; `Subscriptions` and `Connection` say what becomes of
the rows it pages and of the 410s it meets. `Container` leaves to them what a
send does, and says only until when it can. `ExampleApp` uses a delivery that is
what `Fanout` promises of a room: the record, to its members, in the room's order.

### Outbox

One lane of the stream is modelled: a shard and one of its parallel batches. A
topic's records stay in one lane, and lanes share only ledger rows, which are
keyed by message.

| state | code |
|---|---|
| `log`, `ckpt`, `attempts`, `dlq` | inserts of `Messages` in stream order, the consumer's position, failed tries since it moved, records given up (`sst.config.ts`, event source mapping) |
| `members`, `open` | rows of a topic in `Connections`, sockets that exist |
| `ledger` | `DLV#<messageId>#<key>` rows (`DynamoDeliveryLedger`) |
| `run`, `hi`, `pc`, `at`, `cur`, `next` | invocations of `flush`; per topic of the batch, which record and which page (`gateway-bridge.ts:736-754`, `outbox.ts:217-245`) |
| `task` | where `deliverOne` is with each target of the page |
| `got`, `owed`, `stranded`, `unacked`, `expired`, `blamed` | history for the properties; `blamed` are the messages that failed, or headed a batch whose invocation died or was lost sight of |

`ReadPage`, `NextBatch`, `PageFailed`, `NextPage`, `Requeue`, `LastPageDone` are
the loop of `Flusher.flush` with `deliverPage`; `Claim`, `Send`, `SendGone`,
`Release` (and a failing or an unanswered form of each) are `deliverOne`. A page
may end after any row, as DynamoDB's do. Whether an invocation runs out of time
after a page is left open at every page. The event source mapping
retries from the lowest reported record, gives up after `MaxAttempts` failures
(its age limit, counted in attempts), and may lose sight of an invocation
(`Abandon`), which then overlaps its own retry. Halving a failing batch only
chooses a smaller batch from the same checkpoint, which `StartRun` allows anyway.

### Connection

One connection is modelled: every map and row is keyed by its id, so two
connections share no state here. `Instances` are containers, `Tasks` invocations.
Every await on the table, the socket or a hook is a place where other tasks can
run; code between two awaits is one step.

| state | code |
|---|---|
| `rows`, `todo`, `stray` | rows of the connection in `Connections`; calls of a `Promise.all` still out; calls whose caller gave up on them |
| `attempt`, `applied` | `ConnectAttempt` (`gateway-bridge.ts:183-190`), progress of `accept` |
| `cached`, `lead`, `owner`, `announced`, `streams` | `clients`, `rehydrating`, the objects themselves, the WeakSet `announced`, `client.subscriptions` |
| `kind`, `inst`, `pc`, `ref` | what each invocation was started for, where, where it is, which client object it has |
| `socket`, `bye` | API Gateway's side, and a `$disconnect` it still has to deliver |
| `swept`, `farewells`, `forgets`, `crossed`, `hungUp`, `excuses` | history for the properties |

A frame's handler does one of: nothing, open a stream, join or leave a room,
disconnect, meet a 410. A handler that does more is as good as several frames. A
call of `Promise.all` that fails may have been applied or not, and its siblings
go on. A post during `$connect` may be answered 410, because room rows exist
before API Gateway has its answer; the properties name that case (`early`).

### Subscriptions

One socket with `NIds` subscription ids: rows, ids and ledger keys of two sockets
are apart. Each frame, `$disconnect` and flush is an invocation (`task`) of its own.

| state | code |
|---|---|
| `rows` | forward rows `<<topic, id>>` and reverse rows `<<"rev", id>>` (`subscription-registry.ts`); a row holds the number of the subscribe that wrote it |
| `asked` | what each subscribe wants, and the topics capture mode found (`pubsub.ts`) |
| `task.todo`, `task.sweep` | the calls of a `Promise.all` still out; how far `removeAll`'s `queryAll` has paged |
| `task.cursor`, `task.targets`, `claims` | `fanout` and `deliver` of `handler.ts` under the flusher and its ledger |
| `task.mode` | the store `AsyncLocalStorage` gives to the dispatch |
| `live`, `owed`, `got`, `late`, `excuses` | history: what the client holds, and which frames are due to it |

A `next` is due for a subscription whose registration has resolved when the record
is published, until the client ends it. `Drift` is a stored document the deployed
schema no longer runs: it ends a subscription on one side only.

### Container

| state | code |
|---|---|
| `boot` | `ready ??= bootstrap()` (`handler.ts`) and how far it is |
| `protocols` | `bridge.use()` in the order called: Nest's by the adapter's constructor, GraphQL's after `app.init()` |
| `ev`, `queue`, `inflight` | each event's dispatch, its `DispatchScope.pending`, and what `settle()` is awaiting |
| `sends`, `streams` | every send and broadcast, and whether it landed or froze with the process; subscribed Observables |

On Lambda the next event comes only when the last is answered, and in between the
process is frozen and may never thaw. Over HTTP events overlap. Kinds of send
differ in who awaits them: an answer (the handler), an emit or ack (the scope), a
stream's emission (the scope of the dispatch that pushed, not of the one that
subscribed), a broadcast (its handler, if it does). The answer of a `gql` event is in
no scope (`AnswerRaw`): the GraphQL handler posts it with `toConnectionRaw()` and
awaits it.

### Emulator

`upgrade`, `client`, `on` are a connection's hand-made upgrade, what its client
sees, and the instance that serves it; `conns`, `global`, `rooms`, `subs` are the
shared in-memory store and registry; `cached` the client maps of the bridges;
`reloads`, `current`, `closed` the instances. A socket has one frame in progress.

### ExampleApp

A handler is the sequence of calls it makes (`Join == <<"join", "read",
"answer">>`), and invocations interleave between any two calls. `table` holds the
items, `members` the rooms, `outbox` the broadcasts. A read is one page of an
eventually consistent Query or Scan: a fault (`stale`) may leave out what was just
written and show what was just deleted (`Ghosts`). `found` is history: each post a
listing found, for whom, and after how many records. Simplifications: the user room a
GraphQL client with a token joins is left out, as no handler sends to one, and each
membership more multiplies the states; disconnects are `Connection`'s; the two
publishes of a GraphQL mutation go to topics of `Subscriptions`, so here they reach no
room.

## 3. The runs

| run | question | result |
|---|---|---|
| `outbox_contract` | two failures of any kind, two messages of a topic, pages, retries, with fairness | `DuplicatesExplained`, `LossExplained`, `OrderUnlessRequeued` hold, and `Outbox` implements `Fanout`, liveness included |
| `outbox_overlap` | two topics in a batch, a retry that overlaps its predecessor, a membership change | `DuplicatesExplained`, `LossExplained`, `NeighboursSpared` hold |
| `connection_connect` | `$connect` and one other event, one failure of any kind, one invocation per container | `GhostsExplained`, `NothingBeforeVerdict`, `AcceptedWhole` hold |
| `connection_frames` | three events on two containers that run two invocations each, with fairness | `GhostsExplained`, `FarewellSaid`, `NoOrphanStreams`, `AnnouncedOnce`, `Answered` hold |
| `subscriptions` | two frames, a publish and one failure of any kind on one socket, with fairness | `RegistryMatchesClient`, `Served`, `Heals` hold |
| `container` | two events, three sends, a bootstrap that may fail, both ways to run | `SendsSettled`, `OwnSendsOnly`, `RoutedToOwner`, `RegisteredOnce` hold |
| `emulator` | one socket, two reloads that may overlap or fail, `close()` | `LeavesNoRows`, `OpenIsKnown`, `GraphQLNegotiated`, `OneInstance`, `Forgotten` hold |
| `example` | two clients, two invocations at a time, three frames, a crash or a stale read | `CaughtUp`, `SubscribedHears`, `OnlyTheConversation`, `DeletionsReach`, `AckedIsAnnounced` hold |
| `outbox_order` | README: FIFO per topic | violated: a continuation goes behind later records |
| `connection_kick` | `gateway-bridge.ts:857`: a `$disconnect` after a kick finds nothing | violated: the other container's cached client gets a second `onDisconnect` |
| `connection_torn` | `aws.ts:98`: `remove()` can clear every room | violated by a concurrent join and leave, with no failure |
| `subscriptions_reuse` | README: `complete`, `$disconnect` and a 410 delete the rows | violated: an id subscribed again with other topics leaves rows nothing finds |

Each of the last four is a disagreement with a sentence of the code base; its
counterexample is short and `findings` in `PROJECT.json` quotes both sides. The
passing properties state what is true instead: duplicates and losses are
*explained*, each by a cause that is recorded where it happens, and order holds
for messages that were never requeued.

What the exceptions say of the code, each a case the models contain:

- A claim outlives a send that did not happen when the invocation is killed in
  between, when its answer is lost, or when `release()` fails too (`outbox.ts:278`;
  the comment at 185 names the kill only). The message is lost for that subscriber.
- A ledger row lives an hour, a record may be retried for a day
  (`sst.config.ts`): a retry past the hour repeats frames.
- `disconnect()` between the verdict and the end of `accept()` is swallowed
  (`gateway-bridge.ts:303-306`): it resolves, and the connection opens.
- A broadcast its handler does not await is in no dispatch scope, and a freeze may
  lose it. `src/README.md`'s sequence diagram (line 1037) has a
  `flushBroadcasts()` that awaits the write; the code has no such call.
- Calls about one subscription id that overlap can leave a forward row without its
  reverse row, which no cleanup finds. A cleanup that is over before the subscribe
  gets to its rows leaves both, and the next 410 takes them.
- `post.subscribe` answers before its `join()` has reached the store, and a freeze
  may lose the join (`post.gateway.ts:59`; the quick start of the README does the
  same). `SubscribedHears` excuses exactly that.
- `flush()` reports a failure per topic, and the poller tries the whole rest of the
  batch again from the lowest: a failing topic costs the others repeated attempts,
  never their delivery (`NeighboursSpared`). An invocation that dies reports nothing, so
  the record at the head of its batch is tried again and in the end given up, whichever
  topic killed it.
- A posts listing is a Scan without `ConsistentRead` (`post.repository.ts:70-74`): read
  after a deletion was announced, it may still show the post, and nothing later takes
  it back. `DeletionsReach` accepts an older notice for exactly such a read. A deletion
  by GraphQL is announced to no room at all, so whoever lists by frame keeps the post.
- Listings of the example read one page, not consistently: `CaughtUp` excuses what
  that leaves out. A post made over GraphQL is announced to no room, and one made
  by a frame is not published to `POST_ADDED`, which `post.resolver.ts:32,82` call
  the place of every new post "from anywhere".

**Bounds.** Two messages and two subscribers are what order, pages and
continuations need: a page that ends after the first subscriber has another
behind it, and a message has a successor. `MaxLog = 3` leaves room for one
continuation, `MaxAttempts = 2` for a retry and a discard, two invocations for an
overlap. `outbox_contract` allows two failures, so a failure can hit the retry of
another. For a connection, three events on two containers are a `$connect` and any
pair of frame, kick, 410 and `$disconnect`; the torn rows need a fourth and have
their own run. Two recorded memberships are enough for a join that a later leave
takes back. `subscriptions` pages one row at a time over two ids, so `removeAll`
and a fan-out have a second page; two tasks make every pair of frame, cleanup and
flush overlap. `container` has two events because interference needs two requests,
and a freeze with a thaw needs a next event; three sends let one emit while another
is awaited. `emulator` has one socket, since sockets share only the instances, and
three instances, so that two reloads overlap. In `example` a page is full with two
items, there are two new ones, and three frames are a join, a send and a leave, or
two deletions and a list.

Every bound is a guard (`MaxFaults`, `MaxLog`, `MaxChurn`, `MaxStarts`,
`MaxMemberships`, `MaxMessages`, `MaxSends`, `MaxReloads`, `MaxFrames`,
`MaxItems`), but for one constraint: `subscriptions` does not go on from a state
with an excuse its properties all accept. Excuses are never withdrawn, so each
property, `Heals` included, is true of whatever would follow.

**Deadlock** is not checked: publishers may stop publishing and a connection's
life ends. That work in progress does finish is what the runs with fairness check
(`outbox_contract`, `connection_frames`, `subscriptions`, `emulator`).

**Fairness.** `Outbox` assumes that a running flush takes its next step (a call
is answered or fails), per topic of the batch, and that the poller keeps
polling. `Connection` assumes the same of every running invocation; a connect
hook either returns or runs into `connectTimeout`, which the code has. Nothing is
assumed of publishers, clients, failures, or of an invocation ever running out
of time. `Subscriptions` assumes that a call is answered and that the stream goes on
handing over what is not flushed; `Emulator` that handlers return, the in-memory
store answers, and `ws` reports a closed socket. Symmetry is used only in runs
without liveness: of invocations, of clients, and of topics together with their
messages.

## 4. What is proved

`OutboxProofs` proves, from `OutboxAssumption` alone (types of the constants;
no bound on their size):

- `TypeCorrect`: `Spec => []TypeOK`, including that at most one invocation
  reports to the poller;
- `DuplicatesAreExplained`: `Spec => []DuplicatesExplained`.

The second rests on an inductive invariant in two parts. `StateOK` adds to the
types that a group's record is one of its topic's and lies on the stream, and
that only a group that is sending has deliveries in flight. `LedgerOK` counts,
for a message and a subscriber, the frames received plus the claims in flight:
a pair that is not in the ledger has had no frame but the unacknowledged and the
expired ones, a pair that is has had at most one more, and never both a claim in
flight and a frame of its own. `DuplicatesExplained` alone is not inductive: it
does not know that a delivery about to be sent holds the only claim. Each step
of the model has one lemma per part; the counting needs that two groups never
hold the same pair, which is where the conditional put is used.

`OutboxContractProofs` proves what the subscribers are promised:

- `LossIsExplained`: `Spec => []LossExplained`;
- `NeighboursAreSpared`: `Spec => []NeighboursSpared`;
- `OrderIsKept`: `Spec => []OrderUnlessRequeued`;
- `OutboxIsAFanout`: `Spec => Contract!FInit /\ [][Contract!FNext]_(Contract!fvars)`,
  the safety half of `ImplementsFanout`.

The first two assume `OutboxAssumption` alone. `LossIsExplained` rests on `CoverOK`.
Its heart is `Covered`: a pair that is owed is safe (served, excused, or in the hands of an
invocation the poller has lost sight of), or some record at or after the
checkpoint carries it, and the running invocation, if there is one, has yet to
come to that record, or is on it with the subscriber still ahead of its cursor or
among the deliveries it has not settled. The other parts say what lets a step keep
this: a pair is owed only to a subscriber that is there, a socket that answered 410
is closed for good, a group is on a record of its batch, and a claim in the ledger
is of somebody who sent, who will, or who was stopped in between. So no delivery
skipped because of a claim is lost without a cause, and no batch is acknowledged
past a record with something left to do. `NeighboursAreSpared` rests on `BlameOK`:
`NeighboursSpared` is not inductive, since a discard looks at a counter and not at who
failed. The attempts counted are always those of the record behind the checkpoint, and
that record's message is blamed for them (`HeadToBlame`): an answer with failures moves
the checkpoint to just below the lowest of them, and starts the count again when it
moves; a death counts for the head of the batch, which a running invocation always
has (`BatchHeaded`). All of it needs that a group reports the record
it stopped at, and no other.

The last two assume `"abandon" \notin Faults`, that the poller never retries
next to an invocation that still runs. Without it they are false of the code: two
invocations of one batch send in whatever order, and the first may serve a message
after the second was settled (`outbox_overlap` allows it, and checks neither). Under
it, `InTurn` holds: only the running invocation sends, its batch lies ahead of the
checkpoint, every record of a message but its first has a cursor. A pair that is
served, excused or neither is then seen the same way by `Fanout`, and each step of
`Outbox` maps to a publish, a delivery, a departure, messages settled, or a stutter;
`LedgerOK` gives that a pair has its frame once where nothing excuses a second.

`ConnectionProofs` proves, from `ConnectionAssumption` (types of the constants,
and that there is a container), for any number of containers, invocations and
failures:

- `TypeCorrect`: `Spec => []TypeOK`;
- `NothingIsWrittenEarly`: `Spec => []NothingBeforeVerdict`;
- `ToldOnce`: `Spec => []AnnouncedOnce`;
- `NoStreamIsOrphaned`: `Spec => []NoOrphanStreams`.

The invariant has a part per theorem and one they all need. `ConnectOK`: there is
one `$connect`, and until it has answered no frame is served, nothing is cached
and Nest knows of no client. `VerdictOK`: before `accept()` begins, besides the
empty table, nothing that is on its way is a put, which a kick or a 410 that
starts early keeps so, since it only deletes. `FormerOK` counts: the clients
announced on a container other than the cached one are no more than the cleanups
that finished there. `StreamsOK`: where no cleanup overlapped a frame (`crossed`),
a handler has the cached client, and a cleanup has the one whose streams are live.
Most steps change none of this (`Mild`: no task enters another phase, no client is
made or forgotten) and share one lemma; the twelve that do have one each.

`ConnectionRowsProofs` goes on from that invariant, with the same assumption:

- `RecordedWhole`: `Spec => AcceptedWhole`, an action property;
- `NoGhosts`: `Spec => []GhostsExplained`;
- `EndIsHeard`: `Spec => []FarewellSaid`.

Each step is first shown to be `Orderly`: where an invocation may go from where it
is, what may become of the socket, its `$disconnect` and the history. Most parts then
follow from these three facts and not from each action again. `BaseOK` is for the
first theorem. While `$connect` waits for its answer, unless a kick or a 410 came early,
nobody else works for the connection, and the rows, once the calls that are out have
landed, are those of the entries of the plan that `accept()` has come to (`AloneOK`,
`Planned`). Hooks that go on recording during `accept()` only make the plan longer.

`RowsOK` is for the second, and speaks of states in which nothing went wrong.
`GhostsExplained` is far from inductive: two frames may write while a remove reads
and deletes. A call is about one of two rows, which land in any order. `HalvesOK`
says that the other one is out too, or done, and `ApartOK` that, before a remove has
read the rows, no room is joined and left at the same time. So a forward row always
has the reverse row by which a remove finds it, or gets it, or is about to be deleted
(`MirrorOK`), and everything a remove read is being deleted (`SweptOK`). `PhaseOK`
adds that what is refused is empty, and that what is closed is swept or will be.
`HeardOK` is for the third: until the application has heard of the end, the META row
is there, no remove has read it, and once `$disconnect` has come a cleanup is on its
way to telling.

`SubscriptionsProofs` proves, from `SubscriptionsAssumption` (types of the
constants, a page has a row, and `rev` is no topic), for any number of ids, topics,
pages, invocations and messages:

- `TypeCorrect`: `Spec => []TypeOK`;
- `RegistryIsKept`: `Spec => []RegistryMatchesClient`;
- `FramesAreServed`: `Spec => []Served`.

Every part of the invariant but the types is about a state without an excuse.
`ClientOK` relates what the client holds, what is ready and what is due;
`FlushesOK` says that one delivery at most has a claim in its hands. `RegistryOK`
says that two invocations never work on the rows of one id, and of each id, which
rows it has: those of the subscribe the client holds, all of them (`Whole`), or none,
unless the one invocation that works on it is taking rows away (each row is gone, or
its delete is among the calls still out, `Shrinking`) or adding them (each row of the
subscribe is there, or its put is, `Growing`). `RegistryMatchesClient` alone is not
inductive: it speaks of quiet states only. All writes go through one lemma
(`RegistryStep`): a step that keeps the work on an id, or hands it over, keeps the
part. `DeliveryOK` adds the cursor: an invocation that flushes the record of a due
frame has sent it, holds it as a target, has it in its hands, or has not come to
the page it is on. That a page has every row up to its last and the next one starts
behind it (`PageTargets`) is proved of the paging operators.

`ContainerProofs` proves, from `ContainerAssumption`, `TypeCorrect`,
`SendsAreSettled`, `OwnSends`, `Registered` and `Routed`: every
invariant of the run `container`, for any number of events and sends. The
invariant says who holds a send that has not landed: its dispatch's scope has
every frame made inside of it, pending or being awaited; the handler that awaits a
broadcast is still running; everything else nobody attends to. `settle()` ends
when both sets are empty, so what an answer leaves in flight is of the third kind.

`EmulatorProofs` proves, from `EmulatorAssumption`, `TypeCorrect`, `NoRowsAreLeft`,
`OpenSocketsAreKnown`, `GraphQLIsNegotiated` and `OneInstanceIsLeft`: every
invariant of the run `emulator`, for any number of sockets and reloads. The
invariant says of each connection which rows it has at each point of its upgrade
and which frame may be in progress next to it (`ConnOK`), and of the instances
that, without overlapping reloads, there are the current one, closed ones, and
at most one that is being closed (`OneByOne`).

`ExampleAppProofs` proves, from `ExampleAssumption`, `Types`, `AcksAreHonest`,
`ConversationsAreKept`, `SubscribersHear`, `ListingsAreCaughtUp` and
`DeletionsAreHeard`: every invariant of the run `example`, for any number of
clients, invocations, frames and items. `DataOK` is the part all share: ids are fresh
and what is removed stays so, an invocation has some of its frame's calls left and
has done what the others do (`Shape`, `Effect`), a record announces what there is,
where it belongs. Each theorem adds its own: an invocation about to answer has
recorded its broadcast (`RecordedOK`); whoever is apart from a conversation is not in
its room and joins it with nothing, so it is sent nothing recorded since (`ApartOK`,
`UnheardOK`); a subscriber is in the feed, or its join is on its way or lost
(`SubscribersOK`); a listing that is read and not yet answered, and one that is
answered, misses only what its reader is about to hear, while it stays in the room
(`CaughtOK`); the end of a post that a read found in time is still to be announced by
the invocation that removed it, or recorded behind that read, or nobody was left to
announce it (`PartingOK`), and such a record is in the feed, where `SubscribersHear`
takes over.

Only model-checked: liveness (`Answered`, `Heals`, `Forgotten` and the fairness half
of `ImplementsFanout`), since the prover does not reason about fairness and
`ENABLED`. The properties that are violated have nothing to prove.

## 5. Plan

1. `Fanout`, `Outbox`, `OutboxProofs`, `OutboxContractProofs` (done): durable delivery is why the
   library exists.
2. `Connection`, `ConnectionProofs`, `ConnectionRowsProofs` (done): `$connect` as a
   decision, and its races.
3. `Subscriptions`, `SubscriptionsProofs` (done): the registry's two rows and what
   the handler does with them.
4. `Container`, `Emulator`, `ExampleApp` with their proofs (done).
5. A store module: rows of `DynamoConnectionStore` implementing the sets of
   `InMemoryConnectionStore` when calls do not overlap.
6. Two stages and the process-global endpoint (`outbox.ts:228`).

Every invariant and action property of a passing run is a theorem. Theorems planned:
those of the store module.

## 6. Not modelled

- The process-global `MANAGEMENT_ENDPOINT`: one stage is assumed so far.
- Expiry of META rows after three hours, longer than API Gateway lets a
  connection live; `maxConnectionData` beyond "too large is undone".
- GraphQL parsing, validation and execution: an outcome, chosen freely.
- The in-process bus of local mode, which delivers as it publishes, and
  `InMemoryDeliveryLedger`, which never forgets a claim.
- Options, types, error texts, logging, and Nest's own wiring of handlers and
  arguments: no state that a property here is about.
- Delivery lanes of other topics, and halving of failing batches (see Outbox).
