---------------------------- MODULE ExampleApp ----------------------------
(***************************************************************************)
(* The example's chat and posts: what ChatGateway, PostGateway and         *)
(* PostResolver do with a frame, over the repositories' tables and the     *)
(* bridge's rooms. A handler is the sequence of calls it makes, and the    *)
(* invocations of several handlers interleave between any two of them.     *)
(*                                                                         *)
(* The rooms are Connection's subject, the records' delivery is Outbox's:  *)
(* here a record reaches the members of its room at once, in the order of  *)
(* the room. The clients, DynamoDB's reads and the failures are external.  *)
(***************************************************************************)
EXTENDS Naturals, Sequences, FiniteSets

CONSTANTS
    Clients,
    Tasks,      \* invocations that can be in progress at the same time
    PageSize,   \* items one page of a Query or a Scan holds
    Faults,     \* the kinds of failure considered
    MaxFaults,  \* bound: failures in one behaviour
    MaxFrames,  \* bound: frames handled
    MaxItems    \* bound: items made, with the conversation and the post there are

ASSUME ExampleAssumption ==
    /\ PageSize \in Nat \ {0} /\ Faults \subseteq {"crash", "stale"}
    /\ MaxFaults \in Nat /\ MaxFrames \in Nat /\ MaxItems \in Nat /\ MaxItems >= 2

VARIABLES
    who,        \* per client: "away", or how it is connected
    members,    \* <<client, room>>: the rows of the connection store
    adrift,     \* joins nobody awaits, that have not reached the store
    table,      \* the items the repositories hold
    outbox,     \* the records of the broadcasts, in order
    flushed,    \* those the stream is done with
    task,       \* per invocation: the client, the frame, and the calls left to make
    \* what the properties look at
    made, retracted,    \* items ever made, and removed
    heard,      \* <<client, record>>: frames sent to a client
    found,      \* per post a listing found: for whom, after how many records
    answers,    \* per listing answered: what it showed, and what it left out
    subscribed, \* <<client, n>>: post.subscribed answered after n records
    apart,      \* <<client, conversation, n>>: not in it since n records
    acked,      \* <<item, made>>: what a sender was told is made, or deleted
    silenced,   \* items whose announcement a crash cost, or that GraphQL deleted
    missed, lost, \* what a late join excuses
    faults, frames

roomVars == <<members, adrift>>
dataVars == <<table, made, retracted>>
outVars == <<outbox, flushed>>
toldVars == <<answers, subscribed, acked, apart>>
ghostVars == <<heard, found, silenced, missed, lost>>
bounds == <<faults, frames>>
vars == <<who, roomVars, dataVars, outVars, task, toldVars, ghostVars, bounds>>

Ids == 1..MaxItems
Global == <<"global", 0>>
Feed == <<"posts", 0>>
Conv(id) == <<"conv", id>>
IdsOf(kind) == {m.id : m \in {i \in table \cup retracted : i.kind = kind}}
Fault(f) == f \in Faults /\ faults < MaxFaults /\ faults' = faults + 1

Idle == [c |-> "nobody", f |-> [op |-> "post.list", arg |-> 0], left |-> <<>>,
         item |-> 0, shown |-> {}, cut |-> {}, crossed |-> FALSE]

\* "of": the conversation a message is in; "public": announced to a room.
Item(id, kind, of, public) == [id |-> id, kind |-> kind, of |-> of, public |-> public]
NewConversation(id) == Item(id, "conversation", 0, TRUE)
NewMessage(id, conversation) == Item(id, "message", conversation, TRUE)
NewPost(id, public) == Item(id, "post", 0, public)

\* There is a conversation already, and a post.
Init ==
    /\ who = [c \in Clients |-> "away"] /\ members = {} /\ adrift = {}
    /\ table = {NewConversation(1), NewPost(2, TRUE)}
    /\ made = 2 /\ retracted = {}
    /\ outbox = <<>> /\ flushed = {} /\ task = [k \in Tasks |-> Idle]
    /\ heard = {} /\ found = {} /\ answers = {} /\ subscribed = {} /\ acked = {}
    /\ apart = Clients \X Ids \X {0}
    /\ silenced = {} /\ missed = {} /\ lost = {} /\ faults = 0 /\ frames = 0

\* handleConnection: a token names the user, who is then reachable in a room of
\* its own; without one it may read. Only an { event, data } client is in the
\* global room. A bad token is refused, and leaves nothing. (A GraphQL client with
\* a token has such a room too, left out here: no handler sends to one.)
Connect(c, how) ==
    /\ who[c] = "away" /\ who' = [who EXCEPT ![c] = how]
    /\ members' = members \cup (IF how = "graphql" THEN {} ELSE {<<c, Global>>})
                          \cup (IF how = "named" THEN {<<c, <<"user", c>>>>} ELSE {})
    /\ UNCHANGED <<adrift, dataVars, outVars, toldVars, ghostVars, bounds, task>>

-----------------------------------------------------------------------------
(* The handlers: the calls each of them makes, in order                     *)

Conversations == <<"read", "answer">>
CreateConversation == <<"put", "emit", "answer">>

\* Wrong on purpose, for the mutation runs: the history is read before the room is joined.
HistoryFirst == <<"read", "join", "answer">>
Join == <<"join", "read", "answer">>
Leave == <<"leave", "answer">>

\* Wrong on purpose: the sender is answered before the message is broadcast.
AckFirst == <<"put", "answer", "emit">>
Send == <<"put", "emit", "answer">>

\* Wrong on purpose: answered, and never joined.
NeverJoined == <<"answer">>
\* client.join() is not awaited, and no dispatch scope holds it.
Subscribe == <<"drift", "answer">>
CreatePost == <<"put", "emit", "answer">>
\* Wrong on purpose: announced first.
NoticeFirst == <<"emit", "remove", "answer">>
DeletePost == <<"remove", "emit", "answer">>
ListPosts == <<"read", "answer">>

\* The mutations publish to the subscriptions' topics, not to any room.
CreatePostMutation(feed) ==
    <<"put", "publish">> \o (IF feed = 0 THEN <<>> ELSE <<"publishFeed">>) \o <<"answer">>
DeletePostMutation == <<"remove", "answer">>

Mutations == {"createPost", "deletePost"}
Deletions == {"post.delete", "deletePost"}

\* A frame is its event and the one argument that matters to where it goes.
Frames ==
    [op : {"chat.conversations", "chat.create", "post.subscribe", "post.create", "post.list"},
     arg : {0}]
    \cup [op : {"chat.join", "chat.leave", "chat.send"}, arg : IdsOf("conversation")]
    \cup [op : Deletions, arg : IdsOf("post")]
    \cup [op : {"createPost"}, arg : {0, 1}]

Handler(f) ==
    CASE f.op = "chat.conversations" -> Conversations
      [] f.op = "chat.create" -> CreateConversation
      [] f.op = "chat.join" -> Join
      [] f.op = "chat.leave" -> Leave
      [] f.op = "chat.send" -> Send
      [] f.op = "post.subscribe" -> Subscribe
      [] f.op = "post.create" -> CreatePost
      [] f.op = "post.delete" -> DeletePost
      [] f.op = "post.list" -> ListPosts
      [] f.op = "createPost" -> CreatePostMutation(f.arg)
      [] f.op = "deletePost" -> DeletePostMutation

Created(f, id) ==
    CASE f.op = "chat.create" -> NewConversation(id)
      [] f.op = "chat.send" -> NewMessage(id, f.arg)
      [] OTHER -> NewPost(id, f.op # "createPost")

\* The three listings, before DynamoDB pages them.
Directory == {m \in table : m.kind = "conversation"}
History(conversation) == {m \in table : m.kind = "message" /\ m.of = conversation}
Posts == {m \in table : m.kind = "post"}
Listed(f) ==
    CASE f.op = "chat.conversations" -> Directory
      [] f.op = "chat.join" -> History(f.arg)
      [] f.op = "post.list" -> Posts
\* Nothing but posts is ever deleted, so what a stale read may find again.
Ghosts(f) == {m \in retracted : f.op = "post.list"}

\* Wrong on purpose: a message goes to everyone.
Everyone(f) == IF f.op = "post.delete" THEN Feed ELSE Global
\* Wrong on purpose: the room of a conversation is its bare id.
Unprefixed(f) == IF f.op = "chat.send" THEN <<"", f.arg>> ELSE Everyone(f)
\* What is made is announced to everyone, except a message; a deletion is not.
RoomOf(f) ==
    IF f.op = "post.delete" THEN Feed ELSE IF f.op = "chat.send" THEN Conv(f.arg) ELSE Global

\* WsUserGuard lets nobody send who has no name.
CanActivate(c, f) == f.op = "chat.send" => who[c] = "named"

-----------------------------------------------------------------------------
(* An invocation                                                            *)

JoinFrame(id) == [op |-> "chat.join", arg |-> id]
Joining(c, id) == {k \in Tasks : task[k].c = c /\ task[k].f = JoinFrame(id)}

Start(k, c, f) ==
    /\ task[k] = Idle /\ frames < MaxFrames /\ frames' = frames + 1
    /\ CanActivate(c, f)
    /\ IF f.op \in Mutations THEN who[c] = "graphql" ELSE who[c] \in {"named", "anonymous"}
    /\ task' = [task EXCEPT ![k] =
                   [Idle EXCEPT !.c = c, !.f = f, !.left = Handler(f),
                                !.item = IF f.op \in Deletions THEN f.arg ELSE 0]]
    /\ apart' = IF f.op = "chat.join" THEN {a \in apart : <<a[1], a[2]>> # <<c, f.arg>>} ELSE apart
    /\ UNCHANGED <<who, roomVars, dataVars, outVars, answers, subscribed, acked, ghostVars, faults>>

Now(k, step) == task[k] # Idle /\ Head(task[k].left) = step
Onward(k, r) == task' = [task EXCEPT ![k] = [r EXCEPT !.left = Tail(@)]]

Put(k) ==
    /\ Now(k, "put") /\ made < MaxItems
    /\ made' = made + 1
    /\ table' = table \cup {Created(task[k].f, made')}
    /\ Onward(k, [task[k] EXCEPT !.item = made'])
    /\ UNCHANGED <<who, roomVars, retracted, outVars, toldVars, ghostVars, bounds>>

Remove(k) ==
    LET it == {m \in table : m.id = task[k].item}
    IN /\ Now(k, "remove")
       /\ table' = table \ it /\ retracted' = retracted \cup it
       /\ silenced' = silenced \cup {m.id : m \in {i \in it : task[k].f.op = "deletePost"}}
       /\ Onward(k, task[k])
       /\ UNCHANGED <<who, roomVars, made, outVars, toldVars, heard, found, missed, lost, bounds>>

\* A broadcast is one awaited record, and a publish another.
Record(k, room) ==
    /\ outbox' = Append(outbox, [room |-> room, item |-> task[k].item,
                                 made |-> task[k].f.op # "post.delete"])
    /\ Onward(k, task[k])
    /\ UNCHANGED <<who, roomVars, dataVars, flushed, toldVars, ghostVars, bounds>>
Emit(k) == Now(k, "emit") /\ Record(k, RoomOf(task[k].f))
Publish(k) == \/ Now(k, "publish") /\ Record(k, <<"added", 0>>)
              \/ Now(k, "publishFeed") /\ Record(k, <<"added", task[k].f.arg>>)

JoinRoom(k) ==
    /\ Now(k, "join")
    /\ members' = members \cup {<<task[k].c, Conv(task[k].f.arg)>>}
    /\ Onward(k, task[k])
    /\ UNCHANGED <<who, adrift, dataVars, outVars, toldVars, ghostVars, bounds>>

\* Whoever leaves is owed nothing by the joins it leaves behind.
LeaveRoom(k) ==
    LET c == task[k].c
        id == task[k].f.arg
    IN /\ Now(k, "leave")
       /\ members' = members \ {<<c, Conv(id)>>}
       /\ answers' = {a \in answers : ~(a.c = c /\ a.f = JoinFrame(id))}
       /\ task' = [q \in Tasks |->
                     IF q = k THEN [task[k] EXCEPT !.left = Tail(@)]
                     ELSE IF q \in Joining(c, id) THEN [task[q] EXCEPT !.crossed = TRUE]
                     ELSE task[q]]
       /\ UNCHANGED <<who, adrift, dataVars, outVars, subscribed, acked, apart, ghostVars, bounds>>

DriftingJoin(k) ==
    /\ Now(k, "drift")
    /\ adrift' = adrift \cup {<<task[k].c, Feed>>}
    /\ Onward(k, task[k])
    /\ UNCHANGED <<who, members, dataVars, outVars, toldVars, ghostVars, bounds>>

JoinLands(m) ==
    /\ m \in adrift /\ adrift' = adrift \ {m} /\ members' = members \cup {m}
    /\ lost' = lost \ {m}
    /\ UNCHANGED <<who, dataVars, outVars, toldVars, heard, found, silenced, missed, bounds, task>>

\* The dispatch is over, and the process with the write never thaws.
JoinFrozen(m) ==
    /\ m \in adrift /\ adrift' = adrift \ {m}
    /\ \A k \in Tasks : task[k].c = m[1] => task[k].f.op # "post.subscribe"
    /\ lost' = IF m \in members THEN lost ELSE lost \cup {m}
    /\ UNCHANGED <<who, members, dataVars, outVars, toldVars, heard, found, silenced, missed, bounds,
                   task>>

\* One Query, or Scan: its first page, in an order that is a clock's or random.
Pages(all) == IF Cardinality(all) <= PageSize THEN {all}
              ELSE {p \in SUBSET all : Cardinality(p) = PageSize}

\* Eventually consistent: a fault may leave out what was just written, and find
\* again what was just deleted.
Read(k) ==
    LET t == task[k]
        all == {m.id : m \in Listed(t.f)}
        gone == {m.id : m \in Ghosts(t.f)}
        post(id) == [c |-> t.c, item |-> id, after |-> Len(outbox), stale |-> id \notin all]
    IN /\ Now(k, "read")
       /\ \E shown \in SUBSET (all \cup gone) :
             /\ Cardinality(shown) <= PageSize
             /\ \/ shown \in Pages(all) /\ UNCHANGED faults
                \/ shown \notin Pages(all) /\ Fault("stale")
             /\ found' = found \cup {post(id) : id \in {i \in shown : t.f.op = "post.list"}}
             /\ Onward(k, [t EXCEPT !.shown = shown, !.cut = all \ shown])
       /\ UNCHANGED <<who, roomVars, dataVars, outVars, toldVars, heard, silenced, missed, lost,
                      frames>>

Told(k) ==
    LET t == task[k]
        c == t.c
    IN /\ answers' = IF t.f.op \in {"chat.conversations", "chat.join", "post.list"} /\ ~t.crossed
                     THEN answers \cup {[c |-> c, f |-> t.f, shown |-> t.shown, cut |-> t.cut]}
                     ELSE answers
       /\ subscribed' = IF t.f.op = "post.subscribe" THEN subscribed \cup {<<c, Len(outbox)>>}
                        ELSE subscribed
       /\ acked' = IF t.f.op \in {"chat.create", "chat.send", "post.create", "post.delete"}
                   THEN acked \cup {<<t.item, t.f.op # "post.delete">>} ELSE acked
       /\ apart' = IF t.f.op = "chat.leave" /\ Joining(c, t.f.arg) = {}
                      /\ <<c, Conv(t.f.arg)>> \notin members
                   THEN apart \cup {<<c, t.f.arg, Len(outbox)>>} ELSE apart
       /\ UNCHANGED <<who, roomVars, dataVars, outVars, ghostVars, bounds>>

\* An @Ack or the returned value; then the invocation goes on, or is over.
Answer(k) ==
    /\ Now(k, "answer") /\ Told(k)
    /\ task' = [task EXCEPT ![k] = IF Len(@.left) = 1 THEN Idle ELSE [@ EXCEPT !.left = Tail(@)]]

\* The container dies between two calls.
Crash(k) ==
    /\ task[k] # Idle /\ Fault("crash") /\ task' = [task EXCEPT ![k] = Idle]
    /\ silenced' = silenced \cup {task[k].item}
    /\ UNCHANGED <<who, roomVars, dataVars, outVars, toldVars, heard, found, missed, lost, frames>>

-----------------------------------------------------------------------------

\* The oldest record of a room goes to who is in the room.
Flush(n) ==
    LET room == outbox[n].room
        out == {c \in Clients : <<c, room>> \notin members}
    IN /\ n \in DOMAIN outbox \ flushed
       /\ \A m \in DOMAIN outbox : m < n /\ outbox[m].room = room => m \in flushed
       /\ flushed' = flushed \cup {n}
       /\ heard' = heard \cup ((Clients \ out) \X {n})
       /\ missed' = missed \cup {<<c, n>> : c \in {b \in out : <<b, room>> \in adrift \cup lost}}
       /\ UNCHANGED <<who, roomVars, dataVars, outbox, toldVars, found, silenced, lost, bounds, task>>

Next ==
    \/ \E c \in Clients : \/ \E how \in {"anonymous", "named", "graphql"} : Connect(c, how)
                          \/ \E k \in Tasks, f \in Frames : Start(k, c, f)
    \/ \E k \in Tasks :
         \/ Put(k) \/ Remove(k) \/ Emit(k) \/ Publish(k) \/ JoinRoom(k) \/ LeaveRoom(k)
         \/ DriftingJoin(k) \/ Read(k) \/ Answer(k) \/ Crash(k)
    \/ \E m \in adrift : JoinLands(m) \/ JoinFrozen(m)
    \/ \E n \in DOMAIN outbox : Flush(n)

Spec == Init /\ [][Next]_vars

-----------------------------------------------------------------------------
(* Properties                                                               *)

Kinds == {"conversation", "message", "post"}
Items == [id : Ids, kind : Kinds, of : {0} \cup Ids, public : BOOLEAN]
Rooms == {Global, Feed} \cup {Conv(id) : id \in Ids} \cup {<<"user", c>> : c \in Clients}
                        \cup {<<"added", feed>> : feed \in {0, 1}}

TypeOK ==
    /\ who \in [Clients -> {"away", "anonymous", "named", "graphql"}]
    /\ members \subseteq Clients \X Rooms /\ adrift \subseteq Clients \X {Feed}
    /\ table \subseteq Items /\ retracted \subseteq Items /\ made \in 2..MaxItems
    /\ {m.id : m \in table \cup retracted} = 1..made
    /\ outbox \in Seq([room : Rooms, item : Ids, made : BOOLEAN])
    /\ flushed \subseteq DOMAIN outbox /\ heard \subseteq Clients \X flushed
    /\ \A k \in Tasks : task[k] = Idle \/
          /\ task[k].c \in Clients /\ task[k].item \in {0} \cup Ids
          /\ \E n \in 1..4 : task[k].left = SubSeq(Handler(task[k].f), n, Len(Handler(task[k].f)))
    /\ found \subseteq [c : Clients, item : Ids, after : Nat, stale : BOOLEAN]
    /\ acked \subseteq Ids \X BOOLEAN /\ faults \in 0..MaxFaults /\ frames \in 0..MaxFrames

\* Record n announces item m.
Announces(n, m) == outbox[n].item = m.id /\ outbox[n].made
Announcing(k, m) == task[k].item = m.id /\ \E j \in DOMAIN task[k].left : task[k].left[j] = "emit"

\* Nothing falls between a listing and the frames that follow it: whoever was
\* answered chat.joined, the directory or the feed has, or will hear of, every item
\* of that list, those stored while it was being read included. Not so, by the
\* code: what a single page or an eventually consistent read left out, what a crash
\* kept from being announced, and a post GraphQL made.
CaughtUp == \A a \in answers : \A m \in Listed(a.f) :
    \/ m.id \in a.shown \cup a.cut \cup silenced \/ ~m.public
    \/ \E k \in Tasks : Announcing(k, m)
    \/ \E n \in DOMAIN outbox : Announces(n, m) /\ (n \in flushed => <<a.c, n>> \in heard)

\* Whoever was answered post.subscribed hears of every deletion recorded from then
\* on, unless the join nobody awaits had not reached the store when it was sent.
SubscribedHears == \A s \in subscribed, n \in flushed :
    outbox[n].room = Feed /\ n > s[2] => <<s[1], n>> \in heard \cup missed

\* A message reaches nobody who never asked for its conversation, and after chat.left
\* nothing recorded later does, unless it was joined again.
OnlyTheConversation == \A h \in heard, a \in apart, m \in table :
    h[1] = a[1] /\ m.kind = "message" /\ m.of = a[2] /\ outbox[h[2]].item = m.id => h[2] <= a[3]

\* Nor does a deletion: a post some listing found, and that is gone, has its
\* post.deleted recorded behind that read, or on its way there; and whoever subscribed
\* before it was recorded has it, or will. Not so, by the code: the record is there
\* already if a stale read found the post again, a crash or a deletion by GraphQL
\* leaves none, and the join nobody awaits may come too late for it.
DeletionsReach == \A p \in found, m \in retracted : p.item = m.id =>
    \/ m.id \in silenced
    \/ \E k \in Tasks : task[k].f.op = "post.delete" /\ Announcing(k, m)
    \/ \E n \in DOMAIN outbox :
          /\ outbox[n].item = m.id /\ ~outbox[n].made /\ (n > p.after \/ p.stale)
          /\ n \in flushed /\ (\E s \in subscribed : s[1] = p.c /\ s[2] < n) =>
                 <<p.c, n>> \in heard \cup missed

\* An acknowledged write is stored, an acknowledged deletion done, and the broadcast
\* of either recorded, whatever crashes next.
AckedIsAnnounced == \A a \in acked :
    /\ \E n \in DOMAIN outbox : outbox[n].item = a[1] /\ outbox[n].made = a[2]
    /\ IF a[2] THEN \E m \in table \cup retracted : m.id = a[1]
       ELSE \A m \in table : m.id # a[1]
=============================================================================
