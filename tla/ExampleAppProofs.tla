-------------------------- MODULE ExampleAppProofs --------------------------
(***************************************************************************)
(* Proofs about ExampleApp: its type invariant and its five invariants, for *)
(* every number of clients, invocations, frames, items and failures.       *)
(***************************************************************************)
EXTENDS ExampleApp, TLAPS, SequenceTheorems

Makers == {"chat.create", "chat.send", "post.create", "createPost"}
Listings == {"chat.conversations", "chat.join", "post.list"}
Notifiers == {"chat.create", "chat.send", "post.create", "post.delete"}

AnyFrames ==
    [op : {"chat.conversations", "chat.create", "post.subscribe", "post.create", "post.list"},
     arg : {0}]
    \cup [op : {"chat.join", "chat.leave", "chat.send"} \cup Deletions, arg : Ids]
    \cup [op : {"createPost"}, arg : {0, 1}]

-----------------------------------------------------------------------------
(* The calls an invocation has left                                         *)

\* What is left of a handler's calls, after any number of them.
CallsOf(f) ==
    CASE f.op \in {"chat.conversations", "post.list"} -> {<<"read", "answer">>, <<"answer">>}
      [] f.op \in {"chat.create", "chat.send", "post.create"} ->
           {<<"put", "emit", "answer">>, <<"emit", "answer">>, <<"answer">>}
      [] f.op = "chat.join" -> {<<"join", "read", "answer">>, <<"read", "answer">>, <<"answer">>}
      [] f.op = "chat.leave" -> {<<"leave", "answer">>, <<"answer">>}
      [] f.op = "post.subscribe" -> {<<"drift", "answer">>, <<"answer">>}
      [] f.op = "post.delete" ->
           {<<"remove", "emit", "answer">>, <<"emit", "answer">>, <<"answer">>}
      [] f.op = "deletePost" -> {<<"remove", "answer">>, <<"answer">>}
      [] f.op = "createPost" ->
           {<<"answer">>} \cup
           IF f.arg = 0 THEN {<<"put", "publish", "answer">>, <<"publish", "answer">>}
           ELSE {<<"put", "publish", "publishFeed", "answer">>,
                 <<"publish", "publishFeed", "answer">>, <<"publishFeed", "answer">>}

\* A broadcast is still to be recorded.
HasEmit(l) == \E j \in DOMAIN l : l[j] = "emit"

\* The first call of each.
LEMMA ListHeads ==
    /\ Head(<<"read", "answer">>) = "read"
    /\ Head(<<"put", "emit", "answer">>) = "put"
    /\ Head(<<"emit", "answer">>) = "emit"
    /\ Head(<<"answer">>) = "answer"
    /\ Head(<<"join", "read", "answer">>) = "join"
    /\ Head(<<"leave", "answer">>) = "leave"
    /\ Head(<<"drift", "answer">>) = "drift"
    /\ Head(<<"remove", "emit", "answer">>) = "remove"
    /\ Head(<<"remove", "answer">>) = "remove"
    /\ Head(<<"put", "publish", "answer">>) = "put"
    /\ Head(<<"publish", "answer">>) = "publish"
    /\ Head(<<"put", "publish", "publishFeed", "answer">>) = "put"
    /\ Head(<<"publish", "publishFeed", "answer">>) = "publish"
    /\ Head(<<"publishFeed", "answer">>) = "publishFeed"
<1>1. Head(<<"read", "answer">>) = "read"
  OBVIOUS
<1>2. Head(<<"put", "emit", "answer">>) = "put"
  OBVIOUS
<1>3. Head(<<"emit", "answer">>) = "emit"
  OBVIOUS
<1>4. Head(<<"answer">>) = "answer"
  OBVIOUS
<1>5. Head(<<"join", "read", "answer">>) = "join"
  OBVIOUS
<1>6. Head(<<"leave", "answer">>) = "leave"
  OBVIOUS
<1>7. Head(<<"drift", "answer">>) = "drift"
  OBVIOUS
<1>8. Head(<<"remove", "emit", "answer">>) = "remove"
  OBVIOUS
<1>9. Head(<<"remove", "answer">>) = "remove"
  OBVIOUS
<1>10. Head(<<"put", "publish", "answer">>) = "put"
  OBVIOUS
<1>11. Head(<<"publish", "answer">>) = "publish"
  OBVIOUS
<1>12. Head(<<"put", "publish", "publishFeed", "answer">>) = "put"
  OBVIOUS
<1>13. Head(<<"publish", "publishFeed", "answer">>) = "publish"
  OBVIOUS
<1>14. Head(<<"publishFeed", "answer">>) = "publishFeed"
  OBVIOUS
<1> QED
  BY <1>1, <1>2, <1>3, <1>4, <1>5, <1>6, <1>7, <1>8, <1>9, <1>10, <1>11, <1>12, <1>13, <1>14

\* And the calls that follow it.
LEMMA ListTails ==
    /\ Tail(<<"read", "answer">>) = <<"answer">>
    /\ Tail(<<"put", "emit", "answer">>) = <<"emit", "answer">>
    /\ Tail(<<"emit", "answer">>) = <<"answer">>
    /\ Tail(<<"join", "read", "answer">>) = <<"read", "answer">>
    /\ Tail(<<"leave", "answer">>) = <<"answer">>
    /\ Tail(<<"drift", "answer">>) = <<"answer">>
    /\ Tail(<<"remove", "emit", "answer">>) = <<"emit", "answer">>
    /\ Tail(<<"remove", "answer">>) = <<"answer">>
    /\ Tail(<<"put", "publish", "answer">>) = <<"publish", "answer">>
    /\ Tail(<<"publish", "answer">>) = <<"answer">>
    /\ Tail(<<"put", "publish", "publishFeed", "answer">>) = <<"publish", "publishFeed", "answer">>
    /\ Tail(<<"publish", "publishFeed", "answer">>) = <<"publishFeed", "answer">>
    /\ Tail(<<"publishFeed", "answer">>) = <<"answer">>
<1>1. Tail(<<"read", "answer">>) = <<"answer">>
  OBVIOUS
<1>2. Tail(<<"put", "emit", "answer">>) = <<"emit", "answer">>
  OBVIOUS
<1>3. Tail(<<"emit", "answer">>) = <<"answer">>
  OBVIOUS
<1>4. Tail(<<"join", "read", "answer">>) = <<"read", "answer">>
  OBVIOUS
<1>5. Tail(<<"leave", "answer">>) = <<"answer">>
  OBVIOUS
<1>6. Tail(<<"drift", "answer">>) = <<"answer">>
  OBVIOUS
<1>7. Tail(<<"remove", "emit", "answer">>) = <<"emit", "answer">>
  OBVIOUS
<1>8. Tail(<<"remove", "answer">>) = <<"answer">>
  OBVIOUS
<1>9. Tail(<<"put", "publish", "answer">>) = <<"publish", "answer">>
  OBVIOUS
<1>10. Tail(<<"publish", "answer">>) = <<"answer">>
  OBVIOUS
<1>11. Tail(<<"put", "publish", "publishFeed", "answer">>) = <<"publish", "publishFeed", "answer">>
  OBVIOUS
<1>12. Tail(<<"publish", "publishFeed", "answer">>) = <<"publishFeed", "answer">>
  OBVIOUS
<1>13. Tail(<<"publishFeed", "answer">>) = <<"answer">>
  OBVIOUS
<1> QED
  BY <1>1, <1>2, <1>3, <1>4, <1>5, <1>6, <1>7, <1>8, <1>9, <1>10, <1>11, <1>12, <1>13

\* One more call at the end of a list.
LEMMA OneMore ==
    ASSUME NEW a, NEW b, NEW c, NEW d
    PROVE  <<a, b>> \o <<c>> = <<a, b, c>> /\ <<a, b, c>> \o <<d>> = <<a, b, c, d>>
<1> DEFINE S == {a, b, c, d}
<1>1. /\ <<a, b>> \in Seq(S) /\ Len(<<a, b>>) = 2
      /\ <<a, b, c>> \in Seq(S) /\ Len(<<a, b, c>>) = 3
      /\ <<a, b, c, d>> \in Seq(S) /\ Len(<<a, b, c, d>>) = 4
  OBVIOUS
<1>2. <<a, b>> \o <<c>> = <<a, b, c>>
  <2>1. Append(<<a, b>>, c) \in Seq(S) /\ Len(Append(<<a, b>>, c)) = 3
    BY <1>1, AppendProperties
  <2>2. \A i \in 1..3 : Append(<<a, b>>, c)[i] = <<a, b, c>>[i]
    BY <1>1, AppendProperties
  <2>3. Append(<<a, b>>, c) = <<a, b, c>>
    BY <1>1, <2>1, <2>2, SeqEqual
  <2> QED
    BY <1>1, <2>3, AppendIsConcat
<1>3. <<a, b, c>> \o <<d>> = <<a, b, c, d>>
  <2>1. Append(<<a, b, c>>, d) \in Seq(S) /\ Len(Append(<<a, b, c>>, d)) = 4
    BY <1>1, AppendProperties
  <2>2. \A i \in 1..4 : Append(<<a, b, c>>, d)[i] = <<a, b, c, d>>[i]
    BY <1>1, AppendProperties
  <2>3. Append(<<a, b, c>>, d) = <<a, b, c, d>>
    BY <1>1, <2>1, <2>2, SeqEqual
  <2> QED
    BY <1>1, <2>3, AppendIsConcat
<1> QED
  BY <1>2, <1>3

\* CreatePostMutation publishes to one topic, or to two.
LEMMA TopicsPublished ==
    /\ CreatePostMutation(0) = <<"put", "publish", "answer">>
    /\ CreatePostMutation(1) = <<"put", "publish", "publishFeed", "answer">>
<1> DEFINE two == <<"put", "publish">>
           three == <<"put", "publish", "publishFeed">>
<1>1. two \o <<>> = two
  OBVIOUS
<1>2. two \o <<"publishFeed">> = three /\ three \o <<"answer">> = <<"put", "publish", "publishFeed", "answer">>
  BY OneMore, Zenon
<1>3. two \o <<"answer">> = <<"put", "publish", "answer">>
  BY OneMore, Zenon
<1>4. CreatePostMutation(0) = (two \o <<>>) \o <<"answer">>
  BY DEF CreatePostMutation
<1>5. CreatePostMutation(1) = (two \o <<"publishFeed">>) \o <<"answer">>
  BY DEF CreatePostMutation
<1> HIDE DEF two, three
<1> QED
  BY <1>1, <1>2, <1>3, <1>4, <1>5, Zenon

\* A handler starts with all of its calls.
LEMMA HandlerIsItsCalls ==
    ASSUME NEW f \in AnyFrames
    PROVE  Handler(f) \in CallsOf(f)
  BY TopicsPublished DEF AnyFrames, Handler, CallsOf, Deletions, Conversations, CreateConversation, Join, Leave, Send,
     Subscribe, CreatePost, DeletePost, ListPosts, DeletePostMutation

\* An invocation has calls left, and answers last.
LEMMA CallsEnd ==
    ASSUME NEW f \in AnyFrames, NEW l \in CallsOf(f)
    PROVE  /\ l # <<>>
           /\ Head(l) = "answer" => l = <<"answer">>
           /\ Len(l) = 1 => l = <<"answer">>
<1>1. CASE f.op \in {"chat.conversations", "post.list"}
  BY <1>1, SMT DEF CallsOf
<1>2. CASE f.op \in {"chat.create", "chat.send", "post.create"}
  BY <1>2, SMT DEF CallsOf
<1>3. CASE f.op = "chat.join"
  BY <1>3, SMT DEF CallsOf
<1>4. CASE f.op = "chat.leave"
  BY <1>4, SMT DEF CallsOf
<1>5. CASE f.op = "post.subscribe"
  BY <1>5, SMT DEF CallsOf
<1>6. CASE f.op = "post.delete"
  BY <1>6, SMT DEF CallsOf
<1>7. CASE f.op = "deletePost"
  BY <1>7, SMT DEF CallsOf
<1>8. CASE f.op = "createPost" /\ f.arg = 0
  BY <1>8, SMT DEF CallsOf
<1>9. CASE f.op = "createPost" /\ f.arg # 0
  BY <1>9, SMT DEF CallsOf
<1> QED
  BY <1>1, <1>2, <1>3, <1>4, <1>5, <1>6, <1>7, <1>8, <1>9 DEF AnyFrames, Deletions

\* Its next call made, an invocation has the others left: only the first stores, or
\* removes, or joins a room.
LEMMA CallsGoOn ==
    ASSUME NEW f \in AnyFrames, NEW l \in CallsOf(f), Head(l) # "answer"
    PROVE  /\ Tail(l) \in CallsOf(f)
           /\ Head(Tail(l)) \notin {"put", "remove", "join"}
<1>1. CASE f.op \in {"chat.conversations", "post.list"}
  BY <1>1, ListHeads, ListTails, Zenon DEF CallsOf
<1>2. CASE f.op \in {"chat.create", "chat.send", "post.create"}
  BY <1>2, ListHeads, ListTails, Zenon DEF CallsOf
<1>3. CASE f.op = "chat.join"
  BY <1>3, ListHeads, ListTails, Zenon DEF CallsOf
<1>4. CASE f.op = "chat.leave"
  BY <1>4, ListHeads, ListTails, Zenon DEF CallsOf
<1>5. CASE f.op = "post.subscribe"
  BY <1>5, ListHeads, ListTails, Zenon DEF CallsOf
<1>6. CASE f.op = "post.delete"
  BY <1>6, ListHeads, ListTails, Zenon DEF CallsOf
<1>7. CASE f.op = "deletePost"
  BY <1>7, ListHeads, ListTails, Zenon DEF CallsOf
<1>8. CASE f.op = "createPost" /\ f.arg = 0
  BY <1>8, ListHeads, ListTails, Zenon DEF CallsOf
<1>9. CASE f.op = "createPost" /\ f.arg # 0
  BY <1>9, ListHeads, ListTails, Zenon DEF CallsOf
<1> QED
  BY <1>1, <1>2, <1>3, <1>4, <1>5, <1>6, <1>7, <1>8, <1>9 DEF AnyFrames, Deletions

\* The calls only some of the handlers make.
LEMMA CallsBy ==
    ASSUME NEW f \in AnyFrames, NEW l \in CallsOf(f)
    PROVE  /\ Head(l) = "put" => f.op \in Makers
           /\ Head(l) = "remove" => f.op \in Deletions
           /\ Head(l) = "emit" => f.op \in Notifiers /\ Tail(l) = <<"answer">>
           /\ Head(l) \in {"publish", "publishFeed"} => f.op = "createPost"
           /\ Head(l) = "join" => f.op = "chat.join"
           /\ Head(l) = "leave" => f.op = "chat.leave"
           /\ Head(l) = "drift" => f.op = "post.subscribe"
           /\ Head(l) = "read" => f.op \in Listings /\ Tail(l) = <<"answer">>
<1>1. CASE f.op \in {"chat.conversations", "post.list"}
  BY <1>1, ListHeads, ListTails, Zenon DEF CallsOf, Makers, Deletions, Notifiers, Listings
<1>2. CASE f.op \in {"chat.create", "chat.send", "post.create"}
  BY <1>2, ListHeads, ListTails, Zenon DEF CallsOf, Makers, Deletions, Notifiers, Listings
<1>3. CASE f.op = "chat.join"
  BY <1>3, ListHeads, ListTails, Zenon DEF CallsOf, Makers, Deletions, Notifiers, Listings
<1>4. CASE f.op = "chat.leave"
  BY <1>4, ListHeads, ListTails, Zenon DEF CallsOf, Makers, Deletions, Notifiers, Listings
<1>5. CASE f.op = "post.subscribe"
  BY <1>5, ListHeads, ListTails, Zenon DEF CallsOf, Makers, Deletions, Notifiers, Listings
<1>6. CASE f.op = "post.delete"
  BY <1>6, ListHeads, ListTails, Zenon DEF CallsOf, Makers, Deletions, Notifiers, Listings
<1>7. CASE f.op = "deletePost"
  BY <1>7, ListHeads, ListTails, Zenon DEF CallsOf, Makers, Deletions, Notifiers, Listings
<1>8. CASE f.op = "createPost" /\ f.arg = 0
  BY <1>8, ListHeads, ListTails, Zenon DEF CallsOf, Makers, Deletions, Notifiers, Listings
<1>9. CASE f.op = "createPost" /\ f.arg # 0
  BY <1>9, ListHeads, ListTails, Zenon DEF CallsOf, Makers, Deletions, Notifiers, Listings
<1> QED
  BY <1>1, <1>2, <1>3, <1>4, <1>5, <1>6, <1>7, <1>8, <1>9 DEF AnyFrames, Deletions

\* Which lists hold a broadcast.
LEMMA ListEmits ==
    /\ ~HasEmit(<<"read", "answer">>)
    /\ HasEmit(<<"put", "emit", "answer">>)
    /\ HasEmit(<<"emit", "answer">>)
    /\ ~HasEmit(<<"answer">>)
    /\ ~HasEmit(<<"join", "read", "answer">>)
    /\ ~HasEmit(<<"leave", "answer">>)
    /\ ~HasEmit(<<"drift", "answer">>)
    /\ HasEmit(<<"remove", "emit", "answer">>)
    /\ ~HasEmit(<<"remove", "answer">>)
    /\ ~HasEmit(<<"put", "publish", "answer">>)
    /\ ~HasEmit(<<"publish", "answer">>)
    /\ ~HasEmit(<<"put", "publish", "publishFeed", "answer">>)
    /\ ~HasEmit(<<"publish", "publishFeed", "answer">>)
    /\ ~HasEmit(<<"publishFeed", "answer">>)
<1>1. ~HasEmit(<<"read", "answer">>)
  BY DEF HasEmit
<1>2. HasEmit(<<"put", "emit", "answer">>)
  BY DEF HasEmit
<1>3. HasEmit(<<"emit", "answer">>)
  BY DEF HasEmit
<1>4. ~HasEmit(<<"answer">>)
  BY DEF HasEmit
<1>5. ~HasEmit(<<"join", "read", "answer">>)
  BY DEF HasEmit
<1>6. ~HasEmit(<<"leave", "answer">>)
  BY DEF HasEmit
<1>7. ~HasEmit(<<"drift", "answer">>)
  BY DEF HasEmit
<1>8. HasEmit(<<"remove", "emit", "answer">>)
  BY DEF HasEmit
<1>9. ~HasEmit(<<"remove", "answer">>)
  BY DEF HasEmit
<1>10. ~HasEmit(<<"put", "publish", "answer">>)
  BY DEF HasEmit
<1>11. ~HasEmit(<<"publish", "answer">>)
  BY DEF HasEmit
<1>12. ~HasEmit(<<"put", "publish", "publishFeed", "answer">>)
  BY DEF HasEmit
<1>13. ~HasEmit(<<"publish", "publishFeed", "answer">>)
  BY DEF HasEmit
<1>14. ~HasEmit(<<"publishFeed", "answer">>)
  BY DEF HasEmit
<1> QED
  BY <1>1, <1>2, <1>3, <1>4, <1>5, <1>6, <1>7, <1>8, <1>9, <1>10, <1>11, <1>12, <1>13, <1>14

\* A broadcast stays to be recorded until it is recorded, and what was stored by a frame
\* of a gateway is to be broadcast.
LEMMA CallsEmit ==
    ASSUME NEW f \in AnyFrames, NEW l \in CallsOf(f)
    PROVE  /\ HasEmit(l) => f.op \in Notifiers
           /\ HasEmit(l) /\ Head(l) # "emit" => HasEmit(Tail(l))
           /\ Head(l) = "put" /\ f.op # "createPost" => HasEmit(Tail(l))
           /\ l = <<"answer">> => ~HasEmit(l)
<1>1. CASE f.op \in {"chat.conversations", "post.list"}
  BY <1>1, ListHeads, ListTails, ListEmits, Zenon DEF CallsOf, Notifiers
<1>2. CASE f.op \in {"chat.create", "chat.send", "post.create"}
  BY <1>2, ListHeads, ListTails, ListEmits, Zenon DEF CallsOf, Notifiers
<1>3. CASE f.op = "chat.join"
  BY <1>3, ListHeads, ListTails, ListEmits, Zenon DEF CallsOf, Notifiers
<1>4. CASE f.op = "chat.leave"
  BY <1>4, ListHeads, ListTails, ListEmits, Zenon DEF CallsOf, Notifiers
<1>5. CASE f.op = "post.subscribe"
  BY <1>5, ListHeads, ListTails, ListEmits, Zenon DEF CallsOf, Notifiers
<1>6. CASE f.op = "post.delete"
  BY <1>6, ListHeads, ListTails, ListEmits, Zenon DEF CallsOf, Notifiers
<1>7. CASE f.op = "deletePost"
  BY <1>7, ListHeads, ListTails, ListEmits, Zenon DEF CallsOf, Notifiers
<1>8. CASE f.op = "createPost" /\ f.arg = 0
  BY <1>8, ListHeads, ListTails, ListEmits, Zenon DEF CallsOf, Notifiers
<1>9. CASE f.op = "createPost" /\ f.arg # 0
  BY <1>9, ListHeads, ListTails, ListEmits, Zenon DEF CallsOf, Notifiers
<1> QED
  BY <1>1, <1>2, <1>3, <1>4, <1>5, <1>6, <1>7, <1>8, <1>9 DEF AnyFrames, Deletions

\* Whoever is told of what it announced has its broadcast before its answer.
LEMMA CallsAnnounce ==
    ASSUME NEW f \in AnyFrames, NEW l \in CallsOf(f),
           f.op \in Notifiers, Head(l) # "answer", Head(l) # "emit"
    PROVE  Tail(l) # <<"answer">>
<1>1. CASE f.op \in {"chat.conversations", "post.list"}
  BY <1>1, ListHeads, ListTails, Zenon DEF CallsOf, Notifiers
<1>2. CASE f.op \in {"chat.create", "chat.send", "post.create"}
  BY <1>2, ListHeads, ListTails, Zenon DEF CallsOf, Notifiers
<1>3. CASE f.op = "chat.join"
  BY <1>3, ListHeads, ListTails, Zenon DEF CallsOf, Notifiers
<1>4. CASE f.op = "chat.leave"
  BY <1>4, ListHeads, ListTails, Zenon DEF CallsOf, Notifiers
<1>5. CASE f.op = "post.subscribe"
  BY <1>5, ListHeads, ListTails, Zenon DEF CallsOf, Notifiers
<1>6. CASE f.op = "post.delete"
  BY <1>6, ListHeads, ListTails, Zenon DEF CallsOf, Notifiers
<1>7. CASE f.op = "deletePost"
  BY <1>7, ListHeads, ListTails, Zenon DEF CallsOf, Notifiers
<1>8. CASE f.op = "createPost" /\ f.arg = 0
  BY <1>8, ListHeads, ListTails, Zenon DEF CallsOf, Notifiers
<1>9. CASE f.op = "createPost" /\ f.arg # 0
  BY <1>9, ListHeads, ListTails, Zenon DEF CallsOf, Notifiers
<1> QED
  BY <1>1, <1>2, <1>3, <1>4, <1>5, <1>6, <1>7, <1>8, <1>9 DEF AnyFrames, Deletions

\* A listing is read once its room is joined, and answered once it is read.
LEMMA CallsList ==
    ASSUME NEW f \in AnyFrames, NEW l \in CallsOf(f), Head(l) # "answer"
    PROVE  /\ f.op \in Listings /\ Head(l) # "read" => Tail(l) # <<"answer">>
           /\ f.op = "post.subscribe" => Head(l) = "drift"
           /\ f.op = "chat.join" => Head(l) \in {"join", "read"}
<1>1. CASE f.op \in {"chat.conversations", "post.list"}
  BY <1>1, ListHeads, ListTails, Zenon DEF CallsOf, Listings
<1>2. CASE f.op \in {"chat.create", "chat.send", "post.create"}
  BY <1>2, ListHeads, ListTails, Zenon DEF CallsOf, Listings
<1>3. CASE f.op = "chat.join"
  BY <1>3, ListHeads, ListTails, Zenon DEF CallsOf, Listings
<1>4. CASE f.op = "chat.leave"
  BY <1>4, ListHeads, ListTails, Zenon DEF CallsOf, Listings
<1>5. CASE f.op = "post.subscribe"
  BY <1>5, ListHeads, ListTails, Zenon DEF CallsOf, Listings
<1>6. CASE f.op = "post.delete"
  BY <1>6, ListHeads, ListTails, Zenon DEF CallsOf, Listings
<1>7. CASE f.op = "deletePost"
  BY <1>7, ListHeads, ListTails, Zenon DEF CallsOf, Listings
<1>8. CASE f.op = "createPost" /\ f.arg = 0
  BY <1>8, ListHeads, ListTails, Zenon DEF CallsOf, Listings
<1>9. CASE f.op = "createPost" /\ f.arg # 0
  BY <1>9, ListHeads, ListTails, Zenon DEF CallsOf, Listings
<1> QED
  BY <1>1, <1>2, <1>3, <1>4, <1>5, <1>6, <1>7, <1>8, <1>9 DEF AnyFrames, Deletions

\* No handler answers first, and a join comes first in its own.
LEMMA HandlerAsks ==
    ASSUME NEW f \in AnyFrames
    PROVE  /\ Handler(f) # <<"answer">>
           /\ f.op = "chat.join" => Head(Handler(f)) = "join"
           /\ f.op \in {"post.create", "chat.create", "chat.send"} => HasEmit(Handler(f))
<1>1. CreatePostMutation(0) # <<"answer">> /\ CreatePostMutation(1) # <<"answer">>
  BY TopicsPublished, ListHeads, Zenon
<1>2. CASE f.op = "createPost"
  BY <1>1, <1>2 DEF AnyFrames, Handler, Deletions
<1>3. CASE f.op # "createPost"
  <2>1. Handler(f) \in {<<"read", "answer">>, <<"put", "emit", "answer">>, <<"join", "read", "answer">>,
                        <<"leave", "answer">>, <<"drift", "answer">>, <<"remove", "emit", "answer">>,
                        <<"remove", "answer">>}
    BY <1>3 DEF AnyFrames, Handler, Deletions, Conversations, CreateConversation, Join, Leave, Send,
       Subscribe, CreatePost, DeletePost, ListPosts, DeletePostMutation
  <2>2. Handler(f) # <<"answer">>
    BY <2>1, ListHeads, Zenon
  <2>3. f.op = "chat.join" => Head(Handler(f)) = "join"
    BY ListHeads DEF Handler, Join
  <2>4. f.op \in {"post.create", "chat.create", "chat.send"} => HasEmit(Handler(f))
    BY ListEmits DEF Handler, CreatePost, CreateConversation, Send
  <2> QED
    BY <2>2, <2>3, <2>4
<1> QED
  BY <1>2, <1>3

\* The ends of a sequence of two.
LEMMA EndsOfTwo ==
    ASSUME NEW a, NEW b
    PROVE  /\ SubSeq(<<a, b>>, 1, 2) = <<a, b>>
           /\ SubSeq(<<a, b>>, 2, 2) = <<b>>
<1> DEFINE S == {a, b}
<1>0. /\ <<a, b>> \in Seq(S) /\ Len(<<a, b>>) = 2
      /\ <<b>> \in Seq(S) /\ Len(<<b>>) = 1
  OBVIOUS
<1>1. SubSeq(<<a, b>>, 1, 2) = <<a, b>>
  <2>1. /\ SubSeq(<<a, b>>, 1, 2) \in Seq(S) /\ Len(SubSeq(<<a, b>>, 1, 2)) = 2
        /\ \A i \in 1..2 : SubSeq(<<a, b>>, 1, 2)[i] = <<a, b>>[i]
    BY <1>0, SubSeqProperties
  <2> QED
    BY <1>0, <2>1, SeqEqual
<1>2. SubSeq(<<a, b>>, 2, 2) = <<b>>
  <2>1. /\ SubSeq(<<a, b>>, 2, 2) \in Seq(S) /\ Len(SubSeq(<<a, b>>, 2, 2)) = 1
        /\ \A i \in 1..1 : SubSeq(<<a, b>>, 2, 2)[i] = <<b>>[i]
    BY <1>0, SubSeqProperties
  <2> QED
    BY <1>0, <2>1, SeqEqual
<1> QED
  BY <1>1, <1>2

\* The ends of a sequence of three.
LEMMA EndsOfThree ==
    ASSUME NEW a, NEW b, NEW c
    PROVE  /\ SubSeq(<<a, b, c>>, 1, 3) = <<a, b, c>>
           /\ SubSeq(<<a, b, c>>, 2, 3) = <<b, c>>
           /\ SubSeq(<<a, b, c>>, 3, 3) = <<c>>
<1> DEFINE S == {a, b, c}
<1>0. /\ <<a, b, c>> \in Seq(S) /\ Len(<<a, b, c>>) = 3
      /\ <<b, c>> \in Seq(S) /\ Len(<<b, c>>) = 2
      /\ <<c>> \in Seq(S) /\ Len(<<c>>) = 1
  OBVIOUS
<1>1. SubSeq(<<a, b, c>>, 1, 3) = <<a, b, c>>
  <2>1. /\ SubSeq(<<a, b, c>>, 1, 3) \in Seq(S) /\ Len(SubSeq(<<a, b, c>>, 1, 3)) = 3
        /\ \A i \in 1..3 : SubSeq(<<a, b, c>>, 1, 3)[i] = <<a, b, c>>[i]
    BY <1>0, SubSeqProperties
  <2> QED
    BY <1>0, <2>1, SeqEqual
<1>2. SubSeq(<<a, b, c>>, 2, 3) = <<b, c>>
  <2>1. /\ SubSeq(<<a, b, c>>, 2, 3) \in Seq(S) /\ Len(SubSeq(<<a, b, c>>, 2, 3)) = 2
        /\ \A i \in 1..2 : SubSeq(<<a, b, c>>, 2, 3)[i] = <<b, c>>[i]
    BY <1>0, SubSeqProperties
  <2> QED
    BY <1>0, <2>1, SeqEqual
<1>3. SubSeq(<<a, b, c>>, 3, 3) = <<c>>
  <2>1. /\ SubSeq(<<a, b, c>>, 3, 3) \in Seq(S) /\ Len(SubSeq(<<a, b, c>>, 3, 3)) = 1
        /\ \A i \in 1..1 : SubSeq(<<a, b, c>>, 3, 3)[i] = <<c>>[i]
    BY <1>0, SubSeqProperties
  <2> QED
    BY <1>0, <2>1, SeqEqual
<1> QED
  BY <1>1, <1>2, <1>3

\* The ends of the longest list of calls.
LEMMA EndsOfTheLongest ==
    /\ SubSeq(<<"put", "publish", "publishFeed", "answer">>, 1, 4) = <<"put", "publish", "publishFeed", "answer">>
    /\ SubSeq(<<"put", "publish", "publishFeed", "answer">>, 2, 4) = <<"publish", "publishFeed", "answer">>
    /\ SubSeq(<<"put", "publish", "publishFeed", "answer">>, 3, 4) = <<"publishFeed", "answer">>
    /\ SubSeq(<<"put", "publish", "publishFeed", "answer">>, 4, 4) = <<"answer">>
<1> DEFINE S == {"put", "publish", "publishFeed", "answer"}
<1>0. /\ <<"put", "publish", "publishFeed", "answer">> \in Seq(S) /\ Len(<<"put", "publish", "publishFeed", "answer">>) = 4
      /\ <<"publish", "publishFeed", "answer">> \in Seq(S) /\ Len(<<"publish", "publishFeed", "answer">>) = 3
      /\ <<"publishFeed", "answer">> \in Seq(S) /\ Len(<<"publishFeed", "answer">>) = 2
      /\ <<"answer">> \in Seq(S) /\ Len(<<"answer">>) = 1
  OBVIOUS
<1>1. SubSeq(<<"put", "publish", "publishFeed", "answer">>, 1, 4) = <<"put", "publish", "publishFeed", "answer">>
  <2>1. /\ SubSeq(<<"put", "publish", "publishFeed", "answer">>, 1, 4) \in Seq(S) /\ Len(SubSeq(<<"put", "publish", "publishFeed", "answer">>, 1, 4)) = 4
        /\ \A i \in 1..4 : SubSeq(<<"put", "publish", "publishFeed", "answer">>, 1, 4)[i] = <<"put", "publish", "publishFeed", "answer">>[i]
    BY <1>0, SubSeqProperties
  <2> QED
    BY <1>0, <2>1, SeqEqual
<1>2. SubSeq(<<"put", "publish", "publishFeed", "answer">>, 2, 4) = <<"publish", "publishFeed", "answer">>
  <2>1. /\ SubSeq(<<"put", "publish", "publishFeed", "answer">>, 2, 4) \in Seq(S) /\ Len(SubSeq(<<"put", "publish", "publishFeed", "answer">>, 2, 4)) = 3
        /\ \A i \in 1..3 : SubSeq(<<"put", "publish", "publishFeed", "answer">>, 2, 4)[i] = <<"publish", "publishFeed", "answer">>[i]
    BY <1>0, SubSeqProperties
  <2> QED
    BY <1>0, <2>1, SeqEqual
<1>3. SubSeq(<<"put", "publish", "publishFeed", "answer">>, 3, 4) = <<"publishFeed", "answer">>
  <2>1. /\ SubSeq(<<"put", "publish", "publishFeed", "answer">>, 3, 4) \in Seq(S) /\ Len(SubSeq(<<"put", "publish", "publishFeed", "answer">>, 3, 4)) = 2
        /\ \A i \in 1..2 : SubSeq(<<"put", "publish", "publishFeed", "answer">>, 3, 4)[i] = <<"publishFeed", "answer">>[i]
    BY <1>0, SubSeqProperties
  <2> QED
    BY <1>0, <2>1, SeqEqual
<1>4. SubSeq(<<"put", "publish", "publishFeed", "answer">>, 4, 4) = <<"answer">>
  <2>1. /\ SubSeq(<<"put", "publish", "publishFeed", "answer">>, 4, 4) \in Seq(S) /\ Len(SubSeq(<<"put", "publish", "publishFeed", "answer">>, 4, 4)) = 1
        /\ \A i \in 1..1 : SubSeq(<<"put", "publish", "publishFeed", "answer">>, 4, 4)[i] = <<"answer">>[i]
    BY <1>0, SubSeqProperties
  <2> QED
    BY <1>0, <2>1, SeqEqual
<1> QED
  BY <1>1, <1>2, <1>3, <1>4

\* Whatever an invocation has left is an end of its handler.
LEMMA CallsAreAnEnd ==
    ASSUME NEW f \in AnyFrames, NEW l \in CallsOf(f)
    PROVE  \E n \in 1..4 : l = SubSeq(Handler(f), n, Len(Handler(f)))
<1>1. CASE f.op \in {"chat.conversations", "post.list"}
  <2>1. Handler(f) = <<"read", "answer">>
    BY <1>1, TopicsPublished DEF Handler, Conversations, CreateConversation, Join, Leave, Send,
       Subscribe, CreatePost, DeletePost, ListPosts, DeletePostMutation
  <2>2. Len(<<"read", "answer">>) = 2
    OBVIOUS
  <2>3. /\ SubSeq(<<"read", "answer">>, 1, 2) = <<"read", "answer">>
        /\ SubSeq(<<"read", "answer">>, 2, 2) = <<"answer">>
    BY EndsOfTwo, Zenon
  <2>4. l \in {<<"read", "answer">>, <<"answer">>}
    BY <1>1 DEF CallsOf
  <2> QED
    BY <2>1, <2>2, <2>3, <2>4
<1>2. CASE f.op \in {"chat.create", "chat.send", "post.create"}
  <2>1. Handler(f) = <<"put", "emit", "answer">>
    BY <1>2, TopicsPublished DEF Handler, Conversations, CreateConversation, Join, Leave, Send,
       Subscribe, CreatePost, DeletePost, ListPosts, DeletePostMutation
  <2>2. Len(<<"put", "emit", "answer">>) = 3
    OBVIOUS
  <2>3. /\ SubSeq(<<"put", "emit", "answer">>, 1, 3) = <<"put", "emit", "answer">>
        /\ SubSeq(<<"put", "emit", "answer">>, 2, 3) = <<"emit", "answer">>
        /\ SubSeq(<<"put", "emit", "answer">>, 3, 3) = <<"answer">>
    BY EndsOfThree, Zenon
  <2>4. l \in {<<"put", "emit", "answer">>, <<"emit", "answer">>, <<"answer">>}
    BY <1>2 DEF CallsOf
  <2> QED
    BY <2>1, <2>2, <2>3, <2>4
<1>3. CASE f.op = "chat.join"
  <2>1. Handler(f) = <<"join", "read", "answer">>
    BY <1>3, TopicsPublished DEF Handler, Conversations, CreateConversation, Join, Leave, Send,
       Subscribe, CreatePost, DeletePost, ListPosts, DeletePostMutation
  <2>2. Len(<<"join", "read", "answer">>) = 3
    OBVIOUS
  <2>3. /\ SubSeq(<<"join", "read", "answer">>, 1, 3) = <<"join", "read", "answer">>
        /\ SubSeq(<<"join", "read", "answer">>, 2, 3) = <<"read", "answer">>
        /\ SubSeq(<<"join", "read", "answer">>, 3, 3) = <<"answer">>
    BY EndsOfThree, Zenon
  <2>4. l \in {<<"join", "read", "answer">>, <<"read", "answer">>, <<"answer">>}
    BY <1>3 DEF CallsOf
  <2> QED
    BY <2>1, <2>2, <2>3, <2>4
<1>4. CASE f.op = "chat.leave"
  <2>1. Handler(f) = <<"leave", "answer">>
    BY <1>4, TopicsPublished DEF Handler, Conversations, CreateConversation, Join, Leave, Send,
       Subscribe, CreatePost, DeletePost, ListPosts, DeletePostMutation
  <2>2. Len(<<"leave", "answer">>) = 2
    OBVIOUS
  <2>3. /\ SubSeq(<<"leave", "answer">>, 1, 2) = <<"leave", "answer">>
        /\ SubSeq(<<"leave", "answer">>, 2, 2) = <<"answer">>
    BY EndsOfTwo, Zenon
  <2>4. l \in {<<"leave", "answer">>, <<"answer">>}
    BY <1>4 DEF CallsOf
  <2> QED
    BY <2>1, <2>2, <2>3, <2>4
<1>5. CASE f.op = "post.subscribe"
  <2>1. Handler(f) = <<"drift", "answer">>
    BY <1>5, TopicsPublished DEF Handler, Conversations, CreateConversation, Join, Leave, Send,
       Subscribe, CreatePost, DeletePost, ListPosts, DeletePostMutation
  <2>2. Len(<<"drift", "answer">>) = 2
    OBVIOUS
  <2>3. /\ SubSeq(<<"drift", "answer">>, 1, 2) = <<"drift", "answer">>
        /\ SubSeq(<<"drift", "answer">>, 2, 2) = <<"answer">>
    BY EndsOfTwo, Zenon
  <2>4. l \in {<<"drift", "answer">>, <<"answer">>}
    BY <1>5 DEF CallsOf
  <2> QED
    BY <2>1, <2>2, <2>3, <2>4
<1>6. CASE f.op = "post.delete"
  <2>1. Handler(f) = <<"remove", "emit", "answer">>
    BY <1>6, TopicsPublished DEF Handler, Conversations, CreateConversation, Join, Leave, Send,
       Subscribe, CreatePost, DeletePost, ListPosts, DeletePostMutation
  <2>2. Len(<<"remove", "emit", "answer">>) = 3
    OBVIOUS
  <2>3. /\ SubSeq(<<"remove", "emit", "answer">>, 1, 3) = <<"remove", "emit", "answer">>
        /\ SubSeq(<<"remove", "emit", "answer">>, 2, 3) = <<"emit", "answer">>
        /\ SubSeq(<<"remove", "emit", "answer">>, 3, 3) = <<"answer">>
    BY EndsOfThree, Zenon
  <2>4. l \in {<<"remove", "emit", "answer">>, <<"emit", "answer">>, <<"answer">>}
    BY <1>6 DEF CallsOf
  <2> QED
    BY <2>1, <2>2, <2>3, <2>4
<1>7. CASE f.op = "deletePost"
  <2>1. Handler(f) = <<"remove", "answer">>
    BY <1>7, TopicsPublished DEF Handler, Conversations, CreateConversation, Join, Leave, Send,
       Subscribe, CreatePost, DeletePost, ListPosts, DeletePostMutation
  <2>2. Len(<<"remove", "answer">>) = 2
    OBVIOUS
  <2>3. /\ SubSeq(<<"remove", "answer">>, 1, 2) = <<"remove", "answer">>
        /\ SubSeq(<<"remove", "answer">>, 2, 2) = <<"answer">>
    BY EndsOfTwo, Zenon
  <2>4. l \in {<<"remove", "answer">>, <<"answer">>}
    BY <1>7 DEF CallsOf
  <2> QED
    BY <2>1, <2>2, <2>3, <2>4
<1>8. CASE f.op = "createPost" /\ f.arg = 0
  <2>1. Handler(f) = <<"put", "publish", "answer">>
    BY <1>8, TopicsPublished DEF Handler, Conversations, CreateConversation, Join, Leave, Send,
       Subscribe, CreatePost, DeletePost, ListPosts, DeletePostMutation
  <2>2. Len(<<"put", "publish", "answer">>) = 3
    OBVIOUS
  <2>3. /\ SubSeq(<<"put", "publish", "answer">>, 1, 3) = <<"put", "publish", "answer">>
        /\ SubSeq(<<"put", "publish", "answer">>, 2, 3) = <<"publish", "answer">>
        /\ SubSeq(<<"put", "publish", "answer">>, 3, 3) = <<"answer">>
    BY EndsOfThree, Zenon
  <2>4. l \in {<<"put", "publish", "answer">>, <<"publish", "answer">>, <<"answer">>}
    BY <1>8 DEF CallsOf
  <2> QED
    BY <2>1, <2>2, <2>3, <2>4
<1>9. CASE f.op = "createPost" /\ f.arg = 1
  <2>1. Handler(f) = <<"put", "publish", "publishFeed", "answer">>
    BY <1>9, TopicsPublished DEF Handler, Conversations, CreateConversation, Join, Leave, Send,
       Subscribe, CreatePost, DeletePost, ListPosts, DeletePostMutation
  <2>2. Len(<<"put", "publish", "publishFeed", "answer">>) = 4
    OBVIOUS
  <2>3. /\ SubSeq(<<"put", "publish", "publishFeed", "answer">>, 1, 4) = <<"put", "publish", "publishFeed", "answer">>
        /\ SubSeq(<<"put", "publish", "publishFeed", "answer">>, 2, 4) = <<"publish", "publishFeed", "answer">>
        /\ SubSeq(<<"put", "publish", "publishFeed", "answer">>, 3, 4) = <<"publishFeed", "answer">>
        /\ SubSeq(<<"put", "publish", "publishFeed", "answer">>, 4, 4) = <<"answer">>
    BY EndsOfTheLongest, Zenon
  <2>4. l \in {<<"put", "publish", "publishFeed", "answer">>, <<"publish", "publishFeed", "answer">>, <<"publishFeed", "answer">>, <<"answer">>}
    BY <1>9 DEF CallsOf
  <2> QED
    BY <2>1, <2>2, <2>3, <2>4
<1> QED
  BY <1>1, <1>2, <1>3, <1>4, <1>5, <1>6, <1>7, <1>8, <1>9 DEF AnyFrames, Deletions

-----------------------------------------------------------------------------
(* The inductive invariant                                                  *)

Stock == table \cup retracted

\* Where what is made is announced.
Home(m) == IF m.kind = "message" THEN Conv(m.of) ELSE Global

\* The repositories' ids are fresh, and what is removed is gone.
StockOK ==
    /\ table \subseteq Items /\ retracted \subseteq Items /\ made \in 2..MaxItems
    /\ {m.id : m \in Stock} = 1..made
    /\ table \cap retracted = {}
    /\ \A m1, m2 \in Stock : m1.id = m2.id => m1 = m2

\* An invocation is of a client, about a frame, with some of its calls left.
Shape(t) ==
    /\ t \in [c : Clients, f : AnyFrames, left : CallsOf(t.f), item : {0} \cup Ids,
              shown : SUBSET Ids, cut : SUBSET Ids, crossed : BOOLEAN]
    /\ t.f.op \in Deletions => t.item = t.f.arg
    /\ Head(t.left) = "put" => t.item = 0

\* What an invocation has stored, or removed, so far.
Effect(t) ==
    /\ (t.f.op \in Makers /\ Head(t.left) # "put") => Created(t.f, t.item) \in Stock
    /\ t.f.op \in Deletions =>
         \E m \in Stock : /\ m.id = t.item /\ m.kind = "post"
                          /\ (Head(t.left) # "remove" => m \in retracted)

TasksOK == \A k \in Tasks : task[k] # Idle => Shape(task[k]) /\ Effect(task[k])

\* A record announces what there is, where that is announced, or the end of a post
\* that is gone.
RecordOK(r) ==
    /\ r \in [room : Rooms, item : Ids, made : BOOLEAN]
    /\ \E m \in Stock :
         /\ m.id = r.item
         /\ IF r.made THEN m.public => r.room = Home(m)
            ELSE r.room = Feed /\ m.kind = "post" /\ m \in retracted
         /\ m.kind = "message" => r.room = Home(m)

OutboxOK == \A n \in DOMAIN outbox : RecordOK(outbox[n])

StoreOK ==
    /\ who \in [Clients -> {"away", "anonymous", "named", "graphql"}]
    /\ members \subseteq Clients \X Rooms /\ adrift \subseteq Clients \X {Feed}
    /\ outbox \in Seq([room : Rooms, item : Ids, made : BOOLEAN])
    /\ flushed \subseteq DOMAIN outbox /\ heard \subseteq Clients \X flushed
    /\ found \subseteq [c : Clients, item : Ids, after : Nat, stale : BOOLEAN]
    /\ acked \subseteq Ids \X BOOLEAN /\ faults \in 0..MaxFaults /\ frames \in 0..MaxFrames
    /\ task = [k \in Tasks |-> task[k]]

DataOK == StockOK /\ TasksOK /\ OutboxOK /\ StoreOK

-----------------------------------------------------------------------------
(* How an invocation moves                                                  *)

\* Its next call made.
Follows(t, u) ==
    u = [c |-> t.c, f |-> t.f, left |-> Tail(t.left), item |-> u.item, shown |-> u.shown,
         cut |-> u.cut, crossed |-> t.crossed]

\* Untouched, or a join that somebody's leave has crossed.
Kept(t, u) ==
    \/ u = t
    \/ /\ t.f.op = "chat.join"
       /\ u = [c |-> t.c, f |-> t.f, left |-> t.left, item |-> t.item, shown |-> t.shown,
               cut |-> t.cut, crossed |-> TRUE]

\* Invocation k makes its next call, and the others keep theirs.
Called(k, step) ==
    /\ task[k] # Idle /\ Head(task[k].left) = step /\ step # "answer"
    /\ Follows(task[k], task'[k])
    /\ task' = [q \in Tasks |-> task'[q]]
    /\ \A q \in Tasks \ {k} : task'[q] = Idle <=> task[q] = Idle
    /\ \A q \in Tasks \ {k} : task[q] # Idle => Kept(task[q], task'[q])

\* An invocation that has calls left is not idle.
LEMMA ShapeIsLive ==
    ASSUME NEW t, Shape(t)
    PROVE  t # Idle /\ t.f \in AnyFrames /\ t.left \in CallsOf(t.f)
<1>1. t.f \in AnyFrames /\ t.left \in CallsOf(t.f)
  BY DEF Shape
<1>2. t.left # <<>>
  BY <1>1, CallsEnd
<1> QED
  BY <1>1, <1>2 DEF Idle

\* A call that changes nothing of its invocation but what is left of it.
LEMMA OnwardCalls ==
    ASSUME NEW k \in Tasks, NEW step, DataOK, Now(k, step), step # "answer", NEW r,
           Onward(k, r),
           r = [c |-> task[k].c, f |-> task[k].f, left |-> task[k].left, item |-> r.item,
                shown |-> r.shown, cut |-> r.cut, crossed |-> task[k].crossed]
    PROVE  /\ Called(k, step)
           /\ \A q \in Tasks \ {k} : task'[q] = task[q]
           /\ task'[k].item = r.item /\ task'[k].shown = r.shown /\ task'[k].cut = r.cut
<1>1. task' = [task EXCEPT ![k] = [r EXCEPT !.left = Tail(@)]] /\ task = [q \in Tasks |-> task[q]]
  BY DEF Onward, DataOK, StoreOK
<1>2. task'[k] = [r EXCEPT !.left = Tail(@)] /\ task' = [q \in Tasks |-> task'[q]]
  BY <1>1
<1>3. \A q \in Tasks \ {k} : task'[q] = task[q]
  BY <1>1
<1>4. Follows(task[k], task'[k])
  <2>1. PICK t : t = task[k]
    OBVIOUS
  <2>2. PICK u : u = task'[k]
    OBVIOUS
  <2>3. r = [c |-> t.c, f |-> t.f, left |-> t.left, item |-> r.item, shown |-> r.shown,
             cut |-> r.cut, crossed |-> t.crossed]
    BY <2>1
  <2>4. u = [r EXCEPT !.left = Tail(r.left)]
    BY <1>2, <2>2
  <2>5. PICK i, s, x : i = r.item /\ s = r.shown /\ x = r.cut
    OBVIOUS
  <2>6. r = [c |-> t.c, f |-> t.f, left |-> t.left, item |-> i, shown |-> s, cut |-> x,
             crossed |-> t.crossed]
    BY <2>3, <2>5
  <2>7. u = [c |-> t.c, f |-> t.f, left |-> Tail(t.left), item |-> i, shown |-> s, cut |-> x,
             crossed |-> t.crossed]
    BY <2>4, <2>6
  <2>8. Follows(t, u)
    BY <2>7 DEF Follows
  <2> QED
    BY <2>1, <2>2, <2>8
<1>5. /\ \A q \in Tasks \ {k} : task'[q] = Idle <=> task[q] = Idle
      /\ \A q \in Tasks \ {k} : task[q] # Idle => Kept(task[q], task'[q])
  BY <1>3 DEF Kept
<1>6. task'[k].item = r.item /\ task'[k].shown = r.shown /\ task'[k].cut = r.cut
  BY <1>2
<1>7. task[k] # Idle /\ Head(task[k].left) = step
  BY DEF Now
<1>8. Called(k, step)
  BY <1>2, <1>4, <1>5, <1>7 DEF Called
<1> QED
  BY <1>3, <1>6, <1>8

\* A record of an invocation is what its fields say, also with some of them replaced.
LEMMA ShapeIsARecord ==
    ASSUME NEW t, Shape(t)
    PROVE  /\ t = [c |-> t.c, f |-> t.f, left |-> t.left, item |-> t.item, shown |-> t.shown,
                   cut |-> t.cut, crossed |-> t.crossed]
           /\ \A i : [t EXCEPT !.item = i] =
                [c |-> t.c, f |-> t.f, left |-> t.left, item |-> i, shown |-> t.shown,
                 cut |-> t.cut, crossed |-> t.crossed]
           /\ \A s, x : [t EXCEPT !.shown = s, !.cut = x] =
                [c |-> t.c, f |-> t.f, left |-> t.left, item |-> t.item, shown |-> s,
                 cut |-> x, crossed |-> t.crossed]
           /\ \A l : [t EXCEPT !.left = l] =
                [c |-> t.c, f |-> t.f, left |-> l, item |-> t.item, shown |-> t.shown,
                 cut |-> t.cut, crossed |-> t.crossed]
           /\ [t EXCEPT !.crossed = TRUE] =
                [c |-> t.c, f |-> t.f, left |-> t.left, item |-> t.item, shown |-> t.shown,
                 cut |-> t.cut, crossed |-> TRUE]
<1>1. t \in [c : Clients, f : AnyFrames, left : CallsOf(t.f), item : {0} \cup Ids,
             shown : SUBSET Ids, cut : SUBSET Ids, crossed : BOOLEAN]
  BY DEF Shape
<1>2. t = [c |-> t.c, f |-> t.f, left |-> t.left, item |-> t.item, shown |-> t.shown,
           cut |-> t.cut, crossed |-> t.crossed]
  BY <1>1
<1>3. PICK c, f, l, i, s, x, b : /\ c = t.c /\ f = t.f /\ l = t.left /\ i = t.item
                                 /\ s = t.shown /\ x = t.cut /\ b = t.crossed
  OBVIOUS
<1>4. t = [c |-> c, f |-> f, left |-> l, item |-> i, shown |-> s, cut |-> x, crossed |-> b]
  BY <1>2, <1>3
<1>5. \A j : [t EXCEPT !.item = j] =
        [c |-> c, f |-> f, left |-> l, item |-> j, shown |-> s, cut |-> x, crossed |-> b]
  BY <1>4
<1>6. ASSUME NEW y, NEW z
      PROVE  [t EXCEPT !.shown = y, !.cut = z] =
        [c |-> c, f |-> f, left |-> l, item |-> i, shown |-> y, cut |-> z, crossed |-> b]
  <2>1. PICK r : r = [t EXCEPT !.shown = y]
    OBVIOUS
  <2>2. r = [c |-> c, f |-> f, left |-> l, item |-> i, shown |-> y, cut |-> x, crossed |-> b]
    BY <1>4, <2>1
  <2>3. [t EXCEPT !.shown = y, !.cut = z] = [r EXCEPT !.cut = z]
    BY <1>4, <2>1
  <2> QED
    BY <2>2, <2>3
<1>7. \A j : [t EXCEPT !.left = j] =
        [c |-> c, f |-> f, left |-> j, item |-> i, shown |-> s, cut |-> x, crossed |-> b]
  BY <1>4
<1>8. \A y : [t EXCEPT !.crossed = y] =
        [c |-> c, f |-> f, left |-> l, item |-> i, shown |-> s, cut |-> x, crossed |-> y]
  BY <1>4
<1> QED
  BY <1>2, <1>3, <1>5, <1>6, <1>7, <1>8, Zenon

\* What a call leaves alone of its own invocation, and that it leaves the others alone.
Alone(k) ==
    /\ \A q \in Tasks \ {k} : task'[q] = task[q]
    /\ task'[k].shown = task[k].shown /\ task'[k].cut = task[k].cut

\* The calls that only go on.
LEMMA PlainCalls ==
    ASSUME NEW k \in Tasks, NEW step, DataOK, Now(k, step), step # "answer",
           Onward(k, task[k])
    PROVE  Called(k, step) /\ Alone(k) /\ task'[k].item = task[k].item
<1>1. Shape(task[k])
  BY DEF Now, DataOK, TasksOK
<1>2. task[k] = [c |-> task[k].c, f |-> task[k].f, left |-> task[k].left, item |-> task[k].item,
                 shown |-> task[k].shown, cut |-> task[k].cut, crossed |-> task[k].crossed]
  BY <1>1, ShapeIsARecord
<1> QED
  BY <1>2, OnwardCalls DEF Alone

\* The call that stores an item remembers it.
LEMMA PutCalls ==
    ASSUME NEW k \in Tasks, DataOK, Put(k)
    PROVE  Called(k, "put") /\ Alone(k) /\ task'[k].item = made'
<1>1. Shape(task[k]) /\ Now(k, "put")
  BY DEF Put, Now, DataOK, TasksOK
<1>2. PICK t : t = task[k]
  OBVIOUS
<1>3. PICK r : r = [t EXCEPT !.item = made']
  OBVIOUS
<1>4. r = [c |-> t.c, f |-> t.f, left |-> t.left, item |-> made', shown |-> t.shown,
           cut |-> t.cut, crossed |-> t.crossed]
  BY <1>1, <1>2, <1>3, ShapeIsARecord
<1>5. Onward(k, r)
  BY <1>2, <1>3 DEF Put
<1>6. /\ r.item = made' /\ r.shown = t.shown /\ r.cut = t.cut
      /\ r = [c |-> t.c, f |-> t.f, left |-> t.left, item |-> r.item,
              shown |-> r.shown, cut |-> r.cut, crossed |-> t.crossed]
  BY <1>4
<1> QED
  BY <1>1, <1>2, <1>5, <1>6, OnwardCalls DEF Alone

\* A read remembers what the listing showed, and what it left out: all there is, and
\* nothing that is not, or was not.
LEMMA ReadCalls ==
    ASSUME NEW k \in Tasks, DataOK, Read(k)
    PROVE  /\ Called(k, "read") /\ task'[k].item = task[k].item
           /\ \A q \in Tasks \ {k} : task'[q] = task[q]
           /\ {m.id : m \in Listed(task[k].f)} \subseteq task'[k].shown \cup task'[k].cut
           /\ task'[k].shown \cup task'[k].cut \subseteq
                {m.id : m \in Listed(task[k].f)} \cup {m.id : m \in Ghosts(task[k].f)}
<1>1. Shape(task[k]) /\ Now(k, "read")
  BY DEF Read, Now, DataOK, TasksOK
<1>2. PICK t : t = task[k]
  OBVIOUS
<1>3. PICK all : all = {m.id : m \in Listed(task[k].f)}
  OBVIOUS
<1>4. PICK shown \in SUBSET (all \cup {m.id : m \in Ghosts(task[k].f)}) :
         Onward(k, [task[k] EXCEPT !.shown = shown, !.cut = all \ shown])
  BY <1>3 DEF Read
<1>5. PICK r : r = [t EXCEPT !.shown = shown, !.cut = all \ shown]
  OBVIOUS
<1>6. r = [c |-> t.c, f |-> t.f, left |-> t.left, item |-> t.item, shown |-> shown,
           cut |-> all \ shown, crossed |-> t.crossed]
  <2>1. \A s, x : [t EXCEPT !.shown = s, !.cut = x] =
          [c |-> t.c, f |-> t.f, left |-> t.left, item |-> t.item, shown |-> s,
           cut |-> x, crossed |-> t.crossed]
    <3>1. Shape(t)
      BY <1>1, <1>2
    <3> QED
      BY <3>1, ShapeIsARecord
  <2>2. PICK x : x = all \ shown
    OBVIOUS
  <2>3. r = [t EXCEPT !.shown = shown, !.cut = x]
    BY <1>5, <2>2
  <2> QED
    BY <2>1, <2>2, <2>3
<1>7. Onward(k, r)
  BY <1>2, <1>4, <1>5
<1>8. /\ r.item = t.item /\ r.shown = shown /\ r.cut = all \ shown
      /\ r = [c |-> t.c, f |-> t.f, left |-> t.left, item |-> r.item,
              shown |-> r.shown, cut |-> r.cut, crossed |-> t.crossed]
  BY <1>6
<1>9. /\ Called(k, "read")
      /\ \A q \in Tasks \ {k} : task'[q] = task[q]
      /\ task'[k].item = r.item /\ task'[k].shown = r.shown /\ task'[k].cut = r.cut
  BY <1>1, <1>2, <1>7, <1>8, OnwardCalls
<1>10. task'[k].shown = shown /\ task'[k].cut = all \ shown
  BY <1>8, <1>9
<1>11. /\ all \subseteq task'[k].shown \cup task'[k].cut
       /\ task'[k].shown \cup task'[k].cut \subseteq all \cup {m.id : m \in Ghosts(task[k].f)}
  BY <1>4, <1>10
<1> QED
  BY <1>2, <1>3, <1>8, <1>9, <1>11

\* Whoever leaves crosses its own joins of that conversation, and nothing else.
LEMMA LeaveCalls ==
    ASSUME NEW k \in Tasks, DataOK, LeaveRoom(k)
    PROVE  /\ Called(k, "leave") /\ task'[k].item = task[k].item
           /\ task'[k].shown = task[k].shown /\ task'[k].cut = task[k].cut
           /\ \A q \in Tasks \ {k} : q \notin Joining(task[k].c, task[k].f.arg) => task'[q] = task[q]
           /\ \A q \in Tasks \ {k} : q \in Joining(task[k].c, task[k].f.arg) => task'[q].crossed
<1>1. Shape(task[k]) /\ Now(k, "leave")
  BY DEF LeaveRoom, Now, DataOK, TasksOK
<1>2. PICK t : t = task[k]
  OBVIOUS
<1>3. PICK J : J = Joining(task[k].c, task[k].f.arg)
  OBVIOUS
<1>4. task' = [q \in Tasks |->
                 IF q = k THEN [task[k] EXCEPT !.left = Tail(@)]
                 ELSE IF q \in J THEN [task[q] EXCEPT !.crossed = TRUE]
                 ELSE task[q]]
  BY <1>3 DEF LeaveRoom
<1>5. task'[k] = [t EXCEPT !.left = Tail(t.left)]
  BY <1>2, <1>4
<1>6. task'[k] = [c |-> t.c, f |-> t.f, left |-> Tail(t.left), item |-> t.item, shown |-> t.shown,
                  cut |-> t.cut, crossed |-> t.crossed]
  BY <1>1, <1>2, <1>5, ShapeIsARecord
<1>7. /\ Follows(t, task'[k]) /\ task'[k].item = t.item
      /\ task'[k].shown = t.shown /\ task'[k].cut = t.cut
  <2>1. PICK u : u = task'[k]
    OBVIOUS
  <2>2. u = [c |-> t.c, f |-> t.f, left |-> Tail(t.left), item |-> t.item, shown |-> t.shown,
             cut |-> t.cut, crossed |-> t.crossed]
    BY <1>6, <2>1
  <2>3. u.item = t.item /\ u.shown = t.shown /\ u.cut = t.cut
    BY <2>2
  <2>4. Follows(t, u)
    BY <2>2, <2>3, Zenon DEF Follows
  <2> QED
    BY <2>1, <2>3, <2>4
<1>8. \A q \in Tasks \ {k} : q \notin J => task'[q] = task[q]
  BY <1>4
<1>9. ASSUME NEW q \in Tasks \ {k}, q \in J
      PROVE  task[q] # Idle /\ task'[q] # Idle /\ Kept(task[q], task'[q]) /\ task'[q].crossed
  <2>1. task[q].f = JoinFrame(task[k].f.arg)
    BY <1>3, <1>9 DEF Joining
  <2>2. task[q].f.op = "chat.join"
    BY <2>1 DEF JoinFrame
  <2>3. task[q] # Idle
    BY <2>2 DEF Idle
  <2>4. PICK s : s = task[q]
    OBVIOUS
  <2>5. Shape(s) /\ s.f.op = "chat.join"
    BY <2>2, <2>3, <2>4 DEF DataOK, TasksOK
  <2>6. task'[q] = [s EXCEPT !.crossed = TRUE]
    BY <1>4, <1>9, <2>4
  <2>7. PICK u : u = task'[q]
    OBVIOUS
  <2>8. u = [c |-> s.c, f |-> s.f, left |-> s.left, item |-> s.item, shown |-> s.shown,
             cut |-> s.cut, crossed |-> TRUE]
    BY <2>5, <2>6, <2>7, ShapeIsARecord
  <2>9. Kept(s, u)
    BY <2>5, <2>8 DEF Kept
  <2>10. u.f = s.f /\ u.crossed
    BY <2>8
  <2>11. u # Idle
    BY <2>5, <2>10 DEF Idle
  <2> QED
    BY <2>3, <2>4, <2>7, <2>9, <2>10, <2>11
<1>10. Called(k, "leave")
  <2>1. task' = [q \in Tasks |-> task'[q]]
    BY <1>4
  <2>2. task[k] # Idle /\ Head(task[k].left) = "leave" /\ "leave" # "answer"
    BY <1>1 DEF Now
  <2>3. ASSUME NEW q \in Tasks \ {k}
        PROVE  (task'[q] = Idle <=> task[q] = Idle) /\ (task[q] # Idle => Kept(task[q], task'[q]))
    BY <1>8, <1>9 DEF Kept
  <2> QED
    BY <1>2, <1>7, <2>1, <2>2, <2>3 DEF Called
<1> QED
  BY <1>2, <1>3, <1>7, <1>8, <1>9, <1>10

-----------------------------------------------------------------------------
(* The items                                                                *)

StockGrows == Stock \subseteq Stock' /\ retracted \subseteq retracted'

\* What a frame makes is an item, of the id it is given.
LEMMA CreatedIsAnItem ==
    ASSUME NEW f \in AnyFrames, NEW i \in Ids
    PROVE  /\ Created(f, i) \in Items /\ Created(f, i).id = i
           /\ f.op = "createPost" => ~Created(f, i).public
           /\ Created(f, i).kind = "message" <=> f.op = "chat.send"
           /\ f.op = "chat.send" => Created(f, i).of = f.arg
<1>1. CASE f.op = "chat.create"
  BY <1>1 DEF Created, NewConversation, Item, Items, Kinds
<1>2. CASE f.op = "chat.send"
  <2>1. f.arg \in Ids
    BY <1>2 DEF AnyFrames, Deletions
  <2> QED
    BY <1>2, <2>1 DEF Created, NewMessage, Item, Items, Kinds
<1>3. CASE f.op \notin {"chat.create", "chat.send"}
  <2>1. PICK p \in BOOLEAN : p = (f.op # "createPost")
    OBVIOUS
  <2>2. Created(f, i) = [id |-> i, kind |-> "post", of |-> 0, public |-> p]
    BY <1>3, <2>1 DEF Created, NewPost, Item
  <2>3. Created(f, i) \in Items /\ Created(f, i).id = i /\ Created(f, i).kind = "post"
    BY <2>2 DEF Items, Kinds
  <2>4. Created(f, i).public = p
    BY <2>2
  <2> QED
    BY <1>3, <2>1, <2>3, <2>4
<1> QED
  BY <1>1, <1>2, <1>3

\* Only a repository's put and remove touch the items.
LEMMA DataSteps ==
    ASSUME [Next]_vars
    PROVE  UNCHANGED dataVars \/ \E k \in Tasks : Put(k) \/ Remove(k)
<1>1. CASE UNCHANGED vars
  BY <1>1 DEF vars
<1>2. ASSUME NEW c \in Clients, \E how \in {"anonymous", "named", "graphql"} : Connect(c, how)
      PROVE  UNCHANGED dataVars
  BY <1>2 DEF Connect
<1>3. ASSUME NEW c \in Clients, NEW k \in Tasks, NEW f \in Frames, Start(k, c, f)
      PROVE  UNCHANGED dataVars
  BY <1>3 DEF Start
<1>4. ASSUME NEW k \in Tasks, Emit(k) \/ Publish(k)
      PROVE  UNCHANGED dataVars
  BY <1>4 DEF Emit, Publish, Record
<1>5. ASSUME NEW k \in Tasks,
             JoinRoom(k) \/ LeaveRoom(k) \/ DriftingJoin(k) \/ Read(k) \/ Answer(k) \/ Crash(k)
      PROVE  UNCHANGED dataVars
  BY <1>5 DEF JoinRoom, LeaveRoom, DriftingJoin, Read, Answer, Told, Crash
<1>6. ASSUME NEW m \in adrift, JoinLands(m) \/ JoinFrozen(m)
      PROVE  UNCHANGED dataVars
  BY <1>6 DEF JoinLands, JoinFrozen
<1>7. ASSUME NEW n \in DOMAIN outbox, Flush(n)
      PROVE  UNCHANGED dataVars
  BY <1>7 DEF Flush
<1> QED
  BY <1>1, <1>2, <1>3, <1>4, <1>5, <1>6, <1>7 DEF Next

\* A stored item is new.
LEMMA PutStocks ==
    ASSUME NEW k \in Tasks, DataOK, Put(k)
    PROVE  /\ StockOK' /\ StockGrows
           /\ made' \in Ids /\ made' = made + 1
           /\ Stock' = Stock \cup {Created(task[k].f, made')}
<1>1. /\ Shape(task[k]) /\ Now(k, "put") /\ made < MaxItems /\ made' = made + 1
      /\ retracted' = retracted
  BY DEF Put, Now, DataOK, TasksOK
<1>2. StockOK /\ made \in 2..MaxItems
  BY DEF DataOK, StockOK
<1>3. MaxItems \in Nat
  BY ExampleAssumption
<1>4. made' \in Ids /\ made' \in 2..MaxItems
  BY <1>1, <1>2, <1>3 DEF Ids
<1>5. PICK n \in Ids : n = made'
  BY <1>4
<1>6. PICK it : it = Created(task[k].f, n)
  OBVIOUS
<1>7. it \in Items /\ it.id = n
  BY <1>1, <1>6, ShapeIsLive, CreatedIsAnItem
<1>8. table' = table \cup {it}
  BY <1>5, <1>6 DEF Put
<1>9. Stock' = Stock \cup {it}
  BY <1>1, <1>8 DEF Stock
<1>10. \A m \in Stock : m.id \in 1..made
  BY <1>2 DEF StockOK
<1>11. \A m \in Stock : m.id # n
  BY <1>1, <1>2, <1>3, <1>5, <1>10
<1>12. {m.id : m \in Stock'} = 1..made'
  <2>1. {m.id : m \in Stock'} = {m.id : m \in Stock} \cup {n}
    BY <1>7, <1>9
  <2>2. {m.id : m \in Stock} = 1..made
    BY <1>2 DEF StockOK
  <2>3. 1..(made + 1) = (1..made) \cup {made + 1}
    BY <1>2, <1>3
  <2> QED
    BY <1>1, <1>5, <2>1, <2>2, <2>3
<1>13. table' \cap retracted' = {}
  BY <1>1, <1>2, <1>8, <1>7, <1>11 DEF StockOK, Stock
<1>14. \A m1, m2 \in Stock' : m1.id = m2.id => m1 = m2
  BY <1>2, <1>7, <1>9, <1>11 DEF StockOK
<1>15. table' \subseteq Items /\ retracted' \subseteq Items
  BY <1>1, <1>2, <1>7, <1>8 DEF StockOK
<1> QED
  BY <1>1, <1>4, <1>5, <1>6, <1>9, <1>12, <1>13, <1>14, <1>15 DEF StockOK, StockGrows

\* What is removed was there, and no item of that id is left.
LEMMA RemoveStocks ==
    ASSUME NEW k \in Tasks, DataOK, Remove(k)
    PROVE  /\ StockOK' /\ StockGrows /\ Stock' = Stock
           /\ table' \subseteq table
           /\ \A m \in Stock : m.id = task[k].item => m \in retracted'
<1>1. PICK it : it = {m \in table : m.id = task[k].item}
  OBVIOUS
<1>2. table' = table \ it /\ retracted' = retracted \cup it /\ made' = made
  BY <1>1 DEF Remove
<1>3. it \subseteq table
  BY <1>1
<1>4. Stock' = Stock
  BY <1>2, <1>3 DEF Stock
<1>5. StockOK
  BY DEF DataOK
<1>6. /\ table' \subseteq Items /\ retracted' \subseteq Items /\ made' \in 2..MaxItems
      /\ table' \cap retracted' = {}
  BY <1>2, <1>3, <1>5 DEF StockOK
<1>7. /\ {m.id : m \in Stock'} = 1..made'
      /\ \A m1, m2 \in Stock' : m1.id = m2.id => m1 = m2
  BY <1>2, <1>4, <1>5 DEF StockOK
<1>8. \A m \in Stock : m.id = task[k].item => m \in retracted'
  BY <1>1, <1>2 DEF Stock
<1> QED
  BY <1>2, <1>4, <1>6, <1>7, <1>8 DEF StockOK, StockGrows

\* The items keep their ids, whatever happens.
LEMMA StockStep ==
    ASSUME DataOK, [Next]_vars
    PROVE  StockOK' /\ StockGrows
<1>1. CASE UNCHANGED dataVars
  BY <1>1 DEF DataOK, dataVars, StockOK, StockGrows, Stock
<1>2. ASSUME NEW k \in Tasks, Put(k)
      PROVE  StockOK' /\ StockGrows
  BY <1>2, PutStocks
<1>3. ASSUME NEW k \in Tasks, Remove(k)
      PROVE  StockOK' /\ StockGrows
  BY <1>3, RemoveStocks
<1> QED
  BY <1>1, <1>2, <1>3, DataSteps

-----------------------------------------------------------------------------
(* The invocations                                                          *)

\* What an invocation did stays done.
LEMMA EffectLasts ==
    ASSUME NEW t, Effect(t), StockGrows
    PROVE  Effect(t)'
  BY DEF Effect, StockGrows

\* An invocation that is untouched, or crossed, did what it did.
LEMMA KeptIsSound ==
    ASSUME NEW t, NEW u, Shape(t), Effect(t), Kept(t, u), StockGrows
    PROVE  Shape(u) /\ Effect(u)'
<1>1. Effect(t)'
  BY EffectLasts
<1>2. CASE u = t
  BY <1>1, <1>2
<1>3. CASE u = [c |-> t.c, f |-> t.f, left |-> t.left, item |-> t.item, shown |-> t.shown,
                cut |-> t.cut, crossed |-> TRUE]
  <2>1. u.f = t.f /\ u.left = t.left /\ u.item = t.item
    BY <1>3
  <2>2. /\ t.c \in Clients /\ t.f \in AnyFrames /\ t.left \in CallsOf(t.f) /\ t.item \in {0} \cup Ids
        /\ t.shown \in SUBSET Ids /\ t.cut \in SUBSET Ids
    BY DEF Shape
  <2>3. u \in [c : Clients, f : AnyFrames, left : CallsOf(u.f), item : {0} \cup Ids,
               shown : SUBSET Ids, cut : SUBSET Ids, crossed : BOOLEAN]
    BY <1>3, <2>1, <2>2
  <2>4. Shape(u)
    BY <2>1, <2>3 DEF Shape
  <2>5. Effect(u)'
    BY <1>1, <2>1 DEF Effect
  <2> QED
    BY <2>4, <2>5
<1> QED
  BY <1>2, <1>3 DEF Kept

\* An invocation goes on with the calls it has left.
LEMMA FollowsIsSound ==
    ASSUME NEW t, NEW u, Shape(t), Follows(t, u), Head(t.left) # "answer",
           u.item \in {0} \cup Ids, u.shown \subseteq Ids, u.cut \subseteq Ids,
           t.f.op \in Deletions => u.item = t.item
    PROVE  /\ Shape(u) /\ u.c = t.c /\ u.f = t.f /\ u.left = Tail(t.left) /\ u.crossed = t.crossed
           /\ Head(u.left) \notin {"put", "remove", "join"}
<1>1. /\ t.c \in Clients /\ t.f \in AnyFrames /\ t.left \in CallsOf(t.f) /\ t.crossed \in BOOLEAN
      /\ t.f.op \in Deletions => t.item = t.f.arg
  BY DEF Shape
<1>2. PICK i, s, x : i = u.item /\ s = u.shown /\ x = u.cut
  OBVIOUS
<1>3. PICK l : l = Tail(t.left)
  OBVIOUS
<1>4. l \in CallsOf(t.f) /\ Head(l) \notin {"put", "remove", "join"}
  BY <1>1, <1>3, CallsGoOn
<1>5. u = [c |-> t.c, f |-> t.f, left |-> l, item |-> i, shown |-> s, cut |-> x,
           crossed |-> t.crossed]
  BY <1>2, <1>3 DEF Follows
<1>6. u.c = t.c /\ u.f = t.f /\ u.left = l /\ u.item = i
  BY <1>5
<1>7. u.crossed = t.crossed
  BY <1>5
<1>8. u \in [c : Clients, f : AnyFrames, left : CallsOf(u.f), item : {0} \cup Ids,
             shown : SUBSET Ids, cut : SUBSET Ids, crossed : BOOLEAN]
  BY <1>1, <1>2, <1>4, <1>5, <1>6
<1>9. Shape(u)
  BY <1>1, <1>2, <1>4, <1>6, <1>8 DEF Shape
<1> QED
  BY <1>3, <1>4, <1>6, <1>7, <1>9

\* The frames there can be are of these kinds.
LEMMA FramesAreFrames ==
    ASSUME DataOK
    PROVE  Frames \subseteq AnyFrames
<1>1. /\ IdsOf("conversation") \subseteq Ids /\ IdsOf("post") \subseteq Ids
  BY DEF DataOK, StockOK, IdsOf, Items
<1> QED
  BY <1>1 DEF Frames, AnyFrames, Deletions

\* A frame is started as its handler has it.
LEMMA StartIsSound ==
    ASSUME NEW k \in Tasks, NEW c \in Clients, NEW f \in Frames, DataOK, Start(k, c, f)
    PROVE  /\ Shape(task'[k]) /\ Effect(task'[k])
           /\ task[k] = Idle /\ task'[k].c = c /\ task'[k].f = f /\ task'[k].left = Handler(f)
           /\ task'[k].crossed = FALSE
           /\ \A q \in Tasks \ {k} : task'[q] = task[q]
           /\ task' = [q \in Tasks |-> task'[q]]
<1>1. f \in AnyFrames /\ Handler(f) \in CallsOf(f)
  BY FramesAreFrames, HandlerIsItsCalls
<1>2. PICK i : i = IF f.op \in Deletions THEN f.arg ELSE 0
  OBVIOUS
<1>3. PICK l \in CallsOf(f) : l = Handler(f)
  BY <1>1
<1>4. task = [q \in Tasks |-> task[q]]
  BY DEF DataOK, StoreOK
<1>5. PICK u : u = [Idle EXCEPT !.c = c, !.f = f, !.left = l, !.item = i]
  OBVIOUS
<1>6. task' = [task EXCEPT ![k] = u] /\ task[k] = Idle
  BY <1>2, <1>3, <1>5 DEF Start
<1>7. task'[k] = u /\ (\A q \in Tasks \ {k} : task'[q] = task[q]) /\ task' = [q \in Tasks |-> task'[q]]
  BY <1>4, <1>6
<1>8. u = [c |-> c, f |-> f, left |-> l, item |-> i, shown |-> {}, cut |-> {}, crossed |-> FALSE]
  BY <1>5 DEF Idle
<1>9. u.c = c /\ u.f = f /\ u.left = l /\ u.item = i /\ u.crossed = FALSE
  BY <1>8
<1>10. i \in {0} \cup Ids
  BY <1>1, <1>2 DEF AnyFrames, Deletions
<1>11. u \in [c : Clients, f : AnyFrames, left : CallsOf(u.f), item : {0} \cup Ids,
              shown : SUBSET Ids, cut : SUBSET Ids, crossed : BOOLEAN]
  BY <1>1, <1>3, <1>8, <1>9, <1>10
<1>12. Shape(u)
  <2>1. Head(l) = "put" => f.op \notin Deletions
    BY <1>1, CallsBy DEF Makers, Deletions
  <2> QED
    BY <1>2, <1>9, <1>11, <2>1 DEF Shape
<1>13. f.op \in Makers => Head(l) = "put"
  <2>1. f.op \in Makers => \/ f.op \in {"chat.create", "chat.send", "post.create"}
                           \/ f.op = "createPost"
    BY DEF Makers
  <2>2. Head(CreatePostMutation(0)) = "put" /\ Head(CreatePostMutation(1)) = "put"
    BY TopicsPublished, ListHeads
  <2>3. f.op = "createPost" => f.arg \in {0, 1} /\ Handler(f) = CreatePostMutation(f.arg)
    BY <1>1 DEF AnyFrames, Handler, Deletions
  <2>4. f.op = "createPost" => Head(l) = "put"
    BY <1>3, <2>2, <2>3
  <2>5. f.op \in {"chat.create", "chat.send", "post.create"} => Handler(f) = <<"put", "emit", "answer">>
    BY DEF Handler, CreateConversation, Send, CreatePost
  <2> QED
    BY <1>3, <2>1, <2>4, <2>5, ListHeads
<1>14. f.op \in Deletions => Head(l) = "remove" /\ \E m \in Stock : m.id = i /\ m.kind = "post"
  <2>1. f.op \in Deletions => f.op \in {"post.delete", "deletePost"} /\ f.arg \in IdsOf("post")
    BY DEF Frames, Deletions
  <2>2. f.op = "post.delete" => Handler(f) = <<"remove", "emit", "answer">>
    BY DEF Handler, DeletePost
  <2>3. f.op = "deletePost" => Handler(f) = <<"remove", "answer">>
    BY DEF Handler, DeletePostMutation
  <2>4. f.arg \in IdsOf("post") => \E m \in Stock : m.id = f.arg /\ m.kind = "post"
    BY DEF IdsOf, Stock
  <2> QED
    BY <1>2, <1>3, <2>1, <2>2, <2>3, <2>4, ListHeads
<1>15. Effect(u)
  <2>1. f.op \notin Makers \/ Head(l) = "put"
    BY <1>13
  <2> QED
    BY <1>9, <1>14, <2>1 DEF Effect
<1> QED
  BY <1>3, <1>6, <1>7, <1>9, <1>12, <1>15

\* While one invocation makes a call, the others did what they did.
LEMMA OthersAreSound ==
    ASSUME NEW k \in Tasks, NEW step, DataOK, Called(k, step), StockGrows,
           NEW q \in Tasks \ {k}, task'[q] # Idle
    PROVE  Shape(task'[q]) /\ Effect(task[q])'
<1>1. PICK t : t = task[q]
  OBVIOUS
<1>2. PICK u : u = task'[q]
  OBVIOUS
<1>3. t # Idle /\ Kept(t, u)
  BY <1>1, <1>2 DEF Called
<1>4. Shape(t) /\ Effect(t)
  BY <1>1, <1>3 DEF DataOK, TasksOK
<1>5. Shape(u) /\ Effect(u)'
  BY <1>3, <1>4, KeptIsSound
<1> QED
  BY <1>2, <1>5

\* A call leaves an invocation in shape.
LEMMA CallShapes ==
    ASSUME NEW k \in Tasks, NEW step, DataOK, Called(k, step),
           task'[k].item \in {0} \cup Ids, task'[k].shown \subseteq Ids, task'[k].cut \subseteq Ids,
           task[k].f.op \in Deletions => task'[k].item = task[k].item
    PROVE  /\ Shape(task[k]) /\ Effect(task[k]) /\ Shape(task'[k])
           /\ task'[k].c = task[k].c /\ task'[k].f = task[k].f
           /\ task'[k].left = Tail(task[k].left) /\ task'[k].crossed = task[k].crossed
           /\ Head(task'[k].left) \notin {"put", "remove", "join"}
<1>1. Shape(task[k]) /\ Effect(task[k]) /\ Follows(task[k], task'[k]) /\ Head(task[k].left) # "answer"
  BY DEF Called, DataOK, TasksOK
<1> QED
  BY <1>1, FollowsIsSound

\* A call that is not a put or a remove adds nothing to what its invocation did.
LEMMA CallIsSound ==
    ASSUME NEW k \in Tasks, NEW step, DataOK, Called(k, step), StockGrows,
           step \notin {"put", "remove"}, task'[k].item = task[k].item,
           task'[k].shown \subseteq Ids, task'[k].cut \subseteq Ids
    PROVE  Shape(task'[k]) /\ Effect(task[k])'
<1>1. PICK t : t = task[k]
  OBVIOUS
<1>2. PICK u : u = task'[k]
  OBVIOUS
<1>3. Shape(t) /\ Effect(t) /\ Head(t.left) = step
  BY <1>1 DEF Called, DataOK, TasksOK
<1>4. t.item \in {0} \cup Ids
  BY <1>3 DEF Shape
<1>5. Shape(u) /\ u.f = t.f /\ u.item = t.item
  BY <1>1, <1>2, <1>4, CallShapes
<1>6. Effect(t)'
  BY <1>3, EffectLasts
<1>7. Effect(u)'
  BY <1>3, <1>5, <1>6 DEF Effect
<1> QED
  BY <1>2, <1>5, <1>7

\* A put stores what its frame makes.
LEMMA PutIsSound ==
    ASSUME NEW k \in Tasks, DataOK, Put(k)
    PROVE  /\ Called(k, "put") /\ Alone(k) /\ task[k].f.op \in Makers
           /\ Shape(task'[k]) /\ Effect(task[k])'
<1>1. Called(k, "put") /\ Alone(k) /\ task'[k].item = made'
  BY PutCalls
<1>2. PICK t : t = task[k]
  OBVIOUS
<1>3. PICK u : u = task'[k]
  OBVIOUS
<1>4. PICK n : n = made'
  OBVIOUS
<1>5. n \in Ids /\ Stock' = Stock \cup {Created(t.f, n)}
  BY <1>2, <1>4, PutStocks
<1>6. Shape(t) /\ Head(t.left) = "put"
  BY <1>1, <1>2 DEF Called, DataOK, TasksOK
<1>7. t.f.op \in Makers /\ t.shown \subseteq Ids /\ t.cut \subseteq Ids
  BY <1>6, ShapeIsLive, CallsBy DEF Shape
<1>8. t.f.op \notin Deletions
  BY <1>7 DEF Makers, Deletions
<1>9. u.item = n /\ u.shown = t.shown /\ u.cut = t.cut
  BY <1>1, <1>2, <1>3, <1>4 DEF Alone
<1>10. Shape(u) /\ u.f = t.f
  BY <1>1, <1>2, <1>3, <1>5, <1>7, <1>8, <1>9, CallShapes
<1>11. Effect(u)'
  BY <1>5, <1>8, <1>9, <1>10 DEF Effect
<1> QED
  BY <1>1, <1>2, <1>3, <1>7, <1>10, <1>11

\* A remove removes the post of its frame.
LEMMA RemoveIsSound ==
    ASSUME NEW k \in Tasks, DataOK, Remove(k)
    PROVE  /\ Called(k, "remove") /\ Alone(k)
           /\ Shape(task'[k]) /\ Effect(task[k])'
<1>1. Called(k, "remove") /\ Alone(k) /\ task'[k].item = task[k].item
  BY PlainCalls DEF Remove
<1>2. PICK t : t = task[k]
  OBVIOUS
<1>3. PICK u : u = task'[k]
  OBVIOUS
<1>4. Stock' = Stock /\ \A m \in Stock : m.id = t.item => m \in retracted'
  BY <1>2, RemoveStocks
<1>5. Shape(t) /\ Effect(t) /\ Head(t.left) = "remove"
  BY <1>1, <1>2 DEF Called, DataOK, TasksOK
<1>6. t.f.op \in Deletions /\ t.shown \subseteq Ids /\ t.cut \subseteq Ids /\ t.item \in {0} \cup Ids
  BY <1>5, ShapeIsLive, CallsBy DEF Shape
<1>7. t.f.op \notin Makers
  BY <1>6 DEF Makers, Deletions
<1>8. u.item = t.item /\ u.shown = t.shown /\ u.cut = t.cut
  BY <1>1, <1>2, <1>3 DEF Alone
<1>9. Shape(u) /\ u.f = t.f
  BY <1>1, <1>2, <1>3, <1>6, <1>8, CallShapes
<1>10. \E m \in Stock : m.id = t.item /\ m.kind = "post"
  BY <1>5, <1>6 DEF Effect
<1>11. Effect(u)'
  BY <1>4, <1>7, <1>8, <1>9, <1>10 DEF Effect
<1> QED
  BY <1>1, <1>3, <1>9, <1>11

\* An invocation that answers, or is in a container that dies, is over.
LEMMA EndsAreIdle ==
    ASSUME NEW k \in Tasks, DataOK, Answer(k) \/ Crash(k)
    PROVE  /\ task[k] # Idle
           /\ task'[k] = Idle /\ task' = [q \in Tasks |-> task'[q]]
           /\ \A q \in Tasks \ {k} : task'[q] = task[q]
<1>1. task = [q \in Tasks |-> task[q]]
  BY DEF DataOK, StoreOK
<1>2. CASE Answer(k)
  <2>1. Now(k, "answer")
    BY <1>2 DEF Answer
  <2>2. Shape(task[k]) /\ Head(task[k].left) = "answer" /\ task[k] # Idle
    BY <2>1 DEF Now, DataOK, TasksOK
  <2>3. task[k].left = <<"answer">>
    BY <2>2, ShapeIsLive, CallsEnd
  <2>4. Len(<<"answer">>) = 1
    OBVIOUS
  <2>5. task' = [task EXCEPT ![k] = Idle]
    BY <1>2, <2>3, <2>4 DEF Answer
  <2> QED
    BY <1>1, <2>2, <2>5
<1>3. CASE Crash(k)
  BY <1>1, <1>3 DEF Crash
<1> QED
  BY <1>2, <1>3

\* The calls that are no put, no remove and no answer.
MidCall(k, step) ==
    \/ step = "emit" /\ Emit(k)
    \/ step \in {"publish", "publishFeed"} /\ Publish(k) /\ Now(k, step)
    \/ step = "join" /\ JoinRoom(k)
    \/ step = "leave" /\ LeaveRoom(k)
    \/ step = "drift" /\ DriftingJoin(k)
    \/ step = "read" /\ Read(k)

\* What a step does to the invocations.
LEMMA TaskSteps ==
    ASSUME [Next]_vars
    PROVE  \/ UNCHANGED task
           \/ \E k \in Tasks, c \in Clients, f \in Frames : Start(k, c, f)
           \/ \E k \in Tasks : \/ Put(k) \/ Remove(k) \/ Answer(k) \/ Crash(k)
                               \/ \E step : MidCall(k, step)
<1>1. CASE UNCHANGED vars
  BY <1>1 DEF vars
<1>2. ASSUME NEW c \in Clients, \E how \in {"anonymous", "named", "graphql"} : Connect(c, how)
      PROVE  UNCHANGED task
  BY <1>2 DEF Connect
<1>3. ASSUME NEW k \in Tasks, Emit(k) \/ Publish(k)
      PROVE  \E step : MidCall(k, step)
  BY <1>3 DEF MidCall, Publish
<1>4. ASSUME NEW k \in Tasks,
             JoinRoom(k) \/ LeaveRoom(k) \/ DriftingJoin(k) \/ Read(k)
      PROVE  \E step : MidCall(k, step)
  BY <1>4 DEF MidCall
<1>5. ASSUME NEW m \in adrift, JoinLands(m) \/ JoinFrozen(m)
      PROVE  UNCHANGED task
  BY <1>5 DEF JoinLands, JoinFrozen
<1>6. ASSUME NEW n \in DOMAIN outbox, Flush(n)
      PROVE  UNCHANGED task
  BY <1>6 DEF Flush
<1>7. CASE Next
  BY <1>2, <1>3, <1>4, <1>5, <1>6, <1>7 DEF Next
<1> QED
  BY <1>1, <1>7

\* What a listing shows are ids, of what is gone too.
LEMMA ListedAreItems ==
    ASSUME NEW f, f.op \in Listings, StockOK
    PROVE  /\ Listed(f) \subseteq table /\ {m.id : m \in Listed(f)} \subseteq Ids
           /\ {m.id : m \in Ghosts(f)} \subseteq Ids
<1>1. Listed(f) \subseteq table
  BY DEF Listings, Listed, Directory, History, Posts
<1>2. table \subseteq Items /\ retracted \subseteq Items
  BY DEF StockOK
<1>3. \A m \in Items : m.id \in Ids
  BY DEF Items
<1>4. Ghosts(f) \subseteq retracted
  BY DEF Ghosts
<1> QED
  BY <1>1, <1>2, <1>3, <1>4

\* Such a call goes on, and leaves its item alone.
LEMMA MidCallGoesOn ==
    ASSUME NEW k \in Tasks, NEW step, DataOK, MidCall(k, step)
    PROVE  /\ Called(k, step) /\ step \notin {"put", "remove"} /\ task'[k].item = task[k].item
           /\ task'[k].shown \subseteq Ids /\ task'[k].cut \subseteq Ids
<1>0. task[k] # Idle => Shape(task[k]) /\ task[k].shown \subseteq Ids /\ task[k].cut \subseteq Ids
  BY DEF DataOK, TasksOK, Shape
<1>1. CASE step = "emit" /\ Emit(k)
  <2>1. Now(k, step) /\ Onward(k, task[k]) /\ step # "answer"
    BY <1>1 DEF Emit, Record
  <2> QED
    BY <1>0, <1>1, <2>1, PlainCalls DEF Alone, Now
<1>2. CASE step \in {"publish", "publishFeed"} /\ Publish(k) /\ Now(k, step)
  <2>1. Now(k, step) /\ Onward(k, task[k]) /\ step # "answer"
    BY <1>2 DEF Publish, Record
  <2> QED
    BY <1>0, <1>2, <2>1, PlainCalls DEF Alone, Now
<1>3. CASE step = "join" /\ JoinRoom(k)
  <2>1. Now(k, step) /\ Onward(k, task[k]) /\ step # "answer"
    BY <1>3 DEF JoinRoom
  <2> QED
    BY <1>0, <1>3, <2>1, PlainCalls DEF Alone, Now
<1>4. CASE step = "leave" /\ LeaveRoom(k)
  BY <1>0, <1>4, LeaveCalls DEF LeaveRoom, Now
<1>5. CASE step = "drift" /\ DriftingJoin(k)
  <2>1. Now(k, step) /\ Onward(k, task[k]) /\ step # "answer"
    BY <1>5 DEF DriftingJoin
  <2> QED
    BY <1>0, <1>5, <2>1, PlainCalls DEF Alone, Now
<1>6. CASE step = "read" /\ Read(k)
  <2>1. /\ Called(k, "read") /\ task'[k].item = task[k].item
        /\ task'[k].shown \cup task'[k].cut \subseteq
             {m.id : m \in Listed(task[k].f)} \cup {m.id : m \in Ghosts(task[k].f)}
    BY <1>6, ReadCalls
  <2>2. Shape(task[k]) /\ Head(task[k].left) = "read"
    BY <1>0, <2>1 DEF Called
  <2>3. task[k].f.op \in Listings
    BY <2>2, ShapeIsLive, CallsBy
  <2>4. /\ {m.id : m \in Listed(task[k].f)} \subseteq Ids
        /\ {m.id : m \in Ghosts(task[k].f)} \subseteq Ids
    BY <2>3, ListedAreItems DEF DataOK
  <2> QED
    BY <1>6, <2>1, <2>4
<1> QED
  BY <1>1, <1>2, <1>3, <1>4, <1>5, <1>6 DEF MidCall

\* An invocation is always of a frame, and did what it has no call left for.
LEMMA TasksStep ==
    ASSUME DataOK, [Next]_vars
    PROVE  TasksOK' /\ task' = [q \in Tasks |-> task'[q]]
<1>0. StockGrows
  BY StockStep
<1>1. task = [q \in Tasks |-> task[q]]
  BY DEF DataOK, StoreOK
<1>2. ASSUME NEW q \in Tasks, task'[q] = task[q], task'[q] # Idle
      PROVE  Shape(task'[q]) /\ Effect(task[q])'
  <2>1. PICK t : t = task[q]
    OBVIOUS
  <2>2. Shape(t) /\ Effect(t)
    BY <1>2, <2>1 DEF DataOK, TasksOK
  <2>3. Effect(t)'
    BY <1>0, <2>2, EffectLasts
  <2>4. t = task'[q]
    BY <1>2, <2>1
  <2> QED
    BY <2>2, <2>3, <2>4
<1>3. CASE UNCHANGED task
  BY <1>1, <1>2, <1>3 DEF TasksOK
<1>4. ASSUME NEW k \in Tasks, NEW c \in Clients, NEW f \in Frames, Start(k, c, f)
      PROVE  TasksOK' /\ task' = [q \in Tasks |-> task'[q]]
  <2>1. PICK u : u = task'[k]
    OBVIOUS
  <2>2. /\ Shape(u) /\ Effect(u) /\ (\A q \in Tasks \ {k} : task'[q] = task[q])
        /\ task' = [q \in Tasks |-> task'[q]]
    BY <1>4, <2>1, StartIsSound
  <2>3. Effect(u)'
    BY <1>0, <2>2, EffectLasts
  <2>4. Shape(task'[k]) /\ Effect(task[k])'
    BY <2>1, <2>2, <2>3
  <2> QED
    BY <1>2, <2>2, <2>4 DEF TasksOK
<1>5. ASSUME NEW k \in Tasks, NEW step, Called(k, step), Shape(task'[k]), Effect(task[k])'
      PROVE  TasksOK' /\ task' = [q \in Tasks |-> task'[q]]
  <2>1. \A q \in Tasks \ {k} : task'[q] # Idle => Shape(task'[q]) /\ Effect(task[q])'
    BY <1>0, <1>5, OthersAreSound
  <2>2. task' = [q \in Tasks |-> task'[q]]
    BY <1>5 DEF Called
  <2> QED
    BY <1>5, <2>1, <2>2 DEF TasksOK
<1>6. ASSUME NEW k \in Tasks, Put(k)
      PROVE  TasksOK' /\ task' = [q \in Tasks |-> task'[q]]
  BY <1>5, <1>6, PutIsSound
<1>7. ASSUME NEW k \in Tasks, Remove(k)
      PROVE  TasksOK' /\ task' = [q \in Tasks |-> task'[q]]
  BY <1>5, <1>7, RemoveIsSound
<1>8. ASSUME NEW k \in Tasks, NEW step, MidCall(k, step)
      PROVE  TasksOK' /\ task' = [q \in Tasks |-> task'[q]]
  BY <1>0, <1>5, <1>8, MidCallGoesOn, CallIsSound
<1>9. ASSUME NEW k \in Tasks, Answer(k) \/ Crash(k)
      PROVE  TasksOK' /\ task' = [q \in Tasks |-> task'[q]]
  BY <1>2, <1>9, EndsAreIdle DEF TasksOK
<1> QED
  BY <1>3, <1>4, <1>6, <1>7, <1>8, <1>9, TaskSteps

-----------------------------------------------------------------------------
(* The records                                                              *)

\* Only a broadcast or a publish adds a record.
LEMMA OutboxSteps ==
    ASSUME [Next]_vars
    PROVE  UNCHANGED outbox \/ \E k \in Tasks : Emit(k) \/ Publish(k)
<1>1. CASE UNCHANGED vars
  BY <1>1 DEF vars, outVars
<1>2. ASSUME NEW c \in Clients, \E how \in {"anonymous", "named", "graphql"} : Connect(c, how)
      PROVE  UNCHANGED outbox
  BY <1>2 DEF Connect, outVars
<1>3. ASSUME NEW c \in Clients, NEW k \in Tasks, NEW f \in Frames, Start(k, c, f)
      PROVE  UNCHANGED outbox
  BY <1>3 DEF Start, outVars
<1>4. ASSUME NEW k \in Tasks, Put(k) \/ Remove(k) \/ Answer(k) \/ Crash(k)
      PROVE  UNCHANGED outbox
  BY <1>4 DEF Put, Remove, Answer, Told, Crash, outVars
<1>5. ASSUME NEW k \in Tasks, JoinRoom(k) \/ LeaveRoom(k) \/ DriftingJoin(k) \/ Read(k)
      PROVE  UNCHANGED outbox
  BY <1>5 DEF JoinRoom, LeaveRoom, DriftingJoin, Read, outVars
<1>6. ASSUME NEW m \in adrift, JoinLands(m) \/ JoinFrozen(m)
      PROVE  UNCHANGED outbox
  BY <1>6 DEF JoinLands, JoinFrozen, outVars
<1>7. ASSUME NEW n \in DOMAIN outbox, Flush(n)
      PROVE  UNCHANGED outbox
  BY <1>7 DEF Flush
<1> QED
  BY <1>1, <1>2, <1>3, <1>4, <1>5, <1>6, <1>7 DEF Next

\* The record an invocation adds.
Notice(t, room) == [room |-> room, item |-> t.item, made |-> t.f.op # "post.delete"]

\* Its fields.
LEMMA NoticeFields ==
    ASSUME NEW t, NEW room
    PROVE  /\ Notice(t, room).room = room /\ Notice(t, room).item = t.item
           /\ Notice(t, room).made <=> t.f.op # "post.delete"
           /\ room \in Rooms /\ t.item \in Ids =>
                Notice(t, room) \in [room : Rooms, item : Ids, made : BOOLEAN]
<1>1. PICK b \in BOOLEAN : b = (t.f.op # "post.delete")
  OBVIOUS
<1>2. Notice(t, room) = [room |-> room, item |-> t.item, made |-> b]
  BY <1>1 DEF Notice
<1>3. Notice(t, room).room = room /\ Notice(t, room).item = t.item
  BY <1>2
<1>4. Notice(t, room).made = b
  BY <1>2
<1>5. room \in Rooms /\ t.item \in Ids =>
        Notice(t, room) \in [room : Rooms, item : Ids, made : BOOLEAN]
  BY <1>1, <1>2
<1> QED
  BY <1>1, <1>3, <1>4, <1>5

\* A broadcast announces what its invocation stored, to the room it is of, or the end of
\* the post its invocation removed, to the feed.
LEMMA EmitIsSound ==
    ASSUME NEW k \in Tasks, DataOK, Emit(k)
    PROVE  /\ RecordOK(Notice(task[k], RoomOf(task[k].f)))
           /\ outbox' = Append(outbox, Notice(task[k], RoomOf(task[k].f)))
<1>1. PICK t : t = task[k]
  OBVIOUS
<1>2. Shape(t) /\ Effect(t) /\ Head(t.left) = "emit"
  BY <1>1 DEF Emit, Now, DataOK, TasksOK
<1>3. t.f \in AnyFrames /\ t.f.op \in Notifiers
  BY <1>2, ShapeIsLive, CallsBy
<1>4. StockOK /\ Stock \subseteq Items
  BY DEF DataOK, StockOK, Stock
<1>5. PICK r : r = Notice(t, RoomOf(t.f))
  OBVIOUS
<1>6. ASSUME t.f.op = "post.delete"
      PROVE  RecordOK(r)
  <2>1. PICK m \in Stock : m.id = t.item /\ m.kind = "post" /\ m \in retracted
    BY <1>2, <1>6 DEF Effect, Deletions
  <2>2. RoomOf(t.f) = Feed /\ Feed \in Rooms
    BY <1>6 DEF RoomOf, Rooms
  <2>3. t.item \in Ids
    BY <1>4, <2>1 DEF Items
  <2>4. r.room = Feed /\ r.item = t.item /\ ~r.made /\ r \in [room : Rooms, item : Ids, made : BOOLEAN]
    BY <1>5, <1>6, <2>2, <2>3, NoticeFields
  <2> QED
    BY <1>5, <2>1, <2>4 DEF RecordOK
<1>7. ASSUME t.f.op # "post.delete"
      PROVE  RecordOK(r)
  <2>1. t.f.op \in Makers /\ t.f.op # "createPost"
    BY <1>3, <1>7 DEF Notifiers, Makers
  <2>2. PICK m \in Stock : m = Created(t.f, t.item)
    BY <1>2, <2>1 DEF Effect
  <2>3. t.item \in {0} \cup Ids
    BY <1>2 DEF Shape
  <2>4. m.id = t.item
    BY <2>2 DEF Created, NewConversation, NewMessage, NewPost, Item
  <2>5. t.item \in Ids
    BY <1>4, <2>2, <2>4 DEF Items
  <2>6. RoomOf(t.f) = Home(m) /\ RoomOf(t.f) \in Rooms
    <3>1. CASE t.f.op = "chat.send"
      <4>1. t.f.arg \in Ids
        BY <1>3, <3>1 DEF AnyFrames, Deletions
      <4> QED
        BY <1>3, <2>2, <2>5, <3>1, <4>1, CreatedIsAnItem DEF RoomOf, Home, Rooms
    <3>2. CASE t.f.op # "chat.send"
      BY <1>3, <1>7, <2>2, <2>5, <3>2, CreatedIsAnItem DEF RoomOf, Home, Rooms
    <3> QED
      BY <3>1, <3>2
  <2>7. r.room = Home(m) /\ r.item = t.item /\ r.made /\ r \in [room : Rooms, item : Ids, made : BOOLEAN]
    BY <1>5, <1>7, <2>5, <2>6, NoticeFields
  <2> QED
    BY <1>5, <2>4, <2>7 DEF RecordOK
<1>8. outbox' = Append(outbox, Notice(task[k], RoomOf(task[k].f)))
  BY DEF Emit, Record, Notice
<1> QED
  BY <1>1, <1>5, <1>6, <1>7, <1>8

\* A publish is of a post that is announced to no room.
LEMMA PublishIsSound ==
    ASSUME NEW k \in Tasks, DataOK, Publish(k)
    PROVE  \E room : /\ RecordOK(Notice(task[k], room))
                     /\ outbox' = Append(outbox, Notice(task[k], room))
<1>1. PICK t : t = task[k]
  OBVIOUS
<1>2. Shape(t) /\ Effect(t) /\ Head(t.left) \in {"publish", "publishFeed"}
  BY <1>1 DEF Publish, Now, DataOK, TasksOK
<1>3. t.f \in AnyFrames /\ t.f.op = "createPost"
  BY <1>2, ShapeIsLive, CallsBy
<1>4. t.f.arg \in {0, 1}
  BY <1>3 DEF AnyFrames, Deletions
<1>5. PICK room : /\ room \in {<<"added", 0>>, <<"added", t.f.arg>>}
                  /\ outbox' = Append(outbox, Notice(task[k], room))
  BY <1>1 DEF Publish, Record, Notice
<1>6. room \in Rooms
  BY <1>4, <1>5 DEF Rooms
<1>7. PICK m \in Stock : m = Created(t.f, t.item)
  BY <1>2, <1>3 DEF Effect, Makers
<1>8. m.id = t.item
  BY <1>7 DEF Created, NewConversation, NewMessage, NewPost, Item
<1>9. t.item \in Ids
  BY <1>7, <1>8 DEF DataOK, StockOK, Stock, Items
<1>10. ~m.public /\ m.kind # "message"
  BY <1>3, <1>7, <1>9, CreatedIsAnItem
<1>11. PICK r : r = Notice(t, room)
  OBVIOUS
<1>12. r.item = t.item /\ r.made /\ r \in [room : Rooms, item : Ids, made : BOOLEAN]
  BY <1>3, <1>6, <1>9, <1>11, NoticeFields
<1>13. RecordOK(r)
  BY <1>8, <1>10, <1>12 DEF RecordOK
<1> QED
  BY <1>1, <1>5, <1>11, <1>13

\* A record stays true.
LEMMA RecordLasts ==
    ASSUME NEW r, RecordOK(r), StockGrows
    PROVE  RecordOK(r)'
  BY DEF RecordOK, StockGrows

\* Records are only added, at the end.
OutboxGrows ==
    /\ outbox' \in Seq([room : Rooms, item : Ids, made : BOOLEAN])
    /\ DOMAIN outbox \subseteq DOMAIN outbox' /\ Len(outbox) <= Len(outbox')
    /\ \A n \in DOMAIN outbox : outbox'[n] = outbox[n]

\* One more record.
LEMMA OneRecordMore ==
    ASSUME DataOK, NEW r \in [room : Rooms, item : Ids, made : BOOLEAN], outbox' = Append(outbox, r)
    PROVE  /\ OutboxGrows
           /\ Len(outbox) + 1 \in DOMAIN outbox' /\ outbox'[Len(outbox) + 1] = r
           /\ Len(outbox) + 1 \notin DOMAIN outbox
           /\ \A n \in DOMAIN outbox' : n \in DOMAIN outbox \/ n = Len(outbox) + 1
<1>1. outbox \in Seq([room : Rooms, item : Ids, made : BOOLEAN])
  BY DEF DataOK, StoreOK
<1>2. DOMAIN outbox = 1..Len(outbox) /\ Len(outbox) \in Nat
  BY <1>1
<1>3. outbox' \in Seq([room : Rooms, item : Ids, made : BOOLEAN]) /\ Len(outbox') = Len(outbox) + 1
  BY <1>1
<1>4. DOMAIN outbox' = 1..(Len(outbox) + 1)
  BY <1>3
<1>5. outbox'[Len(outbox) + 1] = r /\ \A n \in 1..Len(outbox) : outbox'[n] = outbox[n]
  BY <1>1
<1> QED
  BY <1>2, <1>3, <1>4, <1>5 DEF OutboxGrows

\* The records stay sound.
LEMMA OutboxStep ==
    ASSUME DataOK, [Next]_vars
    PROVE  OutboxOK' /\ OutboxGrows
<1>0. StockGrows
  BY StockStep
<1>1. CASE UNCHANGED outbox
  <2>1. OutboxGrows
    BY <1>1 DEF OutboxGrows, DataOK, StoreOK
  <2>2. ASSUME NEW n \in DOMAIN outbox'
        PROVE  RecordOK(outbox[n])'
    <3>1. PICK r : r = outbox[n]
      OBVIOUS
    <3>2. RecordOK(r)
      BY <1>1, <2>2, <3>1 DEF DataOK, OutboxOK
    <3>3. RecordOK(r)'
      BY <1>0, <3>2, RecordLasts
    <3>4. r = outbox'[n]
      BY <1>1, <3>1
    <3> QED
      BY <3>3, <3>4
  <2> QED
    BY <2>1, <2>2 DEF OutboxOK
<1>2. ASSUME NEW s, RecordOK(s), outbox' = Append(outbox, s)
      PROVE  OutboxOK' /\ OutboxGrows
  <2>1. s \in [room : Rooms, item : Ids, made : BOOLEAN]
    BY <1>2 DEF RecordOK
  <2>2. /\ OutboxGrows
        /\ outbox'[Len(outbox) + 1] = s
        /\ \A n \in DOMAIN outbox' : n \in DOMAIN outbox \/ n = Len(outbox) + 1
    BY <1>2, <2>1, OneRecordMore
  <2>3. ASSUME NEW n \in DOMAIN outbox'
        PROVE  RecordOK(outbox[n])'
    <3>1. PICK r : r = outbox'[n]
      OBVIOUS
    <3>2. RecordOK(r)
      BY <1>2, <2>2, <2>3, <3>1 DEF DataOK, OutboxOK, OutboxGrows
    <3>3. RecordOK(r)'
      BY <1>0, <3>2, RecordLasts
    <3> QED
      BY <3>1, <3>3
  <2> QED
    BY <2>2, <2>3 DEF OutboxOK
<1> QED
  BY <1>1, <1>2, OutboxSteps, EmitIsSound, PublishIsSound

-----------------------------------------------------------------------------
(* Types                                                                    *)

\* What of the state neither the invocations nor the records are.
RestOK ==
    /\ who \in [Clients -> {"away", "anonymous", "named", "graphql"}]
    /\ members \subseteq Clients \X Rooms /\ adrift \subseteq Clients \X {Feed}
    /\ flushed \subseteq DOMAIN outbox /\ heard \subseteq Clients \X flushed
    /\ found \subseteq [c : Clients, item : Ids, after : Nat, stale : BOOLEAN]
    /\ acked \subseteq Ids \X BOOLEAN /\ faults \in 0..MaxFaults /\ frames \in 0..MaxFrames

\* What a read of the posts finds, it finds after the records there are: for a client,
\* and an item that is gone only if the read is stale.
LEMMA ReadFinds ==
    ASSUME NEW k \in Tasks, DataOK, Read(k), NEW p \in found', p \notin found
    PROVE  /\ p \in [c : Clients, item : Ids, after : Nat, stale : BOOLEAN]
           /\ p.after = Len(outbox)
           /\ \A m \in retracted : p.item = m.id => p.stale
<1>1. Shape(task[k]) /\ Head(task[k].left) = "read"
  BY DEF Read, Now, DataOK, TasksOK
<1>2. task[k].c \in Clients /\ task[k].f.op \in Listings
  BY <1>1, ShapeIsLive, CallsBy DEF Shape
<1>3. PICK all : all = {m.id : m \in Listed(task[k].f)}
  OBVIOUS
<1>4. PICK gone : gone = {m.id : m \in Ghosts(task[k].f)}
  OBVIOUS
<1>5. all \subseteq Ids /\ gone \subseteq Ids /\ Listed(task[k].f) \subseteq table
  BY <1>2, <1>3, <1>4, ListedAreItems DEF DataOK
<1>6. PICK id \in all \cup gone :
         p = [c |-> task[k].c, item |-> id, after |-> Len(outbox), stale |-> id \notin all]
  BY <1>3, <1>4 DEF Read
<1>7. Len(outbox) \in Nat
  BY DEF DataOK, StoreOK
<1>8. PICK b \in BOOLEAN : b = (id \notin all)
  OBVIOUS
<1>9. /\ p \in [c : Clients, item : Ids, after : Nat, stale : BOOLEAN]
      /\ p.after = Len(outbox) /\ p.item = id /\ p.stale = b
  BY <1>2, <1>5, <1>6, <1>7, <1>8
<1>10. ASSUME NEW m \in retracted, id = m.id, id \in all
       PROVE  FALSE
  <2>1. PICK i \in table : i.id = id
    BY <1>3, <1>5, <1>10
  <2>2. i = m
    BY <1>10, <2>1 DEF DataOK, StockOK, Stock
  <2> QED
    BY <1>10, <2>1, <2>2 DEF DataOK, StockOK
<1> QED
  BY <1>8, <1>9, <1>10

\* A failure is one more, below the bound.
LEMMA FaultsAreBounded ==
    ASSUME faults \in 0..MaxFaults, NEW f, Fault(f)
    PROVE  faults' \in 0..MaxFaults
<1>1. MaxFaults \in Nat
  BY ExampleAssumption
<1> QED
  BY <1>1 DEF Fault

\* Everything stays of its type.
LEMMA RestStep ==
    ASSUME DataOK, [Next]_vars
    PROVE  RestOK'
<1>0. RestOK
  BY DEF DataOK, StoreOK, RestOK
<1>a. OutboxGrows
  BY OutboxStep
<1>b. flushed \subseteq DOMAIN outbox'
  BY <1>0, <1>a DEF RestOK, OutboxGrows
<1>1. CASE UNCHANGED vars
  BY <1>0, <1>1 DEF RestOK, vars, roomVars, dataVars, outVars, toldVars, ghostVars, bounds
<1>2. ASSUME NEW c \in Clients, NEW how \in {"anonymous", "named", "graphql"}, Connect(c, how)
      PROVE  RestOK'
  <2>1. who' \in [Clients -> {"away", "anonymous", "named", "graphql"}]
    BY <1>0, <1>2 DEF RestOK, Connect
  <2>2. members' \subseteq Clients \X Rooms
    BY <1>0, <1>2 DEF RestOK, Connect, Rooms
  <2> QED
    BY <1>0, <1>2, <2>1, <2>2 DEF RestOK, Connect, outVars, toldVars, ghostVars, bounds
<1>3. ASSUME NEW c \in Clients, NEW k \in Tasks, NEW f \in Frames, Start(k, c, f)
      PROVE  RestOK'
  <2>1. MaxFrames \in Nat
    BY ExampleAssumption
  <2>2. frames' \in 0..MaxFrames
    BY <1>0, <1>3, <2>1 DEF RestOK, Start
  <2> QED
    BY <1>0, <1>3, <2>2 DEF RestOK, Start, roomVars, outVars, ghostVars
<1>4. ASSUME NEW k \in Tasks, Put(k) \/ Remove(k)
      PROVE  RestOK'
  BY <1>0, <1>4 DEF RestOK, Put, Remove, roomVars, outVars, toldVars, ghostVars, bounds
<1>5. ASSUME NEW k \in Tasks, Emit(k) \/ Publish(k)
      PROVE  RestOK'
  BY <1>0, <1>5, <1>b DEF RestOK, Emit, Publish, Record, roomVars, toldVars, ghostVars, bounds
<1>6. ASSUME NEW k \in Tasks, JoinRoom(k) \/ LeaveRoom(k) \/ DriftingJoin(k)
      PROVE  RestOK'
  <2>1. Now(k, "join") \/ Now(k, "leave") \/ Now(k, "drift")
    BY <1>6 DEF JoinRoom, LeaveRoom, DriftingJoin
  <2>2. Shape(task[k]) /\ (Now(k, "join") => Head(task[k].left) = "join")
    BY <2>1 DEF Now, DataOK, TasksOK
  <2>3. task[k].c \in Clients /\ task[k].f \in AnyFrames
    BY <2>2 DEF Shape
  <2>4. Now(k, "join") => task[k].f.arg \in Ids
    BY <2>2, <2>3, ShapeIsLive, CallsBy DEF AnyFrames, Deletions
  <2>5. CASE JoinRoom(k)
    <3>1. <<task[k].c, Conv(task[k].f.arg)>> \in Clients \X Rooms
      BY <2>3, <2>4, <2>5 DEF JoinRoom, Rooms
    <3> QED
      BY <1>0, <2>5, <3>1 DEF RestOK, JoinRoom, outVars, toldVars, ghostVars, bounds
  <2>6. CASE LeaveRoom(k)
    BY <1>0, <2>6 DEF RestOK, LeaveRoom, outVars, toldVars, ghostVars, bounds
  <2>7. CASE DriftingJoin(k)
    BY <1>0, <2>3, <2>7 DEF RestOK, DriftingJoin, outVars, toldVars, ghostVars, bounds
  <2> QED
    BY <1>6, <2>5, <2>6, <2>7
<1>7. ASSUME NEW k \in Tasks, Read(k)
      PROVE  RestOK'
  <2>1. faults' = faults \/ Fault("stale")
    BY <1>7 DEF Read
  <2>2. faults' \in 0..MaxFaults
    BY <1>0, <2>1, FaultsAreBounded DEF RestOK
  <2>3. found' \subseteq [c : Clients, item : Ids, after : Nat, stale : BOOLEAN]
    BY <1>0, <1>7, ReadFinds DEF RestOK
  <2> QED
    BY <1>0, <1>7, <2>2, <2>3 DEF RestOK, Read, roomVars, outVars, toldVars
<1>8. ASSUME NEW k \in Tasks, Answer(k)
      PROVE  RestOK'
  <2>1. Shape(task[k]) /\ Effect(task[k]) /\ Head(task[k].left) = "answer"
    BY <1>8 DEF Answer, Now, DataOK, TasksOK
  <2>2. PICK t : t = task[k]
    OBVIOUS
  <2>3. ASSUME t.f.op \in Notifiers
        PROVE  t.item \in Ids
    <3>1. CASE t.f.op = "post.delete"
      <4>1. PICK m \in Stock : m.id = t.item
        BY <2>1, <2>2, <3>1 DEF Effect, Deletions
      <4> QED
        BY <4>1 DEF DataOK, StockOK, Stock, Items
    <3>2. CASE t.f.op # "post.delete"
      <4>1. t.f.op \in Makers
        BY <2>3, <3>2 DEF Notifiers, Makers
      <4>2. PICK m \in Stock : m = Created(t.f, t.item)
        BY <2>1, <2>2, <4>1 DEF Effect
      <4>3. m.id = t.item
        BY <4>2 DEF Created, NewConversation, NewMessage, NewPost, Item
      <4> QED
        BY <4>2, <4>3 DEF DataOK, StockOK, Stock, Items
    <3> QED
      BY <3>1, <3>2
  <2>a. PICK b \in BOOLEAN : b = (t.f.op # "post.delete")
    OBVIOUS
  <2>4. acked' = IF t.f.op \in Notifiers THEN acked \cup {<<t.item, b>>} ELSE acked
    BY <1>8, <2>2, <2>a DEF Answer, Told, Notifiers
  <2>5. acked' \subseteq Ids \X BOOLEAN
    BY <1>0, <2>3, <2>4 DEF RestOK
  <2> QED
    BY <1>0, <1>8, <2>5 DEF RestOK, Answer, Told, roomVars, outVars, ghostVars, bounds
<1>9. ASSUME NEW k \in Tasks, Crash(k)
      PROVE  RestOK'
  <2>1. faults' \in 0..MaxFaults
    BY <1>0, <1>9, FaultsAreBounded DEF RestOK, Crash
  <2> QED
    BY <1>0, <1>9, <2>1 DEF RestOK, Crash, roomVars, outVars, toldVars
<1>10. ASSUME NEW m \in adrift, JoinLands(m) \/ JoinFrozen(m)
       PROVE  RestOK'
  <2>1. Feed \in Rooms
    BY DEF Rooms
  <2>2. m \in Clients \X Rooms
    BY <1>0, <2>1 DEF RestOK
  <2>3. members' \subseteq Clients \X Rooms /\ adrift' \subseteq Clients \X {Feed}
    BY <1>0, <1>10, <2>2 DEF RestOK, JoinLands, JoinFrozen
  <2> QED
    BY <1>0, <1>10, <2>3 DEF RestOK, JoinLands, JoinFrozen, outVars, toldVars, bounds
<1>11. ASSUME NEW n \in DOMAIN outbox, Flush(n)
       PROVE  RestOK'
  <2>1. PICK reached : reached \subseteq Clients /\ heard' = heard \cup (reached \X {n})
    BY <1>11 DEF Flush
  <2>2. flushed' = flushed \cup {n} /\ outbox' = outbox
    BY <1>11 DEF Flush
  <2>3. heard' \subseteq Clients \X flushed' /\ flushed' \subseteq DOMAIN outbox'
    BY <1>0, <2>1, <2>2 DEF RestOK
  <2> QED
    BY <1>0, <1>11, <2>3 DEF RestOK, Flush, roomVars, toldVars, bounds
<1> QED
  BY <1>1, <1>2, <1>3, <1>4, <1>5, <1>6, <1>7, <1>8, <1>9, <1>10, <1>11 DEF Next

\* The repositories, the invocations and the records stay sound.
LEMMA DataStep ==
    ASSUME DataOK, [Next]_vars
    PROVE  DataOK'
<1>1. StoreOK'
  BY RestStep, OutboxStep, TasksStep DEF RestOK, StoreOK, OutboxGrows
<1> QED
  BY <1>1, StockStep, OutboxStep, TasksStep DEF DataOK

\* There is a conversation, and a post.
LEMMA DataInit ==
    ASSUME Init
    PROVE  DataOK
<1>1. /\ MaxItems \in Nat /\ MaxItems >= 2 /\ MaxFaults \in Nat /\ MaxFrames \in Nat
  BY ExampleAssumption
<1>2. 1 \in Ids /\ 2 \in Ids
  BY <1>1 DEF Ids
<1>3. NewConversation(1) \in Items /\ NewConversation(1).id = 1
  BY <1>2 DEF NewConversation, Item, Items, Kinds
<1>4. NewPost(2, TRUE) \in Items /\ NewPost(2, TRUE).id = 2
  BY <1>2 DEF NewPost, Item, Items, Kinds
<1>5. PICK a, b : a = NewConversation(1) /\ b = NewPost(2, TRUE)
  OBVIOUS
<1>6. a \in Items /\ b \in Items /\ a.id = 1 /\ b.id = 2
  BY <1>3, <1>4, <1>5
<1>7. table = {a, b} /\ retracted = {} /\ made = 2 /\ Stock = {a, b}
  BY <1>5 DEF Init, Stock
<1>8. StockOK
  <2>1. {m.id : m \in Stock} = 1..made
    BY <1>6, <1>7
  <2>2. \A m1, m2 \in Stock : m1.id = m2.id => m1 = m2
    BY <1>6, <1>7
  <2> QED
    BY <1>1, <1>6, <1>7, <2>1, <2>2 DEF StockOK
<1>9. TasksOK /\ task = [k \in Tasks |-> task[k]]
  BY DEF Init, TasksOK
<1>10. OutboxOK /\ outbox \in Seq([room : Rooms, item : Ids, made : BOOLEAN])
  <2>1. outbox = <<>>
    BY DEF Init
  <2> QED
    BY <2>1 DEF OutboxOK
<1>11. StoreOK
  BY <1>1, <1>9, <1>10 DEF Init, StoreOK
<1> QED
  BY <1>8, <1>9, <1>10, <1>11 DEF DataOK

\* Type correctness: the state is always of its types, and an invocation always has an
\* end of its handler's calls left.
THEOREM Types == Spec => []TypeOK
<1>1. DataOK => TypeOK
  <2>1. ASSUME DataOK, NEW k \in Tasks, task[k] # Idle
        PROVE  /\ task[k].c \in Clients /\ task[k].item \in {0} \cup Ids
               /\ \E n \in 1..4 : task[k].left = SubSeq(Handler(task[k].f), n, Len(Handler(task[k].f)))
    <3>1. Shape(task[k])
      BY <2>1 DEF DataOK, TasksOK
    <3>2. task[k].f \in AnyFrames /\ task[k].left \in CallsOf(task[k].f)
      BY <3>1, ShapeIsLive
    <3> QED
      BY <3>1, <3>2, CallsAreAnEnd DEF Shape
  <2> QED
    BY <2>1 DEF DataOK, StockOK, StoreOK, Stock, TypeOK
<1> QED
  BY <1>1, DataInit, DataStep, PTL DEF Spec

-----------------------------------------------------------------------------
(* What is acknowledged                                                     *)

\* Invocation q makes its next call.
Makes(q, step) ==
    \/ step = "put" /\ Put(q)
    \/ step = "remove" /\ Remove(q)
    \/ MidCall(q, step)

\* It goes on.
LEMMA MakesGoesOn ==
    ASSUME NEW k \in Tasks, NEW step, DataOK, Makes(k, step)
    PROVE  /\ Called(k, step) /\ Shape(task[k]) /\ Effect(task[k]) /\ Shape(task'[k])
           /\ task'[k].c = task[k].c /\ task'[k].f = task[k].f
           /\ task'[k].left = Tail(task[k].left) /\ task'[k].crossed = task[k].crossed
           /\ step # "put" => task'[k].item = task[k].item
           /\ Head(task'[k].left) \notin {"put", "remove", "join"}
<1>1. task[k] # Idle => Shape(task[k]) /\ task[k].shown \subseteq Ids /\ task[k].cut \subseteq Ids
                        /\ task[k].item \in {0} \cup Ids
  BY DEF DataOK, TasksOK, Shape
<1>2. CASE step = "put" /\ Put(k)
  <2>1. Called(k, "put") /\ Alone(k) /\ task'[k].item = made' /\ made' \in Ids
    BY <1>2, PutCalls, PutStocks
  <2>2. task[k] # Idle /\ Head(task[k].left) = "put"
    BY <2>1 DEF Called
  <2>3. task[k].f.op \notin Deletions
    BY <1>1, <2>2, ShapeIsLive, CallsBy DEF Makers, Deletions
  <2> QED
    BY <1>1, <1>2, <2>1, <2>2, <2>3, CallShapes DEF Alone
<1>3. CASE step = "remove" /\ Remove(k)
  <2>1. Called(k, "remove") /\ Alone(k) /\ task'[k].item = task[k].item
    BY <1>3, PlainCalls DEF Remove
  <2>2. task[k] # Idle
    BY <2>1 DEF Called
  <2> QED
    BY <1>1, <1>3, <2>1, <2>2, CallShapes DEF Alone
<1>4. CASE MidCall(k, step)
  <2>1. /\ Called(k, step) /\ step \notin {"put", "remove"} /\ task'[k].item = task[k].item
        /\ task'[k].shown \subseteq Ids /\ task'[k].cut \subseteq Ids
    BY <1>4, MidCallGoesOn
  <2>2. task[k] # Idle
    BY <2>1 DEF Called
  <2> QED
    BY <1>1, <2>1, <2>2, CallShapes
<1> QED
  BY <1>2, <1>3, <1>4 DEF Makes

\* What a step may do to one invocation.
LEMMA TaskMoves ==
    ASSUME DataOK, [Next]_vars, NEW q \in Tasks
    PROVE  \/ task'[q] = Idle
           \/ task[q] # Idle /\ task'[q] # Idle /\ Kept(task[q], task'[q])
           \/ \E c \in Clients, f \in Frames : Start(q, c, f)
           \/ \E step : Makes(q, step)
<1>1. CASE UNCHANGED task
  BY <1>1 DEF Kept
<1>2. ASSUME NEW k \in Tasks, NEW c \in Clients, NEW f \in Frames, Start(k, c, f), q # k
      PROVE  task'[q] = task[q]
  BY <1>2, StartIsSound
<1>3. ASSUME NEW k \in Tasks, NEW step, Makes(k, step), q # k
      PROVE  /\ task'[q] = Idle <=> task[q] = Idle
             /\ task[q] # Idle => Kept(task[q], task'[q])
  BY <1>3, MakesGoesOn DEF Called
<1>4. ASSUME NEW k \in Tasks, Answer(k) \/ Crash(k)
      PROVE  task'[q] = Idle \/ task'[q] = task[q]
  BY <1>4, EndsAreIdle
<1> QED
  BY <1>1, <1>2, <1>3, <1>4, TaskSteps DEF Kept, Makes

\* Some record says that item i is made, or that it is deleted.
Announced(i, b) == \E n \in DOMAIN outbox : outbox[n].item = i /\ outbox[n].made = b

\* What an invocation announces of its item.
Says(t) == t.f.op # "post.delete"

\* An invocation that has only its answer left recorded its broadcast.
RecordedOK == \A k \in Tasks :
    task[k].f.op \in Notifiers /\ task[k].left = <<"answer">> =>
        Announced(task[k].item, Says(task[k]))

\* A record stays.
LEMMA AnnouncedLasts ==
    ASSUME OutboxGrows, NEW i, NEW b, Announced(i, b)
    PROVE  Announced(i, b)'
  BY DEF Announced, OutboxGrows

\* A broadcast made is recorded.
LEMMA EmitAnnounces ==
    ASSUME NEW k \in Tasks, DataOK, Emit(k), NEW i, NEW b, i = task[k].item, b = Says(task[k])
    PROVE  Announced(i, b)'
<1>1. PICK r : r = Notice(task[k], RoomOf(task[k].f))
  OBVIOUS
<1>2. RecordOK(r) /\ outbox' = Append(outbox, r) /\ r.item = i /\ r.made = b
  BY <1>1, EmitIsSound DEF Notice, Says
<1>3. r \in [room : Rooms, item : Ids, made : BOOLEAN]
  BY <1>2 DEF RecordOK
<1>4. Len(outbox) + 1 \in DOMAIN outbox' /\ outbox'[Len(outbox) + 1] = r
  BY <1>2, <1>3, OneRecordMore
<1> QED
  BY <1>2, <1>4 DEF Announced

\* Nobody has only its answer left before its broadcast is recorded.
LEMMA RecordedStep ==
    ASSUME DataOK, RecordedOK, [Next]_vars
    PROVE  RecordedOK'
<1>1. SUFFICES ASSUME NEW q \in Tasks, task'[q].f.op \in Notifiers, task'[q].left = <<"answer">>
               PROVE  Announced(task[q].item, Says(task[q]))'
  BY DEF RecordedOK
<1>2. OutboxGrows
  BY OutboxStep
<1>3. PICK u : u = task'[q]
  OBVIOUS
<1>4. SUFFICES Announced(u.item, Says(u))'
  BY <1>3 DEF Says
<1>5. task'[q] # Idle
  BY <1>1 DEF Idle, Notifiers
<1>6. ASSUME task[q] # Idle, Kept(task[q], task'[q])
      PROVE  Announced(u.item, Says(u))'
  <2>1. PICK t : t = task[q]
    OBVIOUS
  <2>2. u.f = t.f /\ u.left = t.left /\ u.item = t.item
    BY <1>3, <1>6, <2>1 DEF Kept
  <2>3. Announced(t.item, Says(t))
    BY <1>1, <1>3, <2>1, <2>2 DEF RecordedOK
  <2>4. Says(u) = Says(t)
    BY <2>2 DEF Says
  <2> QED
    BY <1>2, <2>2, <2>3, <2>4, AnnouncedLasts
<1>7. ASSUME NEW c \in Clients, NEW f \in Frames, Start(q, c, f)
      PROVE  FALSE
  BY <1>1, <1>7, StartIsSound, FramesAreFrames, HandlerAsks
<1>8. ASSUME NEW step, Makes(q, step)
      PROVE  Announced(u.item, Says(u))'
  <2>1. PICK t : t = task[q]
    OBVIOUS
  <2>2. /\ Head(t.left) = step /\ Shape(t) /\ step # "answer"
        /\ u.f = t.f /\ u.left = Tail(t.left) /\ (step # "put" => u.item = t.item)
    BY <1>3, <1>8, <2>1, MakesGoesOn DEF Called
  <2>3. step = "emit"
    BY <1>1, <1>3, <2>2, ShapeIsLive, CallsAnnounce
  <2>4. Emit(q)
    BY <1>8, <2>3 DEF Makes, MidCall
  <2>5. Says(u) = Says(t)
    BY <2>2 DEF Says
  <2> QED
    BY <2>1, <2>2, <2>3, <2>4, <2>5, EmitAnnounces
<1> QED
  BY <1>5, <1>6, <1>7, <1>8, TaskMoves

\* Only an answer acknowledges.
LEMMA AckedSteps ==
    ASSUME [Next]_vars
    PROVE  UNCHANGED acked \/ \E k \in Tasks : Answer(k)
<1>1. CASE UNCHANGED vars
  BY <1>1 DEF vars, toldVars
<1>2. ASSUME NEW c \in Clients, \E how \in {"anonymous", "named", "graphql"} : Connect(c, how)
      PROVE  UNCHANGED acked
  BY <1>2 DEF Connect, toldVars
<1>3. ASSUME NEW c \in Clients, NEW k \in Tasks, NEW f \in Frames, Start(k, c, f)
      PROVE  UNCHANGED acked
  BY <1>3 DEF Start
<1>4. ASSUME NEW k \in Tasks, Put(k) \/ Remove(k) \/ Crash(k) \/ Emit(k) \/ Publish(k)
      PROVE  UNCHANGED acked
  BY <1>4 DEF Put, Remove, Crash, Emit, Publish, Record, toldVars
<1>5. ASSUME NEW k \in Tasks, JoinRoom(k) \/ LeaveRoom(k) \/ DriftingJoin(k) \/ Read(k)
      PROVE  UNCHANGED acked
  BY <1>5 DEF JoinRoom, LeaveRoom, DriftingJoin, Read, toldVars
<1>6. ASSUME NEW m \in adrift, JoinLands(m) \/ JoinFrozen(m)
      PROVE  UNCHANGED acked
  BY <1>6 DEF JoinLands, JoinFrozen, toldVars
<1>7. ASSUME NEW n \in DOMAIN outbox, Flush(n)
      PROVE  UNCHANGED acked
  BY <1>7 DEF Flush, toldVars
<1> QED
  BY <1>1, <1>2, <1>3, <1>4, <1>5, <1>6, <1>7 DEF Next

\* An invocation that answers has nothing else left.
LEMMA AnswersLast ==
    ASSUME NEW k \in Tasks, DataOK, Answer(k)
    PROVE  task[k] # Idle /\ Shape(task[k]) /\ task[k].left = <<"answer">>
<1>1. task[k] # Idle /\ Head(task[k].left) = "answer"
  BY DEF Answer, Now
<1>2. Shape(task[k])
  BY <1>1 DEF DataOK, TasksOK
<1> QED
  BY <1>1, <1>2, ShapeIsLive, CallsEnd

\* What every acknowledgement says is recorded.
AckedOK == \A a \in acked : Announced(a[1], a[2])

\* An acknowledged write is stored, an acknowledged deletion done, and the broadcast of
\* either recorded, whatever crashes next.
THEOREM AcksAreHonest == Spec => []AckedIsAnnounced
<1>1. Init => RecordedOK /\ AckedOK
  BY DEF Init, RecordedOK, AckedOK, Idle, Notifiers
<1>2. ASSUME DataOK, RecordedOK, AckedOK, [Next]_vars
      PROVE  AckedOK'
  <2>1. OutboxGrows
    BY <1>2, OutboxStep
  <2>2. ASSUME NEW i, NEW b, <<i, b>> \in acked
        PROVE  Announced(i, b)'
    <3>1. Announced(i, b)
      BY <2>2, <1>2 DEF AckedOK
    <3> QED
      BY <2>1, <3>1, AnnouncedLasts
  <2>3. ASSUME NEW k \in Tasks, Answer(k), NEW i, NEW b, <<i, b>> \in acked', <<i, b>> \notin acked
        PROVE  Announced(i, b)'
    <3>1. i = task[k].item /\ b = Says(task[k]) /\ task[k].f.op \in Notifiers
      BY <2>3 DEF Answer, Told, Notifiers, Says
    <3>2. task[k].left = <<"answer">>
      BY <1>2, <2>3, AnswersLast
    <3>3. Announced(i, b)
      BY <1>2, <3>1, <3>2 DEF RecordedOK
    <3> QED
      BY <2>1, <3>3, AnnouncedLasts
  <2>4. ASSUME NEW a \in acked'
        PROVE  Announced(a[1], a[2])'
    <3>1. PICK i, b : a = <<i, b>>
      BY <1>2, <2>4, RestStep DEF RestOK
    <3>2. Announced(i, b)'
      BY <1>2, <2>2, <2>3, <2>4, <3>1, AckedSteps
    <3> QED
      BY <3>1, <3>2
  <2> QED
    BY <2>4 DEF AckedOK
<1>3. ASSUME DataOK, AckedOK
      PROVE  AckedIsAnnounced
  <2>1. SUFFICES ASSUME NEW a \in acked
                 PROVE  /\ \E n \in DOMAIN outbox : outbox[n].item = a[1] /\ outbox[n].made = a[2]
                        /\ IF a[2] THEN \E m \in Stock : m.id = a[1]
                           ELSE \A m \in table : m.id # a[1]
    BY DEF AckedIsAnnounced, Stock
  <2>2. PICK n \in DOMAIN outbox : outbox[n].item = a[1] /\ outbox[n].made = a[2]
    BY <1>3, <2>1 DEF AckedOK, Announced
  <2>3. PICK m \in Stock : m.id = a[1] /\ (outbox[n].made \/ m \in retracted)
    BY <1>3, <2>2 DEF DataOK, OutboxOK, RecordOK
  <2>4. m \in retracted => \A i \in table : i.id # a[1]
    BY <1>3, <2>3 DEF DataOK, StockOK, Stock
  <2> QED
    BY <2>2, <2>3, <2>4
<1>4. DataOK /\ RecordedOK /\ AckedOK /\ [Next]_vars => (DataOK /\ RecordedOK /\ AckedOK)'
  BY <1>2, DataStep, RecordedStep
<1> QED
  BY <1>1, <1>3, <1>4, DataInit, PTL DEF Spec

-----------------------------------------------------------------------------
(* Who hears of a conversation                                              *)

\* Whoever is apart from a conversation is not in its room, and joining it with nothing.
Apart(c, id) == <<c, Conv(id)>> \notin members /\ Joining(c, id) = {}

ApartOK == \A a \in apart : a \in Clients \X Ids \X Nat /\ Apart(a[1], a[2])

\* Nothing recorded of a conversation since a client is apart from it was sent to it.
UnheardOK == \A h \in heard, a \in apart, m \in Stock :
    h[1] = a[1] /\ m.kind = "message" /\ m.of = a[2] /\ outbox[h[2]].item = m.id => h[2] <= a[3]

\* A frame of that kind is that frame.
LEMMA JoinFramesAreJoins ==
    ASSUME NEW f \in AnyFrames, f.op = "chat.join"
    PROVE  f = JoinFrame(f.arg) /\ f.arg \in Ids
<1>1. f \in [op : {"chat.join", "chat.leave", "chat.send"} \cup Deletions, arg : Ids]
  BY DEF AnyFrames
<1> QED
  BY <1>1 DEF JoinFrame

\* What only an answer, or the start of a join, changes.
LEMMA ApartSteps ==
    ASSUME [Next]_vars
    PROVE  \/ UNCHANGED apart
           \/ \E k \in Tasks, c \in Clients, f \in Frames : Start(k, c, f)
           \/ \E k \in Tasks : Answer(k)
<1>1. CASE UNCHANGED vars
  BY <1>1 DEF vars, toldVars
<1>2. ASSUME NEW c \in Clients, \E how \in {"anonymous", "named", "graphql"} : Connect(c, how)
      PROVE  UNCHANGED apart
  BY <1>2 DEF Connect, toldVars
<1>4. ASSUME NEW k \in Tasks, Put(k) \/ Remove(k) \/ Crash(k) \/ Emit(k) \/ Publish(k)
      PROVE  UNCHANGED apart
  BY <1>4 DEF Put, Remove, Crash, Emit, Publish, Record, toldVars
<1>5. ASSUME NEW k \in Tasks, JoinRoom(k) \/ LeaveRoom(k) \/ DriftingJoin(k) \/ Read(k)
      PROVE  UNCHANGED apart
  BY <1>5 DEF JoinRoom, LeaveRoom, DriftingJoin, Read, toldVars
<1>6. ASSUME NEW m \in adrift, JoinLands(m) \/ JoinFrozen(m)
      PROVE  UNCHANGED apart
  BY <1>6 DEF JoinLands, JoinFrozen, toldVars
<1>7. ASSUME NEW n \in DOMAIN outbox, Flush(n)
      PROVE  UNCHANGED apart
  BY <1>7 DEF Flush, toldVars
<1> QED
  BY <1>1, <1>2, <1>4, <1>5, <1>6, <1>7 DEF Next

\* Nobody starts to join but with a frame that says so.
LEMMA JoiningStarts ==
    ASSUME DataOK, [Next]_vars, NEW c, NEW id, Joining(c, id) = {},
           ~ \E k \in Tasks, f \in Frames : Start(k, c, f) /\ f = JoinFrame(id)
    PROVE  Joining(c, id)' = {}
<1>1. SUFFICES ASSUME NEW q \in Tasks, task'[q].c = c, task'[q].f = JoinFrame(id)
               PROVE  FALSE
  BY DEF Joining, JoinFrame
<1>2. task[q].c # c \/ task[q].f # JoinFrame(id)
  BY DEF Joining
<1>3. task'[q] # Idle
  BY <1>1 DEF Idle, JoinFrame
<1>4. ASSUME task[q] # Idle, Kept(task[q], task'[q])
      PROVE  FALSE
  <2>1. PICK t, u : t = task[q] /\ u = task'[q]
    OBVIOUS
  <2>2. u.f = t.f /\ u.c = t.c
    BY <1>4, <2>1 DEF Kept
  <2> QED
    BY <1>1, <1>2, <2>1, <2>2
<1>5. ASSUME NEW b \in Clients, NEW f \in Frames, Start(q, b, f)
      PROVE  FALSE
  <2>1. task'[q].c = b /\ task'[q].f = f
    BY <1>5, StartIsSound
  <2> QED
    BY <1>1, <1>5, <2>1
<1>6. ASSUME NEW step, Makes(q, step)
      PROVE  FALSE
  BY <1>1, <1>2, <1>6, MakesGoesOn
<1> QED
  BY <1>3, <1>4, <1>5, <1>6, TaskMoves

\* The rooms a step may put somebody in.
LEMMA MemberSteps ==
    ASSUME DataOK, [Next]_vars, NEW c, NEW room, <<c, room>> \in members', <<c, room>> \notin members
    PROVE  \/ room \in {Global, Feed, <<"user", c>>}
           \/ \E k \in Tasks : /\ task[k].c = c /\ task[k].f = JoinFrame(task[k].f.arg)
                               /\ room = Conv(task[k].f.arg)
<1>1. CASE UNCHANGED members
  BY <1>1
<1>2. ASSUME NEW b \in Clients, NEW how \in {"anonymous", "named", "graphql"}, Connect(b, how)
      PROVE  room \in {Global, Feed, <<"user", c>>}
  BY <1>2 DEF Connect
<1>3. ASSUME NEW k \in Tasks, NEW b \in Clients, NEW f \in Frames, Start(k, b, f)
      PROVE  UNCHANGED members
  BY <1>3 DEF Start, roomVars
<1>4. ASSUME NEW k \in Tasks, \/ Put(k) \/ Remove(k) \/ Crash(k) \/ Emit(k) \/ Publish(k)
                              \/ DriftingJoin(k) \/ Read(k) \/ Answer(k)
      PROVE  UNCHANGED members
  BY <1>4 DEF Put, Remove, Crash, Emit, Publish, Record, DriftingJoin, Read, Answer, Told, roomVars
<1>5. ASSUME NEW k \in Tasks, LeaveRoom(k)
      PROVE  members' \subseteq members
  BY <1>5 DEF LeaveRoom
<1>6. ASSUME NEW k \in Tasks, JoinRoom(k)
      PROVE  /\ task[k].c = c /\ task[k].f = JoinFrame(task[k].f.arg)
             /\ room = Conv(task[k].f.arg)
  <2>1. Shape(task[k]) /\ Head(task[k].left) = "join"
    BY <1>6 DEF JoinRoom, Now, DataOK, TasksOK
  <2>2. task[k].f \in AnyFrames /\ task[k].f.op = "chat.join"
    BY <2>1, ShapeIsLive, CallsBy
  <2>3. <<c, room>> = <<task[k].c, Conv(task[k].f.arg)>>
    BY <1>6 DEF JoinRoom
  <2> QED
    BY <2>2, <2>3, JoinFramesAreJoins
<1>7. ASSUME NEW m \in adrift, JoinLands(m) \/ JoinFrozen(m)
      PROVE  room = Feed
  BY <1>7 DEF JoinLands, JoinFrozen, DataOK, StoreOK
<1>8. ASSUME NEW n \in DOMAIN outbox, Flush(n)
      PROVE  UNCHANGED members
  BY <1>8 DEF Flush, roomVars
<1>9. CASE UNCHANGED vars
  BY <1>1, <1>9 DEF vars, roomVars
<1> QED
  BY <1>1, <1>2, <1>3, <1>4, <1>5, <1>6, <1>7, <1>8, <1>9 DEF Next

\* Whoever is apart stays so until a frame of its own joins.
LEMMA ApartLasts ==
    ASSUME DataOK, [Next]_vars, NEW c, NEW id, Apart(c, id),
           ~ \E k \in Tasks, f \in Frames : Start(k, c, f) /\ f = JoinFrame(id)
    PROVE  Apart(c, id)'
<1>1. Joining(c, id)' = {}
  BY JoiningStarts DEF Apart
<1>2. ASSUME <<c, Conv(id)>> \in members'
      PROVE  FALSE
  <2>1. Conv(id) \notin {Global, Feed, <<"user", c>>}
    BY DEF Conv, Global, Feed
  <2>2. PICK k \in Tasks : /\ task[k].c = c /\ task[k].f = JoinFrame(task[k].f.arg)
                           /\ Conv(id) = Conv(task[k].f.arg)
    BY <1>2, <2>1, MemberSteps DEF Apart
  <2>3. id = task[k].f.arg
    BY <2>2 DEF Conv
  <2> QED
    BY <2>2, <2>3 DEF Apart, Joining
<1> QED
  BY <1>1, <1>2 DEF Apart

\* An answer to a leave sets its client apart from now on.
LEMMA AnswerSetsApart ==
    ASSUME NEW k \in Tasks, DataOK, Answer(k), NEW a \in apart', a \notin apart
    PROVE  a \in Clients \X Ids \X Nat /\ Apart(a[1], a[2]) /\ a[3] = Len(outbox)
<1>1. PICK t : t = task[k]
  OBVIOUS
<1>2. /\ a = <<t.c, t.f.arg, Len(outbox)>> /\ t.f.op = "chat.leave"
      /\ Joining(t.c, t.f.arg) = {} /\ <<t.c, Conv(t.f.arg)>> \notin members
  BY <1>1 DEF Answer, Told
<1>3. t.c \in Clients /\ t.f \in AnyFrames
  BY <1>1, AnswersLast DEF Shape
<1>4. t.f.arg \in Ids
  BY <1>2, <1>3 DEF AnyFrames, Deletions
<1>5. Len(outbox) \in Nat
  BY DEF DataOK, StoreOK
<1> QED
  BY <1>2, <1>3, <1>4, <1>5 DEF Apart

\* A join's start is the end of being apart.
LEMMA StartEndsApart ==
    ASSUME NEW k \in Tasks, NEW c \in Clients, NEW f \in Frames, DataOK, Start(k, c, f)
    PROVE  /\ apart' \subseteq apart
           /\ \A a \in apart' : \A id : a[1] = c /\ f = JoinFrame(id) => a[2] # id
<1>1. apart' = IF f.op = "chat.join" THEN {a \in apart : <<a[1], a[2]>> # <<c, f.arg>>} ELSE apart
  BY DEF Start
<1>2. \A id : f = JoinFrame(id) => f.op = "chat.join" /\ f.arg = id
  BY DEF JoinFrame
<1> QED
  BY <1>1, <1>2

\* Whoever is counted apart from a conversation is.
LEMMA ApartStep ==
    ASSUME DataOK, ApartOK, [Next]_vars
    PROVE  ApartOK'
<1>1. ASSUME NEW a \in apart, ~ \E k \in Tasks, f \in Frames : Start(k, a[1], f) /\ f = JoinFrame(a[2])
      PROVE  a \in Clients \X Ids \X Nat /\ Apart(a[1], a[2])'
  BY <1>1, ApartLasts DEF ApartOK
<1>2. ASSUME NEW a \in apart', a \in apart
      PROVE  ~ \E k \in Tasks, f \in Frames : Start(k, a[1], f) /\ f = JoinFrame(a[2])
  <2>1. a[1] \in Clients
    BY <1>2 DEF ApartOK
  <2> QED
    BY <1>2, <2>1, StartEndsApart
<1>3. ASSUME NEW k \in Tasks, Answer(k), NEW a \in apart', a \notin apart
      PROVE  a \in Clients \X Ids \X Nat /\ Apart(a[1], a[2])'
  <2>1. a \in Clients \X Ids \X Nat /\ Apart(a[1], a[2])
    BY <1>3, AnswerSetsApart
  <2>2. PICK c, id : c = a[1] /\ id = a[2]
    OBVIOUS
  <2>3. ~ \E q \in Tasks, f \in Frames : Start(q, c, f) /\ f = JoinFrame(id)
    BY <1>3 DEF Answer, Told, Start, bounds, ghostVars
  <2>4. Apart(c, id)'
    BY <2>1, <2>2, <2>3, ApartLasts
  <2> QED
    BY <2>1, <2>2, <2>4
<1>4. ASSUME NEW a \in apart'
      PROVE  a \in Clients \X Ids \X Nat /\ Apart(a[1], a[2])'
  <2>1. CASE a \in apart
    BY <1>1, <1>2, <2>1
  <2>2. CASE a \notin apart
    <3>1. ASSUME NEW k \in Tasks, NEW c \in Clients, NEW f \in Frames, Start(k, c, f)
          PROVE  FALSE
      BY <2>2, <3>1, StartEndsApart
    <3> QED
      BY <1>3, <2>2, <3>1, ApartSteps
  <2> QED
    BY <2>1, <2>2
<1>5. \A a \in apart' : (a \in Clients \X Ids \X Nat /\ Apart(a[1], a[2]))'
  <2>1. TAKE a \in apart'
  <2>2. a \in Clients \X Ids \X Nat /\ Apart(a[1], a[2])'
    BY <1>4
  <2> QED
    BY <2>2
<1> QED
  BY <1>5 DEF ApartOK

\* Only a record that is delivered is heard of, or missed.
LEMMA HeardSteps ==
    ASSUME [Next]_vars
    PROVE  \/ UNCHANGED <<heard, missed, flushed>>
           \/ \E n \in DOMAIN outbox : Flush(n)
<1>1. CASE UNCHANGED vars
  BY <1>1 DEF vars, ghostVars, outVars
<1>2. ASSUME NEW c \in Clients, \E how \in {"anonymous", "named", "graphql"} : Connect(c, how)
      PROVE  UNCHANGED <<heard, missed, flushed>>
  BY <1>2 DEF Connect, ghostVars, outVars
<1>3. ASSUME NEW c \in Clients, NEW k \in Tasks, NEW f \in Frames, Start(k, c, f)
      PROVE  UNCHANGED <<heard, missed, flushed>>
  BY <1>3 DEF Start, ghostVars, outVars
<1>4. ASSUME NEW k \in Tasks, Put(k) \/ Remove(k) \/ Crash(k) \/ Emit(k) \/ Publish(k) \/ Answer(k)
      PROVE  UNCHANGED <<heard, missed, flushed>>
  BY <1>4 DEF Put, Remove, Crash, Emit, Publish, Record, Answer, Told, ghostVars, outVars
<1>5. ASSUME NEW k \in Tasks, JoinRoom(k) \/ LeaveRoom(k) \/ DriftingJoin(k) \/ Read(k)
      PROVE  UNCHANGED <<heard, missed, flushed>>
  BY <1>5 DEF JoinRoom, LeaveRoom, DriftingJoin, Read, ghostVars, outVars
<1>6. ASSUME NEW m \in adrift, JoinLands(m) \/ JoinFrozen(m)
      PROVE  UNCHANGED <<heard, missed, flushed>>
  BY <1>6 DEF JoinLands, JoinFrozen, outVars
<1> QED
  BY <1>1, <1>2, <1>3, <1>4, <1>5, <1>6 DEF Next

\* A record goes to the members of its room.
LEMMA FlushReaches ==
    ASSUME NEW n \in DOMAIN outbox, Flush(n)
    PROVE  /\ flushed' = flushed \cup {n} /\ outbox' = outbox /\ apart' = apart
           /\ subscribed' = subscribed /\ answers' = answers
           /\ heard \subseteq heard' /\ missed \subseteq missed'
           /\ \A h \in heard' \ heard : h[2] = n /\ <<h[1], outbox[n].room>> \in members
           /\ \A c \in Clients : <<c, outbox[n].room>> \in members => <<c, n>> \in heard'
           /\ \A c \in Clients : <<c, outbox[n].room>> \in members \cup adrift \cup lost =>
                                   <<c, n>> \in heard' \cup missed'
<1>1. PICK room : room = outbox[n].room
  OBVIOUS
<1>2. PICK out : out = {c \in Clients : <<c, room>> \notin members}
  OBVIOUS
<1>3. /\ heard' = heard \cup ((Clients \ out) \X {n})
      /\ missed' = missed \cup {<<c, n>> : c \in {b \in out : <<b, room>> \in adrift \cup lost}}
  BY <1>1, <1>2 DEF Flush
<1>4. /\ flushed' = flushed \cup {n} /\ outbox' = outbox /\ apart' = apart
      /\ subscribed' = subscribed /\ answers' = answers
  BY DEF Flush, toldVars
<1>5. \A h \in heard' \ heard : h[2] = n /\ <<h[1], room>> \in members
  BY <1>2, <1>3
<1>6. \A c \in Clients : <<c, room>> \in members => <<c, n>> \in heard'
  BY <1>2, <1>3
<1>7. \A c \in Clients : <<c, room>> \in members \cup adrift \cup lost => <<c, n>> \in heard' \cup missed'
  BY <1>2, <1>3
<1> QED
  BY <1>1, <1>3, <1>4, <1>5, <1>6, <1>7

\* A record's item has one, and the same, item of its id, whatever is stored next.
LEMMA RecordsItem ==
    ASSUME DataOK, [Next]_vars, NEW n \in DOMAIN outbox, NEW m \in Stock', outbox[n].item = m.id
    PROVE  m \in Stock /\ (m.kind = "message" => outbox[n].room = Home(m))
<1>1. PICK i \in Stock : i.id = outbox[n].item /\ (i.kind = "message" => outbox[n].room = Home(i))
  BY DEF DataOK, OutboxOK, RecordOK
<1>2. i \in Stock'
  BY StockStep DEF StockGrows
<1>3. i = m
  <2>1. \A m1, m2 \in Stock' : m1.id = m2.id => m1 = m2
    BY StockStep DEF StockOK
  <2> QED
    BY <1>1, <1>2, <2>1
<1> QED
  BY <1>1, <1>3

\* A message is sent to nobody who is apart from its conversation.
LEMMA UnheardStep ==
    ASSUME DataOK, ApartOK, UnheardOK, [Next]_vars
    PROVE  UnheardOK'
<1>1. SUFFICES ASSUME NEW h \in heard', NEW a \in apart', NEW m \in Stock',
                      h[1] = a[1], m.kind = "message", m.of = a[2], outbox'[h[2]].item = m.id
               PROVE  h[2] <= a[3]
  BY DEF UnheardOK
<1>2. OutboxGrows
  BY OutboxStep
<1>3. h \in heard => h[2] \in DOMAIN outbox
  BY DEF DataOK, StoreOK
<1>4. h[2] \in DOMAIN outbox
  BY <1>3, HeardSteps, FlushReaches
<1>5. outbox[h[2]].item = m.id
  BY <1>1, <1>2, <1>4 DEF OutboxGrows
<1>6. m \in Stock /\ outbox[h[2]].room = Home(m)
  BY <1>1, <1>4, <1>5, RecordsItem
<1>7. CASE a \in apart
  <2>1. CASE h \in heard
    BY <1>1, <1>5, <1>6, <1>7, <2>1 DEF UnheardOK
  <2>2. CASE h \notin heard
    <3>1. <<h[1], outbox[h[2]].room>> \in members
      BY <2>2, HeardSteps, FlushReaches
    <3>2. <<a[1], Conv(a[2])>> \in members
      BY <1>1, <1>6, <3>1 DEF Home
    <3> QED
      BY <1>7, <3>2 DEF ApartOK, Apart
  <2> QED
    BY <2>1, <2>2
<1>8. CASE a \notin apart
  <2>1. ASSUME NEW k \in Tasks, NEW c \in Clients, NEW f \in Frames, Start(k, c, f)
        PROVE  FALSE
    BY <1>8, <2>1, StartEndsApart
  <2>2. ASSUME NEW k \in Tasks, Answer(k)
        PROVE  h[2] <= a[3]
    <3>1. a[3] = Len(outbox)
      BY <1>8, <2>2, AnswerSetsApart
    <3>2. DOMAIN outbox = 1..Len(outbox)
      BY DEF DataOK, StoreOK
    <3> QED
      BY <1>4, <3>1, <3>2
  <2> QED
    BY <1>8, <2>1, <2>2, ApartSteps
<1> QED
  BY <1>7, <1>8

\* A message reaches nobody who never asked for its conversation, and after chat.left
\* nothing recorded later does, unless it was joined again.
THEOREM ConversationsAreKept == Spec => []OnlyTheConversation
<1>1. Init => ApartOK /\ UnheardOK
  <2>1. SUFFICES ASSUME Init PROVE ApartOK /\ UnheardOK
    OBVIOUS
  <2>2. heard = {} /\ members = {} /\ apart = Clients \X Ids \X {0}
    BY <2>1 DEF Init
  <2>3. \A c, id : Joining(c, id) = {}
    BY <2>1 DEF Init, Joining, JoinFrame, Idle
  <2> QED
    BY <2>2, <2>3 DEF ApartOK, Apart, UnheardOK
<1>2. DataOK /\ ApartOK /\ UnheardOK /\ [Next]_vars => (DataOK /\ ApartOK /\ UnheardOK)'
  BY DataStep, ApartStep, UnheardStep
<1>3. UnheardOK => OnlyTheConversation
  BY DEF UnheardOK, OnlyTheConversation, Stock
<1> QED
  BY <1>1, <1>2, <1>3, DataInit, PTL DEF Spec

-----------------------------------------------------------------------------
(* Who hears of the deletions                                               *)

\* The client is in the feed, or a join of its own is on its way or was lost.
FeedOwed(c) == <<c, Feed>> \in members \cup adrift \cup lost

SubscribersOK ==
    /\ \A s \in subscribed : s \in Clients \X Nat /\ FeedOwed(s[1])
    /\ \A k \in Tasks : task[k].f.op = "post.subscribe" /\ task[k].left = <<"answer">> =>
         FeedOwed(task[k].c)

\* A join nobody awaits is in the store, on its way there, or lost.
LEMMA FeedOwedLasts ==
    ASSUME [Next]_vars, NEW c, FeedOwed(c)
    PROVE  FeedOwed(c)'
<1>0. <<c, Feed>> \in members \cup adrift \cup lost
  BY DEF FeedOwed
<1>1. CASE UNCHANGED vars
  BY <1>0, <1>1 DEF vars, roomVars, ghostVars, FeedOwed
<1>2. ASSUME NEW b \in Clients, NEW how \in {"anonymous", "named", "graphql"}, Connect(b, how)
      PROVE  FeedOwed(c)'
  BY <1>0, <1>2 DEF Connect, ghostVars, FeedOwed
<1>3. ASSUME NEW b \in Clients, NEW k \in Tasks, NEW f \in Frames, Start(k, b, f)
      PROVE  FeedOwed(c)'
  BY <1>0, <1>3 DEF Start, roomVars, ghostVars, FeedOwed
<1>4. ASSUME NEW k \in Tasks, \/ Put(k) \/ Remove(k) \/ Crash(k) \/ Emit(k) \/ Publish(k)
                              \/ Read(k) \/ Answer(k)
      PROVE  FeedOwed(c)'
  BY <1>0, <1>4 DEF Put, Remove, Crash, Emit, Publish, Record, Read, Answer, Told, roomVars, ghostVars, FeedOwed
<1>5. ASSUME NEW k \in Tasks, LeaveRoom(k)
      PROVE  FeedOwed(c)'
  <2>1. members' = members \ {<<task[k].c, Conv(task[k].f.arg)>>} /\ adrift' = adrift /\ lost' = lost
    BY <1>5 DEF LeaveRoom, ghostVars
  <2>2. <<c, Feed>> # <<task[k].c, Conv(task[k].f.arg)>>
    BY DEF Feed, Conv
  <2> QED
    BY <1>0, <2>1, <2>2 DEF FeedOwed
<1>6. ASSUME NEW k \in Tasks, JoinRoom(k) \/ DriftingJoin(k)
      PROVE  FeedOwed(c)'
  BY <1>0, <1>6 DEF JoinRoom, DriftingJoin, ghostVars, FeedOwed
<1>7. ASSUME NEW m \in adrift, JoinLands(m) \/ JoinFrozen(m)
      PROVE  FeedOwed(c)'
  BY <1>0, <1>7 DEF JoinLands, JoinFrozen, FeedOwed
<1>8. ASSUME NEW n \in DOMAIN outbox, Flush(n)
      PROVE  FeedOwed(c)'
  BY <1>0, <1>8 DEF Flush, roomVars, FeedOwed
<1> QED
  BY <1>1, <1>2, <1>3, <1>4, <1>5, <1>6, <1>7, <1>8 DEF Next

\* Only an answer subscribes.
LEMMA SubscribedSteps ==
    ASSUME [Next]_vars
    PROVE  UNCHANGED subscribed \/ \E k \in Tasks : Answer(k)
<1>1. CASE UNCHANGED vars
  BY <1>1 DEF vars, toldVars
<1>2. ASSUME NEW c \in Clients, \E how \in {"anonymous", "named", "graphql"} : Connect(c, how)
      PROVE  UNCHANGED subscribed
  BY <1>2 DEF Connect, toldVars
<1>3. ASSUME NEW c \in Clients, NEW k \in Tasks, NEW f \in Frames, Start(k, c, f)
      PROVE  UNCHANGED subscribed
  BY <1>3 DEF Start
<1>4. ASSUME NEW k \in Tasks, Put(k) \/ Remove(k) \/ Crash(k) \/ Emit(k) \/ Publish(k)
      PROVE  UNCHANGED subscribed
  BY <1>4 DEF Put, Remove, Crash, Emit, Publish, Record, toldVars
<1>5. ASSUME NEW k \in Tasks, JoinRoom(k) \/ LeaveRoom(k) \/ DriftingJoin(k) \/ Read(k)
      PROVE  UNCHANGED subscribed
  BY <1>5 DEF JoinRoom, LeaveRoom, DriftingJoin, Read, toldVars
<1>6. ASSUME NEW m \in adrift, JoinLands(m) \/ JoinFrozen(m)
      PROVE  UNCHANGED subscribed
  BY <1>6 DEF JoinLands, JoinFrozen, toldVars
<1>7. ASSUME NEW n \in DOMAIN outbox, Flush(n)
      PROVE  UNCHANGED subscribed
  BY <1>7 DEF Flush, toldVars
<1> QED
  BY <1>1, <1>2, <1>3, <1>4, <1>5, <1>6, <1>7 DEF Next

\* An answer to post.subscribe subscribes to what is recorded from now on.
LEMMA AnswerSubscribes ==
    ASSUME NEW k \in Tasks, DataOK, SubscribersOK, Answer(k), NEW s \in subscribed', s \notin subscribed
    PROVE  s \in Clients \X Nat /\ FeedOwed(s[1]) /\ s[2] = Len(outbox)
<1>1. s = <<task[k].c, Len(outbox)>> /\ task[k].f.op = "post.subscribe"
  BY DEF Answer, Told
<1>2. task[k].c \in Clients /\ task[k].left = <<"answer">>
  BY AnswersLast DEF Shape
<1>3. Len(outbox) \in Nat
  BY DEF DataOK, StoreOK
<1> QED
  BY <1>1, <1>2, <1>3 DEF SubscribersOK

\* Whoever is subscribed, or about to be told so, has a join of its own.
LEMMA SubscribersStep ==
    ASSUME DataOK, SubscribersOK, [Next]_vars
    PROVE  SubscribersOK'
<1>1. ASSUME NEW s \in subscribed'
      PROVE  s \in Clients \X Nat /\ FeedOwed(s[1])'
  <2>1. s \in Clients \X Nat /\ FeedOwed(s[1])
    BY <1>1, SubscribedSteps, AnswerSubscribes DEF SubscribersOK
  <2>2. PICK c : c = s[1]
    OBVIOUS
  <2>3. FeedOwed(c)'
    BY <2>1, <2>2, FeedOwedLasts
  <2> QED
    BY <2>1, <2>2, <2>3
<1>2. ASSUME NEW q \in Tasks, task'[q].f.op = "post.subscribe", task'[q].left = <<"answer">>
      PROVE  FeedOwed(task[q].c)'
  <2>1. PICK u : u = task'[q]
    OBVIOUS
  <2>2. PICK t : t = task[q]
    OBVIOUS
  <2>3. u # Idle
    BY <1>2, <2>1 DEF Idle
  <2>4. SUFFICES FeedOwed(u.c)'
    BY <2>1
  <2>5. ASSUME t # Idle, Kept(t, u)
        PROVE  FeedOwed(u.c)'
    <3>1. u.f = t.f /\ u.left = t.left /\ u.c = t.c
      BY <2>5 DEF Kept
    <3>2. FeedOwed(t.c)
      BY <1>2, <2>1, <2>2, <3>1 DEF SubscribersOK
    <3> QED
      BY <3>1, <3>2, FeedOwedLasts
  <2>6. ASSUME NEW c \in Clients, NEW f \in Frames, Start(q, c, f)
        PROVE  FALSE
    BY <1>2, <2>6, StartIsSound, FramesAreFrames, HandlerAsks
  <2>7. ASSUME NEW step, Makes(q, step)
        PROVE  FeedOwed(u.c)'
    <3>1. Head(t.left) = step /\ Shape(t) /\ step # "answer" /\ u.f = t.f /\ u.c = t.c
      BY <2>1, <2>2, <2>7, MakesGoesOn DEF Called
    <3>2. step = "drift"
      BY <1>2, <2>1, <3>1, ShapeIsLive, CallsList
    <3>3. DriftingJoin(q)
      BY <2>7, <3>2 DEF Makes, MidCall
    <3> QED
      BY <2>2, <3>1, <3>3 DEF DriftingJoin, FeedOwed
  <2> QED
    BY <2>1, <2>2, <2>3, <2>5, <2>6, <2>7, TaskMoves
<1> QED
  BY <1>1, <1>2 DEF SubscribersOK

\* Whoever was answered post.subscribed hears of every deletion recorded from then on,
\* unless the join nobody awaits had not reached the store when it was sent.
THEOREM SubscribersHear == Spec => []SubscribedHears
<1>1. Init => SubscribersOK /\ SubscribedHears
  BY DEF Init, SubscribersOK, SubscribedHears, Idle
<1>2. ASSUME DataOK, SubscribersOK, SubscribedHears, [Next]_vars
      PROVE  SubscribedHears'
  <2>1. SUFFICES ASSUME NEW s \in subscribed', NEW n \in flushed',
                        outbox'[n].room = Feed, n > s[2]
                 PROVE  <<s[1], n>> \in heard' \cup missed'
    BY DEF SubscribedHears
  <2>2. OutboxGrows
    BY <1>2, OutboxStep
  <2>3. n \in DOMAIN outbox
    BY <1>2, HeardSteps, FlushReaches DEF DataOK, StoreOK
  <2>4. outbox[n].room = Feed
    BY <2>1, <2>2, <2>3 DEF OutboxGrows
  <2>5. heard \subseteq heard' /\ missed \subseteq missed'
    BY <1>2, HeardSteps, FlushReaches
  <2>6. CASE s \in subscribed /\ n \in flushed
    BY <1>2, <2>1, <2>4, <2>5, <2>6 DEF SubscribedHears
  <2>7. CASE s \in subscribed /\ n \notin flushed
    <3>1. s[1] \in Clients /\ FeedOwed(s[1])
      BY <1>2, <2>7 DEF SubscribersOK
    <3>2. Flush(n)
      BY <1>2, <2>7, HeardSteps, FlushReaches
    <3> QED
      BY <2>3, <2>4, <3>1, <3>2, FlushReaches DEF FeedOwed
  <2>8. CASE s \notin subscribed
    <3>1. s[2] = Len(outbox)
      BY <1>2, <2>8, SubscribedSteps, AnswerSubscribes
    <3>2. DOMAIN outbox = 1..Len(outbox) /\ Len(outbox) \in Nat
      BY <1>2 DEF DataOK, StoreOK
    <3> QED
      BY <2>1, <2>3, <3>1, <3>2
  <2> QED
    BY <2>6, <2>7, <2>8
<1>3. DataOK /\ SubscribersOK /\ SubscribedHears /\ [Next]_vars => (DataOK /\ SubscribersOK /\ SubscribedHears)'
  BY <1>2, DataStep, SubscribersStep
<1> QED
  BY <1>1, <1>3, DataInit, PTL DEF Spec

-----------------------------------------------------------------------------
(* What a listing and the frames after it tell                              *)

\* The room the items of a listing are announced to.
HomeOf(f) == IF f.op = "chat.join" THEN Conv(f.arg) ELSE Global

\* Item m was listed, or need not be announced, or will be, or was announced to client
\* c, or will reach it.
Knows(c, seen, m) ==
    \/ m.id \in seen \cup silenced \/ ~m.public
    \/ \E k \in Tasks : Announcing(k, m)
    \/ \E n \in DOMAIN outbox : Announces(n, m) /\ (n \in flushed => <<c, n>> \in heard)

Satisfied(c, f, seen) ==
    <<c, HomeOf(f)>> \in members /\ \A m \in Listed(f) : Knows(c, seen, m)

TaskCaught(t) ==
    /\ t.f.op \notin Mutations => <<t.c, Global>> \in members
    /\ t.f.op = "chat.join" /\ ~t.crossed /\ Head(t.left) # "join" =>
         <<t.c, Conv(t.f.arg)>> \in members
    /\ t.f.op \in Listings /\ ~t.crossed /\ t.left = <<"answer">> =>
         Satisfied(t.c, t.f, t.shown \cup t.cut)

CaughtOK ==
    /\ \A c \in Clients : who[c] \in {"named", "anonymous"} => <<c, Global>> \in members
    /\ \A a \in answers : /\ a.c \in Clients /\ a.f \in AnyFrames /\ a.f.op \in Listings
                          /\ Satisfied(a.c, a.f, a.shown \cup a.cut)
    /\ \A k \in Tasks : task[k] # Idle => TaskCaught(task[k])

\* An invocation is over because it answered, or because its container died.
LEMMA EndsAreEnds ==
    ASSUME DataOK, [Next]_vars, NEW q \in Tasks, task[q] # Idle, task'[q] = Idle
    PROVE  Answer(q) \/ Crash(q)
<1>1. CASE UNCHANGED task
  BY <1>1
<1>2. ASSUME NEW k \in Tasks, NEW c \in Clients, NEW f \in Frames, Start(k, c, f)
      PROVE  FALSE
  <2>1. CASE k = q
    BY <1>2, <2>1, StartIsSound
  <2>2. CASE k # q
    BY <1>2, <2>2, StartIsSound
  <2> QED
    BY <2>1, <2>2
<1>3. ASSUME NEW k \in Tasks, NEW step, Makes(k, step)
      PROVE  FALSE
  <2>1. CASE k = q
    BY <1>3, <2>1, MakesGoesOn, ShapeIsLive
  <2>2. CASE k # q
    BY <1>3, <2>2, MakesGoesOn DEF Called
  <2> QED
    BY <2>1, <2>2
<1>4. ASSUME NEW k \in Tasks, Answer(k) \/ Crash(k), k # q
      PROVE  FALSE
  BY <1>4, EndsAreIdle
<1> QED
  BY <1>1, <1>2, <1>3, <1>4, TaskSteps DEF Makes

\* Only a death silences, and a deletion by GraphQL.
LEMMA SilencedGrows ==
    ASSUME [Next]_vars
    PROVE  silenced \subseteq silenced'
<1>1. CASE UNCHANGED vars
  BY <1>1 DEF vars, ghostVars
<1>2. ASSUME NEW c \in Clients, \E how \in {"anonymous", "named", "graphql"} : Connect(c, how)
      PROVE  UNCHANGED silenced
  BY <1>2 DEF Connect, ghostVars
<1>3. ASSUME NEW c \in Clients, NEW k \in Tasks, NEW f \in Frames, Start(k, c, f)
      PROVE  UNCHANGED silenced
  BY <1>3 DEF Start, ghostVars
<1>4. ASSUME NEW k \in Tasks, Put(k) \/ Emit(k) \/ Publish(k) \/ Answer(k)
      PROVE  UNCHANGED silenced
  BY <1>4 DEF Put, Emit, Publish, Record, Answer, Told, ghostVars
<1>5. ASSUME NEW k \in Tasks, JoinRoom(k) \/ LeaveRoom(k) \/ DriftingJoin(k) \/ Read(k)
      PROVE  UNCHANGED silenced
  BY <1>5 DEF JoinRoom, LeaveRoom, DriftingJoin, Read, ghostVars
<1>6. ASSUME NEW m \in adrift, JoinLands(m) \/ JoinFrozen(m)
      PROVE  UNCHANGED silenced
  BY <1>6 DEF JoinLands, JoinFrozen
<1>7. ASSUME NEW n \in DOMAIN outbox, Flush(n)
      PROVE  UNCHANGED silenced
  BY <1>7 DEF Flush
<1>8. ASSUME NEW k \in Tasks, Crash(k) \/ Remove(k)
      PROVE  silenced \subseteq silenced'
  BY <1>8 DEF Crash, Remove
<1> QED
  BY <1>1, <1>2, <1>3, <1>4, <1>5, <1>6, <1>7, <1>8 DEF Next

\* What an invocation is to announce, it announces, or it dies.
LEMMA AnnouncingLasts ==
    ASSUME DataOK, [Next]_vars, NEW k \in Tasks, NEW m \in table, m \in table', Announcing(k, m)
    PROVE  \/ Announcing(k, m)'
           \/ m.id \in silenced'
           \/ \E n \in DOMAIN outbox' : Announces(n, m)' /\ n \notin flushed'
<1>1. PICK t : t = task[k]
  OBVIOUS
<1>2. PICK u : u = task'[k]
  OBVIOUS
<1>3. t.item = m.id /\ HasEmit(t.left)
  BY <1>1 DEF Announcing, HasEmit
<1>4. m \in Stock /\ m.id \in 1..made
  BY DEF Stock, DataOK, StockOK
<1>5. t # Idle
  <2>1. ~HasEmit(<<>>)
    BY DEF HasEmit
  <2> QED
    BY <1>3, <2>1 DEF Idle
<1>6. Shape(t) /\ Effect(t)
  BY <1>1, <1>5 DEF DataOK, TasksOK
<1>7. u.item = m.id /\ HasEmit(u.left) => Announcing(k, m)'
  BY <1>2 DEF Announcing, HasEmit
<1>8. CASE u = Idle
  <2>1. Answer(k) \/ Crash(k)
    BY <1>1, <1>2, <1>5, <1>8, EndsAreEnds
  <2>2. ~Answer(k)
    <3>1. ~HasEmit(<<"answer">>)
      BY ListEmits
    <3> QED
      BY <1>1, <1>3, <3>1, AnswersLast
  <2> QED
    BY <1>1, <1>3, <2>1, <2>2 DEF Crash
<1>9. CASE Kept(t, u)
  <2>1. u.item = t.item /\ u.left = t.left
    BY <1>9 DEF Kept
  <2> QED
    BY <1>3, <1>7, <2>1
<1>10. ASSUME NEW step, Makes(k, step)
       PROVE  \/ Announcing(k, m)'
              \/ \E n \in DOMAIN outbox' : Announces(n, m)' /\ n \notin flushed'
  <2>1. /\ Head(t.left) = step /\ step # "answer" /\ u.left = Tail(t.left)
        /\ step # "put" => u.item = t.item
    BY <1>1, <1>2, <1>10, MakesGoesOn DEF Called
  <2>2. step # "put"
    BY <1>3, <1>4, <1>6, <2>1 DEF Shape
  <2>3. CASE step # "emit"
    BY <1>3, <1>6, <1>7, <2>1, <2>2, <2>3, ShapeIsLive, CallsEmit
  <2>4. CASE step = "emit"
    <3>1. Emit(k)
      BY <1>10, <2>4 DEF Makes, MidCall
    <3>2. PICK r : r = Notice(t, RoomOf(t.f))
      OBVIOUS
    <3>3. RecordOK(r) /\ outbox' = Append(outbox, r) /\ r.item = m.id
      BY <1>1, <1>3, <3>1, <3>2, EmitIsSound, NoticeFields
    <3>4. t.f.op # "post.delete"
      <4>1. SUFFICES ASSUME t.f.op = "post.delete" PROVE FALSE
        OBVIOUS
      <4>2. PICK i \in Stock : i.id = t.item /\ i \in retracted
        BY <1>6, <2>1, <2>4, <4>1 DEF Effect, Deletions
      <4>3. i = m
        BY <1>3, <1>4, <4>2 DEF DataOK, StockOK
      <4> QED
        BY <4>2, <4>3 DEF DataOK, StockOK
    <3>5. r.made
      BY <3>2, <3>4, NoticeFields
    <3>6. r \in [room : Rooms, item : Ids, made : BOOLEAN]
      BY <3>3 DEF RecordOK
    <3>7. PICK n : n = Len(outbox) + 1
      OBVIOUS
    <3>8. n \in DOMAIN outbox' /\ outbox'[n] = r /\ n \notin DOMAIN outbox
      BY <3>3, <3>6, <3>7, OneRecordMore
    <3>9. flushed' = flushed /\ flushed \subseteq DOMAIN outbox
      BY <3>1 DEF Emit, Record, DataOK, StoreOK
    <3>10. Announces(n, m)'
      BY <3>3, <3>5, <3>8 DEF Announces
    <3> QED
      BY <3>8, <3>9, <3>10
  <2> QED
    BY <2>3, <2>4
<1>11. ASSUME NEW c \in Clients, NEW f \in Frames, Start(k, c, f)
       PROVE  FALSE
  BY <1>1, <1>5, <1>11, StartIsSound
<1> QED
  BY <1>1, <1>2, <1>8, <1>9, <1>10, <1>11, TaskMoves

\* A public record of an item is in the room the item is announced to.
LEMMA RecordsHome ==
    ASSUME DataOK, NEW n \in DOMAIN outbox, NEW m \in table, Announces(n, m), m.public
    PROVE  outbox[n].room = Home(m)
<1>1. PICK i \in Stock : i.id = outbox[n].item /\ (i.public => outbox[n].room = Home(i))
  BY DEF DataOK, OutboxOK, RecordOK, Announces
<1>2. i = m
  BY <1>1 DEF DataOK, StockOK, Stock, Announces
<1> QED
  BY <1>1, <1>2

\* Whoever knows of an item, or will, does so until the item is gone, as long as it is
\* in the room of the item.
LEMMA KnowsLasts ==
    ASSUME DataOK, [Next]_vars, NEW c \in Clients, NEW seen, NEW m \in table, m \in table',
           Knows(c, seen, m), <<c, Home(m)>> \in members
    PROVE  Knows(c, seen, m)'
<1>1. CASE m.id \in seen \cup silenced \/ ~m.public
  BY <1>1, SilencedGrows DEF Knows
<1>2. ASSUME NEW k \in Tasks, Announcing(k, m)
      PROVE  Knows(c, seen, m)'
  BY <1>2, AnnouncingLasts DEF Knows
<1>3. ASSUME NEW n \in DOMAIN outbox, Announces(n, m), n \in flushed => <<c, n>> \in heard, m.public
      PROVE  Knows(c, seen, m)'
  <2>1. n \in DOMAIN outbox' /\ outbox'[n] = outbox[n]
    BY OutboxStep DEF OutboxGrows
  <2>2. Announces(n, m)'
    BY <1>3, <2>1 DEF Announces
  <2>3. n \in flushed' => <<c, n>> \in heard'
    <3>1. CASE UNCHANGED <<heard, missed, flushed>>
      BY <1>3, <3>1
    <3>2. ASSUME NEW x \in DOMAIN outbox, Flush(x)
          PROVE  n \in flushed' => <<c, n>> \in heard'
      <4>1. CASE x = n
        <5>1. outbox[n].room = Home(m)
          BY <1>3, RecordsHome
        <5> QED
          BY <3>2, <4>1, <5>1, FlushReaches
      <4>2. CASE x # n
        BY <1>3, <3>2, <4>2, FlushReaches
      <4> QED
        BY <4>1, <4>2
    <3> QED
      BY <3>1, <3>2, HeardSteps
  <2> QED
    BY <2>1, <2>2, <2>3 DEF Knows
<1> QED
  BY <1>1, <1>2, <1>3 DEF Knows

\* An item just stored is one its invocation is to announce, or need not be.
LEMMA NewItemsAreKnown ==
    ASSUME DataOK, [Next]_vars, NEW c, NEW seen, NEW m \in table', m \notin table
    PROVE  Knows(c, seen, m)'
<1>1. PICK k \in Tasks : Put(k)
  <2>1. ~UNCHANGED dataVars
    BY DEF dataVars
  <2>2. ~ \E k \in Tasks : Remove(k)
    BY RemoveStocks
  <2> QED
    BY <2>1, <2>2, DataSteps
<1>2. PICK n : n = made'
  OBVIOUS
<1>3. PICK t : t = task[k]
  OBVIOUS
<1>4. PICK u : u = task'[k]
  OBVIOUS
<1>5. n \in Ids /\ m = Created(t.f, n)
  BY <1>1, <1>2, <1>3, PutStocks DEF Put
<1>6. /\ Shape(t) /\ Head(t.left) = "put" /\ u.left = Tail(t.left) /\ u.item = n
  BY <1>1, <1>2, <1>3, <1>4, PutCalls, MakesGoesOn DEF Makes, Called
<1>7. t.f \in AnyFrames /\ t.left \in CallsOf(t.f)
  BY <1>6, ShapeIsLive
<1>8. m.id = n /\ (t.f.op = "createPost" => ~m.public)
  BY <1>5, <1>7, CreatedIsAnItem
<1>9. t.f.op # "createPost" => HasEmit(u.left)
  BY <1>6, <1>7, CallsEmit
<1>10. t.f.op # "createPost" => Announcing(k, m)'
  BY <1>4, <1>6, <1>8, <1>9 DEF Announcing, HasEmit
<1> QED
  BY <1>8, <1>10 DEF Knows

\* What a listing lists is announced to its room.
LEMMA ListedAtHome ==
    ASSUME NEW f, f.op \in Listings, NEW m \in Listed(f)
    PROVE  m \in table /\ Home(m) = HomeOf(f)
<1>1. CASE f.op = "chat.join"
  BY <1>1 DEF Listed, History, Home, HomeOf
<1>2. CASE f.op = "chat.conversations"
  BY <1>2 DEF Listed, Directory, Home, HomeOf
<1>3. CASE f.op = "post.list"
  BY <1>3 DEF Listed, Posts, Home, HomeOf
<1> QED
  BY <1>1, <1>2, <1>3 DEF Listings

\* An item listed then is listed now, if it was there.
LEMMA ListedBefore ==
    ASSUME NEW f, f.op \in Listings, NEW m \in Listed(f)', m \in table
    PROVE  m \in Listed(f)
<1>1. CASE f.op = "chat.join"
  BY <1>1 DEF Listed, History
<1>2. CASE f.op = "chat.conversations"
  BY <1>2 DEF Listed, Directory
<1>3. CASE f.op = "post.list"
  BY <1>3 DEF Listed, Posts
<1> QED
  BY <1>1, <1>2, <1>3 DEF Listings

\* A listing lists items that are there.
LEMMA ListedNow ==
    ASSUME NEW f, f.op \in Listings, NEW m \in Listed(f)'
    PROVE  m \in table'
<1>1. CASE f.op = "chat.join"
  BY <1>1 DEF Listed, History
<1>2. CASE f.op = "chat.conversations"
  BY <1>2 DEF Listed, Directory
<1>3. CASE f.op = "post.list"
  BY <1>3 DEF Listed, Posts
<1> QED
  BY <1>1, <1>2, <1>3 DEF Listings

\* Whoever is told of everything in a listing stays so, as long as it is in its room.
LEMMA SatisfiedLasts ==
    ASSUME DataOK, [Next]_vars, NEW c \in Clients, NEW f, f.op \in Listings, NEW seen,
           Satisfied(c, f, seen), <<c, HomeOf(f)>> \in members'
    PROVE  Satisfied(c, f, seen)'
<1>1. ASSUME NEW m \in Listed(f)'
      PROVE  Knows(c, seen, m)'
  <2>1. m \in table'
    BY <1>1, ListedNow
  <2>2. CASE m \in table
    <3>1. m \in Listed(f)
      BY <1>1, <2>2, ListedBefore
    <3>2. Knows(c, seen, m) /\ <<c, Home(m)>> \in members
      BY <3>1, ListedAtHome DEF Satisfied
    <3> QED
      BY <2>1, <2>2, <3>2, KnowsLasts
  <2>3. CASE m \notin table
    BY <2>1, <2>3, NewItemsAreKnown
  <2> QED
    BY <2>2, <2>3
<1>2. (<<c, HomeOf(f)>> \in members)'
  BY DEF HomeOf, Conv, Global
<1> QED
  BY <1>1, <1>2 DEF Satisfied

\* Nobody is put out of a room but by its own leave.
LEMMA MembersStay ==
    ASSUME [Next]_vars, NEW c, NEW room, <<c, room>> \in members
    PROVE  \/ <<c, room>> \in members'
           \/ \E k \in Tasks : LeaveRoom(k) /\ task[k].c = c /\ room = Conv(task[k].f.arg)
<1>1. CASE UNCHANGED vars
  BY <1>1 DEF vars, roomVars
<1>2. ASSUME NEW b \in Clients, NEW how \in {"anonymous", "named", "graphql"}, Connect(b, how)
      PROVE  members \subseteq members'
  BY <1>2 DEF Connect
<1>3. ASSUME NEW b \in Clients, NEW k \in Tasks, NEW f \in Frames, Start(k, b, f)
      PROVE  members' = members
  BY <1>3 DEF Start, roomVars
<1>4. ASSUME NEW k \in Tasks, \/ Put(k) \/ Remove(k) \/ Crash(k) \/ Emit(k) \/ Publish(k)
                              \/ Read(k) \/ Answer(k) \/ DriftingJoin(k)
      PROVE  members' = members
  BY <1>4 DEF Put, Remove, Crash, Emit, Publish, Record, Read, Answer, Told, DriftingJoin, roomVars
<1>5. ASSUME NEW k \in Tasks, JoinRoom(k)
      PROVE  members \subseteq members'
  BY <1>5 DEF JoinRoom
<1>6. ASSUME NEW k \in Tasks, LeaveRoom(k)
      PROVE  <<c, room>> \in members' \/ (task[k].c = c /\ room = Conv(task[k].f.arg))
  BY <1>6 DEF LeaveRoom
<1>7. ASSUME NEW m \in adrift, JoinLands(m) \/ JoinFrozen(m)
      PROVE  members \subseteq members'
  BY <1>7 DEF JoinLands, JoinFrozen
<1>8. ASSUME NEW n \in DOMAIN outbox, Flush(n)
      PROVE  members' = members
  BY <1>8 DEF Flush, roomVars
<1> QED
  BY <1>1, <1>2, <1>3, <1>4, <1>5, <1>6, <1>7, <1>8 DEF Next

\* The global room is left by nobody.
LEMMA GlobalStays ==
    ASSUME [Next]_vars, NEW c, <<c, Global>> \in members
    PROVE  <<c, Global>> \in members'
<1>1. \A id : Global # Conv(id)
  BY DEF Global, Conv
<1> QED
  BY <1>1, MembersStay

\* Only an answer adds a listing to those that were answered, and a leave takes its own.
LEMMA AnswersSteps ==
    ASSUME [Next]_vars
    PROVE  \/ answers' \subseteq answers
           \/ \E k \in Tasks : Answer(k)
<1>1. CASE UNCHANGED vars
  BY <1>1 DEF vars, toldVars
<1>2. ASSUME NEW c \in Clients, \E how \in {"anonymous", "named", "graphql"} : Connect(c, how)
      PROVE  UNCHANGED answers
  BY <1>2 DEF Connect, toldVars
<1>3. ASSUME NEW c \in Clients, NEW k \in Tasks, NEW f \in Frames, Start(k, c, f)
      PROVE  UNCHANGED answers
  BY <1>3 DEF Start
<1>4. ASSUME NEW k \in Tasks, Put(k) \/ Remove(k) \/ Crash(k) \/ Emit(k) \/ Publish(k)
      PROVE  UNCHANGED answers
  BY <1>4 DEF Put, Remove, Crash, Emit, Publish, Record, toldVars
<1>5. ASSUME NEW k \in Tasks, JoinRoom(k) \/ DriftingJoin(k) \/ Read(k)
      PROVE  UNCHANGED answers
  BY <1>5 DEF JoinRoom, DriftingJoin, Read, toldVars
<1>6. ASSUME NEW m \in adrift, JoinLands(m) \/ JoinFrozen(m)
      PROVE  UNCHANGED answers
  BY <1>6 DEF JoinLands, JoinFrozen, toldVars
<1>7. ASSUME NEW n \in DOMAIN outbox, Flush(n)
      PROVE  UNCHANGED answers
  BY <1>7 DEF Flush, toldVars
<1>8. ASSUME NEW k \in Tasks, LeaveRoom(k)
      PROVE  answers' \subseteq answers
  BY <1>8 DEF LeaveRoom
<1> QED
  BY <1>1, <1>2, <1>3, <1>4, <1>5, <1>6, <1>7, <1>8 DEF Next

\* Whoever is in a room to know of a listing stays there while the listing counts.
LEMMA HomeStays ==
    ASSUME [Next]_vars, NEW c, NEW f \in AnyFrames, f.op \in Listings, <<c, HomeOf(f)>> \in members,
           ~ \E k \in Tasks : LeaveRoom(k) /\ task[k].c = c /\ f = JoinFrame(task[k].f.arg)
    PROVE  <<c, HomeOf(f)>> \in members'
<1>1. CASE f.op = "chat.join"
  <2>1. HomeOf(f) = Conv(f.arg) /\ f = JoinFrame(f.arg)
    BY <1>1, JoinFramesAreJoins DEF HomeOf
  <2>2. \A id : Conv(f.arg) = Conv(id) => f.arg = id
    BY DEF Conv
  <2> QED
    BY <2>1, <2>2, MembersStay
<1>2. CASE f.op # "chat.join"
  BY <1>2, GlobalStays DEF HomeOf
<1> QED
  BY <1>1, <1>2

\* A client that is connected to read or to write is in the global room.
LEMMA GlobalStep ==
    ASSUME CaughtOK, [Next]_vars, NEW c \in Clients, who'[c] \in {"named", "anonymous"}, DataOK
    PROVE  <<c, Global>> \in members'
<1>1. CASE who'[c] = who[c]
  BY <1>1, GlobalStays DEF CaughtOK
<1>2. ASSUME NEW b \in Clients, NEW how \in {"anonymous", "named", "graphql"}, Connect(b, how)
      PROVE  <<c, Global>> \in members'
  <2>1. CASE b = c
    <3>1. who'[c] = how
      BY <1>2, <2>1 DEF Connect, DataOK, StoreOK
    <3>2. how # "graphql"
      BY <3>1
    <3> QED
      BY <1>2, <2>1, <3>2 DEF Connect
  <2>2. CASE b # c
    BY <1>1, <1>2, <2>2 DEF Connect, DataOK, StoreOK
  <2> QED
    BY <2>1, <2>2
<1>3. ASSUME NEW b \in Clients, NEW k \in Tasks, NEW f \in Frames, Start(k, b, f)
      PROVE  who' = who
  BY <1>3 DEF Start
<1>4. ASSUME NEW k \in Tasks, \/ Put(k) \/ Remove(k) \/ Crash(k) \/ Emit(k) \/ Publish(k)
                              \/ Read(k) \/ Answer(k) \/ DriftingJoin(k) \/ JoinRoom(k) \/ LeaveRoom(k)
      PROVE  who' = who
  BY <1>4 DEF Put, Remove, Crash, Emit, Publish, Record, Read, Answer, Told, DriftingJoin, JoinRoom, LeaveRoom
<1>5. ASSUME NEW m \in adrift, JoinLands(m) \/ JoinFrozen(m)
      PROVE  who' = who
  BY <1>5 DEF JoinLands, JoinFrozen
<1>6. ASSUME NEW n \in DOMAIN outbox, Flush(n)
      PROVE  who' = who
  BY <1>6 DEF Flush
<1>7. CASE UNCHANGED vars
  BY <1>1, <1>7 DEF vars
<1> QED
  BY <1>1, <1>2, <1>3, <1>4, <1>5, <1>6, <1>7 DEF Next

\* A read shows, or leaves out, all there is.
LEMMA ReadSatisfies ==
    ASSUME NEW q \in Tasks, DataOK, Read(q), NEW c, NEW f, NEW seen,
           f = task[q].f, f.op \in Listings, seen = task'[q].shown \cup task'[q].cut,
           <<c, HomeOf(f)>> \in members
    PROVE  Satisfied(c, f, seen)'
<1>1. {m.id : m \in Listed(f)} \subseteq seen
  BY ReadCalls
<1>2. members' = members /\ table' = table
  BY DEF Read, roomVars, dataVars
<1>3. ASSUME NEW m \in Listed(f)'
      PROVE  m.id \in seen
  <2>1. m \in table
    BY <1>2, ListedNow
  <2>2. m \in Listed(f)
    BY <2>1, ListedBefore
  <2> QED
    BY <1>1, <2>2
<1>4. (<<c, HomeOf(f)>> \in members)'
  BY <1>2 DEF HomeOf, Conv, Global
<1> QED
  BY <1>3, <1>4 DEF Satisfied, Knows

\* An invocation that nobody touches, or that is crossed, is owed what it was.
LEMMA KeptIsCaught ==
    ASSUME DataOK, [Next]_vars, NEW q \in Tasks, NEW t, NEW u, t = task[q], u = task'[q],
           t # Idle, Kept(t, u), TaskCaught(t)
    PROVE  TaskCaught(u)'
<1>1. Shape(t) /\ t.c \in Clients /\ t.f \in AnyFrames
  BY DEF DataOK, TasksOK, Shape
<1>2. u.c = t.c /\ u.f = t.f /\ u.left = t.left
  BY DEF Kept
<1>3. u.f.op \notin Mutations => <<u.c, Global>> \in members'
  BY <1>2, GlobalStays DEF TaskCaught
<1>4. ASSUME ~u.crossed
      PROVE  u = t
  <2>1. CASE u = [c |-> t.c, f |-> t.f, left |-> t.left, item |-> t.item, shown |-> t.shown,
                  cut |-> t.cut, crossed |-> TRUE]
    BY <1>4, <2>1
  <2> QED
    BY <2>1 DEF Kept
<1>5. ASSUME ~u.crossed
      PROVE  ~ \E k \in Tasks : LeaveRoom(k) /\ task[k].c = t.c /\ t.f = JoinFrame(task[k].f.arg)
  <2>1. SUFFICES ASSUME NEW k \in Tasks, LeaveRoom(k), task[k].c = t.c, t.f = JoinFrame(task[k].f.arg)
                 PROVE  FALSE
    OBVIOUS
  <2>2. q \in Joining(task[k].c, task[k].f.arg)
    BY <2>1 DEF Joining
  <2>3. k # q
    <3>2. Shape(task[k]) /\ Head(task[k].left) = "leave"
      BY <2>1 DEF LeaveRoom, Now, DataOK, TasksOK
    <3>3. task[k].f.op = "chat.leave"
      BY <3>2, ShapeIsLive, CallsBy
    <3>4. t.f.op = "chat.join"
      BY <2>1 DEF JoinFrame
    <3> QED
      BY <3>3, <3>4
  <2> QED
    BY <1>5, <2>1, <2>2, <2>3, LeaveCalls
<1>6. ASSUME ~u.crossed, u.f.op = "chat.join", Head(u.left) # "join"
      PROVE  <<u.c, Conv(u.f.arg)>> \in members'
  <2>1. <<t.c, HomeOf(t.f)>> \in members
    BY <1>4, <1>6 DEF TaskCaught, HomeOf
  <2>2. <<t.c, HomeOf(t.f)>> \in members'
    BY <1>1, <1>2, <1>5, <1>6, <2>1, HomeStays DEF Listings
  <2> QED
    BY <1>2, <1>6, <2>2 DEF HomeOf
<1>7. ASSUME ~u.crossed, u.f.op \in Listings, u.left = <<"answer">>
      PROVE  Satisfied(u.c, u.f, u.shown \cup u.cut)'
  <2>1. PICK seen : seen = t.shown \cup t.cut
    OBVIOUS
  <2>2. Satisfied(t.c, t.f, seen)
    BY <1>4, <1>7, <2>1 DEF TaskCaught
  <2>3. <<t.c, HomeOf(t.f)>> \in members'
    BY <1>1, <1>2, <1>5, <1>7, <2>2, HomeStays DEF Satisfied
  <2>4. Satisfied(t.c, t.f, seen)'
    BY <1>1, <1>2, <1>7, <2>2, <2>3, SatisfiedLasts
  <2>5. u.c = t.c /\ u.f = t.f /\ u.shown \cup u.cut = seen
    BY <1>4, <1>7, <2>1
  <2> QED
    BY <2>4, <2>5
<1> QED
  BY <1>3, <1>6, <1>7 DEF TaskCaught

\* Whoever starts to read is in the global room.
LEMMA StartIsCaught ==
    ASSUME DataOK, CaughtOK, NEW q \in Tasks, NEW c \in Clients, NEW f \in Frames, Start(q, c, f),
           NEW u, u = task'[q]
    PROVE  TaskCaught(u)'
<1>1. /\ u.c = c /\ u.f = f /\ u.left = Handler(f) /\ f \in AnyFrames
  BY StartIsSound, FramesAreFrames
<1>2. members' = members
  BY DEF Start, roomVars
<1>3. f.op \notin Mutations => <<c, Global>> \in members
  BY DEF Start, CaughtOK
<1>4. u.left # <<"answer">> /\ (f.op = "chat.join" => Head(u.left) = "join")
  BY <1>1, HandlerAsks
<1> QED
  BY <1>1, <1>2, <1>3, <1>4 DEF TaskCaught

\* An invocation reads in the room it has joined, and answers with all it read.
LEMMA MakesIsCaught ==
    ASSUME DataOK, CaughtOK, [Next]_vars, NEW q \in Tasks, NEW step, Makes(q, step),
           NEW u, u = task'[q]
    PROVE  TaskCaught(u)'
<1>1. PICK t : t = task[q]
  OBVIOUS
<1>2. /\ Shape(t) /\ t # Idle /\ Head(t.left) = step /\ step # "answer"
      /\ u.c = t.c /\ u.f = t.f /\ u.left = Tail(t.left) /\ u.crossed = t.crossed
  BY <1>1, MakesGoesOn DEF Called
<1>3. TaskCaught(t) /\ t.f \in AnyFrames /\ t.left \in CallsOf(t.f) /\ t.c \in Clients
  BY <1>1, <1>2 DEF CaughtOK, Shape
<1>4. u.f.op \notin Mutations => <<u.c, Global>> \in members'
  BY <1>2, <1>3, GlobalStays DEF TaskCaught
<1>5. ASSUME u.f.op = "chat.join", ~u.crossed
      PROVE  <<u.c, Conv(u.f.arg)>> \in members'
  <2>1. CASE step = "join"
    <3>1. JoinRoom(q)
      BY <2>1 DEF Makes, MidCall
    <3> QED
      BY <1>1, <1>2, <3>1 DEF JoinRoom
  <2>2. CASE step # "join"
    <3>1. step = "read"
      BY <1>2, <1>3, <1>5, <2>2, CallsList
    <3>2. Read(q)
      BY <3>1 DEF Makes, MidCall
    <3>3. members' = members
      BY <3>2 DEF Read, roomVars
    <3> QED
      BY <1>2, <1>3, <1>5, <2>2, <3>3 DEF TaskCaught
  <2> QED
    BY <2>1, <2>2
<1>6. ASSUME u.f.op \in Listings, ~u.crossed, u.left = <<"answer">>
      PROVE  Satisfied(u.c, u.f, u.shown \cup u.cut)'
  <2>1. step = "read"
    BY <1>2, <1>3, <1>6, CallsList
  <2>2. Read(q)
    BY <2>1 DEF Makes, MidCall
  <2>3. members' = members
    BY <2>2 DEF Read, roomVars
  <2>4. <<t.c, HomeOf(t.f)>> \in members
    <3>1. t.f.op \notin Mutations
      BY <1>2, <1>6 DEF Listings, Mutations
    <3> QED
      BY <1>2, <1>3, <1>6, <2>1, <3>1 DEF TaskCaught, HomeOf
  <2>5. PICK seen : seen = u.shown \cup u.cut
    OBVIOUS
  <2>6. Satisfied(t.c, t.f, seen)'
    BY <1>1, <1>2, <1>6, <2>2, <2>4, <2>5, ReadSatisfies
  <2> QED
    BY <1>2, <2>5, <2>6
<1> QED
  BY <1>4, <1>5, <1>6 DEF TaskCaught

\* Whatever was answered stays so.
LEMMA AnswersStep ==
    ASSUME DataOK, CaughtOK, [Next]_vars, NEW a \in answers'
    PROVE  /\ a.c \in Clients /\ a.f \in AnyFrames /\ a.f.op \in Listings
           /\ Satisfied(a.c, a.f, a.shown \cup a.cut)'
<1>1. PICK c, f, seen : c = a.c /\ f = a.f /\ seen = a.shown \cup a.cut
  OBVIOUS
<1>2. ASSUME a \notin answers
      PROVE  /\ c \in Clients /\ f \in AnyFrames /\ f.op \in Listings
             /\ Satisfied(c, f, seen) /\ <<c, HomeOf(f)>> \in members'
  <2>1. PICK k \in Tasks : Answer(k)
    BY <1>2, AnswersSteps
  <2>2. PICK t : t = task[k]
    OBVIOUS
  <2>3. /\ t.f.op \in {"chat.conversations", "chat.join", "post.list"} /\ ~t.crossed
        /\ a = [c |-> t.c, f |-> t.f, shown |-> t.shown, cut |-> t.cut]
    BY <1>2, <2>1, <2>2 DEF Answer, Told
  <2>4. c = t.c /\ f = t.f /\ seen = t.shown \cup t.cut
    BY <1>1, <2>3
  <2>5. t # Idle /\ t.left = <<"answer">> /\ t.c \in Clients /\ t.f \in AnyFrames
    BY <2>1, <2>2, AnswersLast DEF Shape
  <2>6. Satisfied(t.c, t.f, t.shown \cup t.cut)
    BY <2>2, <2>3, <2>5 DEF CaughtOK, TaskCaught, Listings
  <2>7. members' = members
    BY <2>1 DEF Answer, Told, roomVars
  <2> QED
    BY <2>3, <2>4, <2>5, <2>6, <2>7 DEF Satisfied, Listings
<1>3. ASSUME a \in answers
      PROVE  /\ c \in Clients /\ f \in AnyFrames /\ f.op \in Listings
             /\ Satisfied(c, f, seen) /\ <<c, HomeOf(f)>> \in members'
  <2>1. c \in Clients /\ f \in AnyFrames /\ f.op \in Listings /\ Satisfied(c, f, seen)
    BY <1>1, <1>3 DEF CaughtOK
  <2>2. ~ \E k \in Tasks : LeaveRoom(k) /\ task[k].c = c /\ f = JoinFrame(task[k].f.arg)
    BY <1>1 DEF LeaveRoom
  <2>3. <<c, HomeOf(f)>> \in members'
    BY <2>1, <2>2, HomeStays DEF Satisfied
  <2> QED
    BY <2>1, <2>3
<1>4. /\ c \in Clients /\ f \in AnyFrames /\ f.op \in Listings
      /\ Satisfied(c, f, seen) /\ <<c, HomeOf(f)>> \in members'
  BY <1>2, <1>3
<1>5. Satisfied(c, f, seen)'
  BY <1>4, SatisfiedLasts
<1> QED
  BY <1>1, <1>4, <1>5

\* Nobody is owed more than it will hear.
LEMMA CaughtStep ==
    ASSUME DataOK, CaughtOK, [Next]_vars
    PROVE  CaughtOK'
<1>1. ASSUME NEW q \in Tasks, task'[q] # Idle
      PROVE  TaskCaught(task[q])'
  <2>1. PICK u : u = task'[q]
    OBVIOUS
  <2>2. SUFFICES TaskCaught(u)'
    BY <2>1
  <2>3. ASSUME task[q] # Idle, Kept(task[q], task'[q])
        PROVE  TaskCaught(u)'
    <3>1. PICK t : t = task[q]
      OBVIOUS
    <3>2. TaskCaught(t)
      BY <2>3, <3>1 DEF CaughtOK
    <3> QED
      BY <2>1, <2>3, <3>1, <3>2, KeptIsCaught
  <2>4. ASSUME NEW c \in Clients, NEW f \in Frames, Start(q, c, f)
        PROVE  TaskCaught(u)'
    BY <2>1, <2>4, StartIsCaught
  <2>5. ASSUME NEW step, Makes(q, step)
        PROVE  TaskCaught(u)'
    BY <2>1, <2>5, MakesIsCaught
  <2> QED
    BY <1>1, <2>3, <2>4, <2>5, TaskMoves
<1>2. \A a \in answers' : (/\ a.c \in Clients /\ a.f \in AnyFrames /\ a.f.op \in Listings
                           /\ Satisfied(a.c, a.f, a.shown \cup a.cut))'
  BY AnswersStep
<1>3. \A c \in Clients : who'[c] \in {"named", "anonymous"} => <<c, Global>> \in members'
  BY GlobalStep
<1>4. \A c \in Clients : (who[c] \in {"named", "anonymous"} => <<c, Global>> \in members)'
  BY <1>3 DEF Global
<1> QED
  BY <1>1, <1>2, <1>4 DEF CaughtOK

\* Nothing falls between a listing and the frames that follow it: whoever was answered
\* chat.joined, the directory or the feed has, or will hear of, every item of that list,
\* those stored while it was being read included.
THEOREM ListingsAreCaughtUp == Spec => []CaughtUp
<1>1. Init => CaughtOK
  BY DEF Init, CaughtOK
<1>2. DataOK /\ CaughtOK /\ [Next]_vars => (DataOK /\ CaughtOK)'
  BY DataStep, CaughtStep
<1>3. CaughtOK => CaughtUp
  <2>1. SUFFICES ASSUME CaughtOK, NEW a \in answers, NEW m \in Listed(a.f)
                 PROVE  \/ m.id \in a.shown \cup a.cut \cup silenced \/ ~m.public
                        \/ \E k \in Tasks : Announcing(k, m)
                        \/ \E n \in DOMAIN outbox :
                             Announces(n, m) /\ (n \in flushed => <<a.c, n>> \in heard)
    BY DEF CaughtUp
  <2>2. Knows(a.c, a.shown \cup a.cut, m)
    BY <2>1 DEF CaughtOK, Satisfied
  <2> QED
    BY <2>2 DEF Knows
<1> QED
  BY <1>1, <1>2, <1>3, DataInit, PTL DEF Spec

-----------------------------------------------------------------------------
(* What a deletion tells whoever found the post                             *)

\* The end of item m is to be announced or is recorded behind record a, unless nobody
\* was left to announce it.
Parting(m, a) ==
    \/ m.id \in silenced
    \/ \E k \in Tasks : task[k].f.op = "post.delete" /\ Announcing(k, m)
    \/ \E n \in DOMAIN outbox : n > a /\ outbox[n].item = m.id /\ ~outbox[n].made

\* What is gone was announced, or will be; behind a read that found it in time.
PartingOK ==
    /\ \A m \in retracted : Parting(m, 0)
    /\ \A p \in found : p.after <= Len(outbox)
    /\ \A p \in found, m \in retracted : p.item = m.id => p.stale \/ Parting(m, p.after)

\* A deletion to be announced is announced behind the records there are, or its
\* invocation dies.
LEMMA PartingTask ==
    ASSUME DataOK, [Next]_vars, NEW m \in retracted, NEW a \in Nat, a <= Len(outbox),
           NEW k \in Tasks, task[k].f.op = "post.delete", Announcing(k, m)
    PROVE  Parting(m, a)'
<1>1. PICK t : t = task[k]
  OBVIOUS
<1>2. PICK u : u = task'[k]
  OBVIOUS
<1>3. t.item = m.id /\ HasEmit(t.left) /\ t.f.op = "post.delete"
  BY <1>1 DEF Announcing, HasEmit
<1>4. t # Idle
  <2>1. ~HasEmit(<<>>)
    BY DEF HasEmit
  <2> QED
    BY <1>3, <2>1 DEF Idle
<1>5. Shape(t)
  BY <1>1, <1>4 DEF DataOK, TasksOK
<1>6. ASSUME u.item = m.id, HasEmit(u.left), u.f.op = "post.delete"
      PROVE  Parting(m, a)'
  <2>1. Announcing(k, m)'
    BY <1>2, <1>6 DEF Announcing, HasEmit
  <2> QED
    BY <1>2, <1>6, <2>1 DEF Parting
<1>7. CASE u = Idle
  <2>1. Answer(k) \/ Crash(k)
    BY <1>1, <1>2, <1>4, <1>7, EndsAreEnds
  <2>2. ~Answer(k)
    <3>1. ~HasEmit(<<"answer">>)
      BY ListEmits
    <3> QED
      BY <1>1, <1>3, <3>1, AnswersLast
  <2>3. m.id \in silenced'
    BY <1>1, <1>3, <2>1, <2>2 DEF Crash
  <2> QED
    BY <2>3 DEF Parting
<1>8. CASE Kept(t, u)
  <2>1. u.item = t.item /\ u.left = t.left /\ u.f = t.f
    BY <1>8 DEF Kept
  <2> QED
    BY <1>3, <1>6, <2>1
<1>9. ASSUME NEW step, Makes(k, step)
      PROVE  Parting(m, a)'
  <2>1. /\ Head(t.left) = step /\ step # "answer" /\ u.left = Tail(t.left) /\ u.f = t.f
        /\ step # "put" => u.item = t.item
    BY <1>1, <1>2, <1>9, MakesGoesOn DEF Called
  <2>2. step # "put"
    BY <1>3, <1>5, <2>1, ShapeIsLive, CallsBy DEF Makers
  <2>3. CASE step # "emit"
    BY <1>3, <1>5, <1>6, <2>1, <2>2, <2>3, ShapeIsLive, CallsEmit
  <2>4. CASE step = "emit"
    <3>1. Emit(k)
      BY <1>9, <2>4 DEF Makes, MidCall
    <3>2. PICK r : r = Notice(t, RoomOf(t.f))
      OBVIOUS
    <3>3. RecordOK(r) /\ outbox' = Append(outbox, r) /\ r.item = m.id /\ ~r.made
      BY <1>1, <1>3, <3>1, <3>2, EmitIsSound, NoticeFields
    <3>4. r \in [room : Rooms, item : Ids, made : BOOLEAN]
      BY <3>3 DEF RecordOK
    <3>5. PICK n : n = Len(outbox) + 1
      OBVIOUS
    <3>6. n \in DOMAIN outbox' /\ outbox'[n] = r
      BY <3>3, <3>4, <3>5, OneRecordMore
    <3>7. n > a
      <4>1. Len(outbox) \in Nat
        BY DEF DataOK, StoreOK
      <4> QED
        BY <3>5, <4>1
    <3> QED
      BY <3>3, <3>6, <3>7 DEF Parting
  <2> QED
    BY <2>3, <2>4
<1>10. ASSUME NEW c \in Clients, NEW f \in Frames, Start(k, c, f)
       PROVE  FALSE
  BY <1>1, <1>4, <1>10, StartIsSound
<1> QED
  BY <1>1, <1>2, <1>7, <1>8, <1>9, <1>10, TaskMoves

\* So the end of an item stays announced, or to be announced.
LEMMA PartingLasts ==
    ASSUME DataOK, [Next]_vars, NEW m \in retracted, NEW a \in Nat, a <= Len(outbox),
           Parting(m, a)
    PROVE  Parting(m, a)'
<1>1. CASE m.id \in silenced
  BY <1>1, SilencedGrows DEF Parting
<1>2. CASE \E k \in Tasks : task[k].f.op = "post.delete" /\ Announcing(k, m)
  BY <1>2, PartingTask
<1>3. ASSUME NEW n \in DOMAIN outbox, n > a, outbox[n].item = m.id, ~outbox[n].made
      PROVE  Parting(m, a)'
  <2>1. n \in DOMAIN outbox' /\ outbox'[n] = outbox[n]
    BY OutboxStep DEF OutboxGrows
  <2> QED
    BY <1>3, <2>1 DEF Parting
<1> QED
  BY <1>1, <1>2, <1>3 DEF Parting

\* Whoever removes a post is to announce it, unless GraphQL did.
LEMMA RemovalParts ==
    ASSUME DataOK, [Next]_vars, NEW m \in retracted', m \notin retracted, NEW a
    PROVE  Parting(m, a)'
<1>1. PICK k \in Tasks : Remove(k)
  <2>1. ASSUME NEW q \in Tasks, Put(q)
        PROVE  FALSE
    BY <2>1 DEF Put
  <2> QED
    BY <2>1, DataSteps DEF dataVars
<1>2. PICK t : t = task[k]
  OBVIOUS
<1>3. PICK u : u = task'[k]
  OBVIOUS
<1>4. m \in table /\ m.id = t.item
  BY <1>1, <1>2 DEF Remove
<1>5. /\ Head(t.left) = "remove" /\ Shape(t) /\ u.left = Tail(t.left) /\ u.f = t.f
      /\ u.item = t.item
  BY <1>1, <1>2, <1>3, MakesGoesOn DEF Makes, Called
<1>6. t.f \in AnyFrames /\ t.left \in CallsOf(t.f) /\ t.f.op \in Deletions
  BY <1>5, ShapeIsLive, CallsBy
<1>7. CASE t.f.op = "deletePost"
  <2>1. m.id \in silenced'
    BY <1>1, <1>2, <1>4, <1>7 DEF Remove
  <2> QED
    BY <2>1 DEF Parting
<1>8. CASE t.f.op = "post.delete"
  <2>1. t.left \in {<<"remove", "emit", "answer">>, <<"emit", "answer">>, <<"answer">>}
    BY <1>6, <1>8 DEF CallsOf
  <2>2. t.left = <<"remove", "emit", "answer">>
    BY <1>5, <2>1, ListHeads, Zenon
  <2>3. HasEmit(u.left)
    BY <1>5, <2>2, ListTails, ListEmits, Zenon
  <2>4. Announcing(k, m)'
    BY <1>3, <1>4, <1>5, <2>3 DEF Announcing, HasEmit
  <2> QED
    BY <1>3, <1>5, <1>8, <2>4 DEF Parting
<1> QED
  BY <1>6, <1>7, <1>8 DEF Deletions

\* Only a read finds.
LEMMA FoundSteps ==
    ASSUME [Next]_vars
    PROVE  UNCHANGED found \/ \E k \in Tasks : Read(k)
<1>1. CASE UNCHANGED vars
  BY <1>1 DEF vars, ghostVars
<1>2. ASSUME NEW c \in Clients, \E how \in {"anonymous", "named", "graphql"} : Connect(c, how)
      PROVE  UNCHANGED found
  BY <1>2 DEF Connect, ghostVars
<1>3. ASSUME NEW c \in Clients, NEW k \in Tasks, NEW f \in Frames, Start(k, c, f)
      PROVE  UNCHANGED found
  BY <1>3 DEF Start, ghostVars
<1>4. ASSUME NEW k \in Tasks, Put(k) \/ Remove(k) \/ Crash(k) \/ Emit(k) \/ Publish(k) \/ Answer(k)
      PROVE  UNCHANGED found
  BY <1>4 DEF Put, Remove, Crash, Emit, Publish, Record, Answer, Told, ghostVars
<1>5. ASSUME NEW k \in Tasks, JoinRoom(k) \/ LeaveRoom(k) \/ DriftingJoin(k)
      PROVE  UNCHANGED found
  BY <1>5 DEF JoinRoom, LeaveRoom, DriftingJoin, ghostVars
<1>6. ASSUME NEW m \in adrift, JoinLands(m) \/ JoinFrozen(m)
      PROVE  UNCHANGED found
  BY <1>6 DEF JoinLands, JoinFrozen
<1>7. ASSUME NEW n \in DOMAIN outbox, Flush(n)
      PROVE  UNCHANGED found
  BY <1>7 DEF Flush
<1> QED
  BY <1>1, <1>2, <1>3, <1>4, <1>5, <1>6, <1>7 DEF Next

\* No step loses the end of a post that was found.
LEMMA PartingStep ==
    ASSUME DataOK, PartingOK, [Next]_vars
    PROVE  PartingOK'
<1>1. Len(outbox) \in Nat /\ Len(outbox') \in Nat /\ Len(outbox) <= Len(outbox')
  BY OutboxStep DEF OutboxGrows, DataOK, StoreOK
<1>2. ASSUME NEW m \in retracted'
      PROVE  Parting(m, 0)'
  <2>1. m \in retracted => Parting(m, 0)
    BY DEF PartingOK
  <2> QED
    BY <1>1, <2>1, PartingLasts, RemovalParts
<1>3. ASSUME NEW p \in found
      PROVE  p.after \in Nat /\ p.after <= Len(outbox)
  BY <1>3 DEF PartingOK, DataOK, StoreOK
<1>4. ASSUME NEW p \in found'
      PROVE  p.after <= Len(outbox')
  <2>1. CASE p \in found
    BY <1>1, <1>3, <2>1
  <2>2. CASE p \notin found
    <3>1. p.after = Len(outbox)
      BY <1>4, <2>2, FoundSteps, ReadFinds
    <3> QED
      BY <1>1, <3>1
  <2> QED
    BY <2>1, <2>2
<1>5. ASSUME NEW p \in found', NEW m \in retracted', p.item = m.id, ~p.stale
      PROVE  Parting(m, p.after)'
  <2>1. PICK a : a = p.after
    OBVIOUS
  <2>2. CASE m \notin retracted
    <3>1. Parting(m, a)'
      BY <2>2, RemovalParts
    <3> QED
      BY <2>1, <3>1
  <2>3. CASE m \in retracted /\ p \in found
    <3>1. Parting(m, a) /\ a \in Nat /\ a <= Len(outbox)
      BY <1>3, <1>5, <2>1, <2>3 DEF PartingOK
    <3>2. Parting(m, a)'
      BY <2>3, <3>1, PartingLasts
    <3> QED
      BY <2>1, <3>2
  <2>4. CASE m \in retracted /\ p \notin found
    BY <1>5, <2>4, FoundSteps, ReadFinds
  <2> QED
    BY <2>2, <2>3, <2>4
<1> QED
  BY <1>2, <1>4, <1>5 DEF PartingOK

\* A post some listing found, and that is gone, has its post.deleted recorded behind that
\* read, or on its way there, unless the read was stale or nobody was left to announce it;
\* and whoever subscribed before it was recorded has it, or will.
THEOREM DeletionsAreHeard == Spec => []DeletionsReach
<1>1. Init => PartingOK
  BY DEF Init, PartingOK
<1>2. DataOK /\ PartingOK /\ [Next]_vars => (DataOK /\ PartingOK)'
  BY DataStep, PartingStep
<1>3. ASSUME DataOK, PartingOK, SubscribedHears
      PROVE  DeletionsReach
  <2>1. SUFFICES ASSUME NEW p \in found, NEW m \in retracted, p.item = m.id,
                        m.id \notin silenced,
                        ~\E k \in Tasks : task[k].f.op = "post.delete" /\ Announcing(k, m)
                 PROVE  \E n \in DOMAIN outbox :
                          /\ outbox[n].item = m.id /\ ~outbox[n].made /\ (n > p.after \/ p.stale)
                          /\ n \in flushed /\ (\E s \in subscribed : s[1] = p.c /\ s[2] < n) =>
                               <<p.c, n>> \in heard \cup missed
    BY DEF DeletionsReach
  <2>2. Parting(m, 0) /\ (p.stale \/ Parting(m, p.after))
    BY <1>3, <2>1 DEF PartingOK
  <2>3. PICK n \in DOMAIN outbox :
          outbox[n].item = m.id /\ ~outbox[n].made /\ (n > p.after \/ p.stale)
    BY <2>1, <2>2 DEF Parting
  <2>4. outbox[n].room = Feed /\ n \in Nat
    BY <1>3, <2>3 DEF DataOK, OutboxOK, RecordOK, StoreOK
  <2>5. ASSUME n \in flushed, NEW s \in subscribed, s[1] = p.c, s[2] < n
        PROVE  <<p.c, n>> \in heard \cup missed
    BY <1>3, <2>4, <2>5 DEF SubscribedHears
  <2> QED
    BY <2>3, <2>5
<1> QED
  BY <1>1, <1>2, <1>3, DataInit, SubscribersHear, PTL DEF Spec
=============================================================================
