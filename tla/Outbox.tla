------------------------------- MODULE Outbox -------------------------------
(***************************************************************************)
(* Durable fan-out: publish() appends one record to the Messages table,    *)
(* the table's stream hands batches of records to bridge.flush(), and the  *)
(* Flusher pages the topic's subscribers, claims each delivery in the      *)
(* ledger and posts it.                                                    *)
(*                                                                         *)
(* One stream lane is modelled (a shard, and one of its parallel batches): *)
(* a topic always falls in the same lane, and lanes share nothing but rows *)
(* keyed by their own messages. The event source mapping, the sockets and  *)
(* the failures of both are external; the rest is the code of outbox.ts    *)
(* and of GatewayBridge.flush().                                           *)
(***************************************************************************)
EXTENDS Naturals, Sequences, FiniteSets

CONSTANTS
    Topics,         \* partition keys: rooms and GraphQL topics
    Msgs,           \* message ids
    TopicOf,        \* the topic each message is published to
    Subs,           \* subscribers; their numbers are the sort-key order of rows
    Runs,           \* Lambda invocations that can exist at the same time
    Concurrency,    \* FlusherOptions.concurrency
    BatchSize,      \* records per invocation, at most
    MaxAttempts,    \* failed invocations after which a record ages out
    Faults,         \* the kinds of failure considered
    MaxFaults,      \* bound: failures in one behaviour
    MaxLog,         \* bound: records on the stream
    MaxChurn        \* bound: joins, leaves and closes after the start

FaultKinds == {"page", "claim", "unconfirmedClaim", "send", "unanswered",
               "release", "reap", "requeue", "unconfirmedRequeue",
               "kill", "abandon", "expire"}

ASSUME OutboxAssumption ==
    /\ TopicOf \in [Msgs -> Topics]
    /\ Subs \subseteq Nat \ {0}
    /\ Concurrency \in Nat \ {0}
    /\ BatchSize \in Nat \ {0}
    /\ MaxAttempts \in Nat \ {0}
    /\ Faults \subseteq FaultKinds
    /\ MaxFaults \in Nat
    /\ MaxLog \in Nat
    /\ MaxChurn \in Nat

VARIABLES
    \* the Messages table's stream and its consumer position
    log,            \* records in stream order: [msg, cursor], cursor 0 = none
    ckpt,           \* records 1..ckpt are consumed
    attempts,       \* failed invocations since ckpt last moved
    dlq,            \* messages a record of which was discarded to the DLQ
    blamed,         \* messages that failed, or headed a batch whose invocation died
    \* the Connections table, and the sockets API Gateway holds
    members,        \* members[t]: rows of topic t
    open,           \* subscribers whose socket exists
    ledger,         \* claimed <<m, c>> pairs: the DLV# rows
    \* invocations of flush(), and within one, a group per topic
    run,            \* run[r]: "idle", "active" or "abandoned" by the poller
    hi,             \* hi[r]: last record of the batch
    pc,             \* pc[r][t]: "none", "page", "send" or "failed"
    at,             \* at[r][t]: the record being flushed
    cur,            \* cur[r][t]: cursor the current page was read from
    next,           \* next[r][t]: cursor of the page after it, 0 = last page
    task,           \* task[r][t][c]: where deliverOne is with c
    \* what the properties look at
    got,            \* got[m][c]: frames of m that reached the socket of c
    owed,           \* <<m, c>>: c was subscribed at publish and stayed
    stranded,       \* <<m, c, why>>: a claim outlived a failed delivery
    unacked,        \* unacked[m][c]: frames that arrived but were reported failed
    expired,        \* expired[m][c]: claims the table's TTL deleted
    faults,         \* failures so far
    churn           \* membership changes so far

streamVars == <<log, ckpt, attempts, dlq, blamed>>
tableVars  == <<members, open, churn>>
groupVars  == <<pc, at, cur, next>>
histVars   == <<got, owed, stranded, unacked, expired>>
vars == <<streamVars, tableVars, ledger, run, hi, groupVars, task, histVars, faults>>

InFlight    == {"todo", "sending", "releasing", "reaping"}
TaskStates  == {"idle", "queued", "done", "failed"} \cup InFlight
Causes      == {"kill", "claim", "release", "overlap"}
Pairs       == Msgs \X Subs
Records     == [msg : Msgs, cursor : Subs \cup {0}]

Fault(kind) == kind \in Faults /\ faults < MaxFaults /\ faults' = faults + 1
MinOf(S)    == CHOOSE i \in S : \A j \in S : i <= j
NoTasks     == [c \in Subs |-> "idle"]

MsgOf(r, t)  == log[at[r][t]].msg
Published    == {log[i].msg : i \in DOMAIN log}

Init ==
    /\ log = <<>> /\ ckpt = 0 /\ attempts = 0 /\ dlq = {} /\ blamed = {}
    /\ members \in [Topics -> SUBSET Subs] /\ open = Subs   \* joined before
    /\ ledger = {}
    /\ run = [r \in Runs |-> "idle"] /\ hi = [r \in Runs |-> 0]
    /\ pc = [r \in Runs |-> [t \in Topics |-> "none"]]
    /\ at = [r \in Runs |-> [t \in Topics |-> 0]]
    /\ cur = [r \in Runs |-> [t \in Topics |-> 0]]
    /\ next = [r \in Runs |-> [t \in Topics |-> 0]]
    /\ task = [r \in Runs |-> [t \in Topics |-> NoTasks]]
    /\ got = [m \in Msgs |-> [c \in Subs |-> 0]]
    /\ owed = {} /\ stranded = {}
    /\ unacked = [m \in Msgs |-> [c \in Subs |-> 0]]
    /\ expired = [m \in Msgs |-> [c \in Subs |-> 0]]
    /\ faults = 0 /\ churn = 0

-----------------------------------------------------------------------------
(* Publishers and subscribers                                              *)

\* DynamoOutboxBus.publish: one row, and it is all the publisher waits for.
Publish(m) ==
    /\ m \notin Published
    /\ Len(log) < MaxLog
    /\ log' = Append(log, [msg |-> m, cursor |-> 0])
    /\ owed' = owed \cup ({m} \X (members[TopicOf[m]] \cap open))
    /\ UNCHANGED <<ckpt, attempts, dlq, blamed, tableVars, ledger, run, hi, groupVars,
                   task, got, stranded, unacked, expired, faults>>

Churn == churn < MaxChurn /\ churn' = churn + 1

Join(t, c) ==
    /\ Churn
    /\ c \in open
    /\ members' = [members EXCEPT ![t] = @ \cup {c}]
    /\ members' # members
    /\ UNCHANGED <<streamVars, open, ledger, run, hi, groupVars, task, histVars, faults>>

Leave(t, c) ==
    /\ Churn
    /\ c \in members[t]
    /\ members' = [members EXCEPT ![t] = @ \ {c}]
    /\ owed' = {p \in owed : ~(p[2] = c /\ TopicOf[p[1]] = t)}
    /\ UNCHANGED <<streamVars, open, ledger, run, hi, groupVars, task,
                   got, stranded, unacked, expired, faults>>

\* The socket closes. $disconnect is best effort: the rows may outlive it.
HangUp(c) ==
    /\ Churn
    /\ c \in open
    /\ open' = open \ {c}
    /\ owed' = {p \in owed : p[2] # c}
    /\ UNCHANGED <<streamVars, members, ledger, run, hi, groupVars, task,
                   got, stranded, unacked, expired, faults>>

\* store.remove: the connection's rows in every topic.
RemoveRows(c) == members' = [t \in Topics |-> members[t] \ {c}]

\* ... and when $disconnect does come, cleanup() removes them.
Disconnected(c) ==
    /\ c \notin open
    /\ \E t \in Topics : c \in members[t]
    /\ RemoveRows(c)
    /\ UNCHANGED <<streamVars, open, churn, ledger, run, hi, groupVars, task, histVars, faults>>

-----------------------------------------------------------------------------
(* bridge.flush(): the records of a batch, grouped by topic                *)

Entries(t, lo, h) == {i \in lo..h : TopicOf[log[i].msg] = t}

\* The event source mapping invokes flush() with a batch. Each topic in it gets
\* a group, which starts at the topic's first record.
StartRun(r, h) ==
    /\ run[r] = "idle" /\ \A q \in Runs : run[q] # "active"
    /\ attempts < MaxAttempts
    /\ h \in (ckpt + 1)..Len(log) /\ h <= ckpt + BatchSize
    /\ run' = [run EXCEPT ![r] = "active"]
    /\ hi' = [hi EXCEPT ![r] = h]
    /\ LET first(t) == MinOf(Entries(t, ckpt + 1, h))
           busy(t)  == Entries(t, ckpt + 1, h) # {}
       IN /\ pc' = [pc EXCEPT ![r] = [t \in Topics |-> IF busy(t) THEN "page" ELSE "none"]]
          /\ at' = [at EXCEPT ![r] = [t \in Topics |-> IF busy(t) THEN first(t) ELSE 0]]
          /\ cur' = [cur EXCEPT ![r] =
                       [t \in Topics |-> IF busy(t) THEN log[first(t)].cursor ELSE 0]]
    /\ next' = [next EXCEPT ![r] = [t \in Topics |-> 0]]
    /\ task' = [task EXCEPT ![r] = [t \in Topics |-> NoTasks]]
    /\ UNCHANGED <<streamVars, tableVars, ledger, histVars, faults>>

ClearTasks(r, t) == task' = [task EXCEPT ![r][t] = NoTasks]

\* The group is through with its record: on to the topic's next one, if any.
RecordDone(r, t) ==
    LET later == Entries(t, at[r][t] + 1, hi[r])
    IN /\ IF later = {}
          THEN /\ pc' = [pc EXCEPT ![r][t] = "none"]
               /\ at' = [at EXCEPT ![r][t] = 0]
               /\ cur' = [cur EXCEPT ![r][t] = 0]
          ELSE /\ pc' = [pc EXCEPT ![r][t] = "page"]
               /\ at' = [at EXCEPT ![r][t] = MinOf(later)]
               /\ cur' = [cur EXCEPT ![r][t] = log[MinOf(later)].cursor]
       /\ next' = [next EXCEPT ![r][t] = 0]
       /\ ClearTasks(r, t)

\* flush() threw: the sequence number is reported and the group stops there.
RecordFailed(r, t) ==
    /\ pc' = [pc EXCEPT ![r][t] = "failed"]
    /\ cur' = [cur EXCEPT ![r][t] = 0]
    /\ next' = [next EXCEPT ![r][t] = 0]
    /\ ClearTasks(r, t)
    /\ UNCHANGED at

\* The invocation is over, and with it everything it kept in memory.
ForgetRun(r) ==
    /\ run' = [run EXCEPT ![r] = "idle"]
    /\ hi' = [hi EXCEPT ![r] = 0]
    /\ pc' = [pc EXCEPT ![r] = [t \in Topics |-> "none"]]
    /\ at' = [at EXCEPT ![r] = [t \in Topics |-> 0]]
    /\ cur' = [cur EXCEPT ![r] = [t \in Topics |-> 0]]
    /\ next' = [next EXCEPT ![r] = [t \in Topics |-> 0]]
    /\ task' = [task EXCEPT ![r] = [t \in Topics |-> NoTasks]]

FailedGroups(r) == {t \in Topics : pc[r][t] = "failed"}

\* Wrong on purpose, for the mutation runs: only the last failure is in the answer.
LastFailure(r) == {i \in {at[r][t] : t \in FailedGroups(r)} :
                     \A t \in FailedGroups(r) : at[r][t] <= i}
\* Wrong on purpose: flush() throws, and the batch fails from its first record on.
WholeBatch(r) == IF FailedGroups(r) = {} THEN {} ELSE {ckpt + 1}
\* batchItemFailures: the record each group stopped at.
Failing(r) == {at[r][t] : t \in FailedGroups(r)}

\* Wrong on purpose: one record too many is run again.
CheckpointTooLow(r) == IF Failing(r) = {} THEN hi[r] ELSE MinOf(Failing(r)) - 2
\* The poller resumes at the lowest sequence number reported.
Checkpoint(r) == IF Failing(r) = {} THEN hi[r] ELSE MinOf(Failing(r)) - 1

EndRun(r) ==
    /\ run[r] # "idle"
    /\ \A t \in Topics : pc[r][t] \in {"none", "failed"}
    /\ ForgetRun(r)
    /\ IF run[r] = "active"
       THEN /\ ckpt' = Checkpoint(r)
            /\ attempts' = IF Failing(r) = {} THEN 0
                           ELSE IF Checkpoint(r) = ckpt THEN attempts + 1 ELSE 1
            /\ blamed' = blamed \cup {MsgOf(r, t) : t \in FailedGroups(r)}
       ELSE UNCHANGED <<ckpt, attempts, blamed>>   \* nobody reads an abandoned answer
    /\ UNCHANGED <<log, dlq, tableVars, ledger, histVars, faults>>

\* A record retried until it aged out goes to the dead-letter queue.
Discard ==
    /\ \A r \in Runs : run[r] # "active"
    /\ attempts = MaxAttempts
    /\ ckpt < Len(log)
    /\ ckpt' = ckpt + 1
    /\ dlq' = dlq \cup {log[ckpt + 1].msg}
    /\ attempts' = 0
    /\ UNCHANGED <<log, blamed, tableVars, ledger, run, hi, groupVars, task, histVars, faults>>

-----------------------------------------------------------------------------
(* Flusher.flush(): one record, page by page                               *)

\* resolve(record, cursor): the rows after the cursor, up to wherever DynamoDB
\* ends the page. The cursor it returns is the last row read, absent (0) when
\* the query is exhausted. In-memory stores return everything in one page.
ReadPage(r, t) ==
    /\ pc[r][t] = "page"
    /\ LET rows == {c \in members[t] : c > cur[r][t]}
       IN \E end \in rows \cup {0} :
            /\ next' = [next EXCEPT ![r][t] = end]
            /\ task' = [task EXCEPT ![r][t] =
                 [c \in Subs |-> IF c \in rows /\ (end = 0 \/ c <= end)
                                 THEN "queued" ELSE "idle"]]
    /\ pc' = [pc EXCEPT ![r][t] = "send"]
    /\ UNCHANGED <<streamVars, tableVars, ledger, run, hi, at, cur, histVars, faults>>

\* Reading the page, or finding a resolver for the record's kind, throws.
PageUnreadable(r, t) ==
    /\ Fault("page")
    /\ pc[r][t] = "page"
    /\ RecordFailed(r, t)
    /\ UNCHANGED <<streamVars, tableVars, ledger, run, hi, histVars>>

\* deliverPage: the next `concurrency` targets, once the batch before settled.
NextBatch(r, t) ==
    LET queued == {c \in Subs : task[r][t][c] = "queued"}
    IN /\ pc[r][t] = "send" /\ queued # {}
       /\ \A c \in Subs : task[r][t][c] \notin InFlight
       /\ \E batch \in SUBSET queued :
            /\ \/ Cardinality(batch) = Concurrency
               \/ Cardinality(batch) < Concurrency /\ batch = queued
            /\ \A c \in batch, d \in queued \ batch : c < d
            /\ task' = [task EXCEPT ![r][t] =
                 [c \in Subs |-> IF c \in batch THEN "todo" ELSE task[r][t][c]]]
       /\ UNCHANGED <<streamVars, tableVars, ledger, run, hi, groupVars, histVars, faults>>

PageSettled(r, t) ==
    /\ pc[r][t] = "send"
    /\ \A c \in Subs : task[r][t][c] \in {"idle", "done", "failed"}

AnyFailed(r, t) == \E c \in Subs : task[r][t][c] = "failed"

\* Some delivery failed: flush() throws once the page's other targets settled,
\* and later pages are not attempted.
PageFailed(r, t) ==
    /\ PageSettled(r, t) /\ AnyFailed(r, t)
    /\ RecordFailed(r, t)
    /\ UNCHANGED <<streamVars, tableVars, ledger, run, hi, histVars, faults>>

LastPageDone(r, t) ==
    /\ PageSettled(r, t) /\ ~AnyFailed(r, t)
    /\ next[r][t] = 0
    /\ RecordDone(r, t)
    /\ UNCHANGED <<streamVars, tableVars, ledger, run, hi, histVars, faults>>

PageDone(r, t) == PageSettled(r, t) /\ ~AnyFailed(r, t) /\ next[r][t] # 0

NextPage(r, t) ==
    /\ PageDone(r, t)
    /\ cur' = [cur EXCEPT ![r][t] = next[r][t]]
    /\ next' = [next EXCEPT ![r][t] = 0]
    /\ pc' = [pc EXCEPT ![r][t] = "page"]
    /\ ClearTasks(r, t)
    /\ UNCHANGED <<streamVars, tableVars, ledger, run, hi, at, histVars, faults>>

\* The record that carries on after this page: the same messageId, a cursor.
Continuation(r, t) == [msg |-> MsgOf(r, t), cursor |-> next[r][t]]

\* Wrong on purpose: out of time, and nothing is requeued.
RequeueForgotten(r, t) ==
    /\ PageDone(r, t)
    /\ RecordDone(r, t)
    /\ UNCHANGED <<streamVars, tableVars, ledger, run, hi, histVars, faults>>

\* Less than reserveMs left: the remainder becomes a new record, at the end of
\* the stream, and this one is done.
Requeue(r, t) ==
    /\ PageDone(r, t)
    /\ Len(log) < MaxLog
    /\ log' = Append(log, Continuation(r, t))
    /\ RecordDone(r, t)
    /\ UNCHANGED <<ckpt, attempts, dlq, blamed, tableVars, ledger, run, hi, histVars, faults>>

RequeueFails(r, t) ==
    /\ Fault("requeue")
    /\ PageDone(r, t)
    /\ RecordFailed(r, t)
    /\ UNCHANGED <<streamVars, tableVars, ledger, run, hi, histVars>>

\* The row is written but the put reports an error.
RequeueUnconfirmed(r, t) ==
    /\ Fault("unconfirmedRequeue")
    /\ PageDone(r, t)
    /\ Len(log) < MaxLog
    /\ log' = Append(log, Continuation(r, t))
    /\ RecordFailed(r, t)
    /\ UNCHANGED <<ckpt, attempts, dlq, blamed, tableVars, ledger, run, hi, histVars>>

-----------------------------------------------------------------------------
(* Flusher.deliverOne(): claim, send, and what a failure does to the claim *)

SetTask(r, t, c, state) == task' = [task EXCEPT ![r][t][c] = state]
\* Wrong on purpose: an unconditional put.
ClaimUnchecked(m, c) == TRUE
Unclaimed(m, c) == <<m, c>> \notin ledger

\* ledger.claim, an atomic test-and-set: a claimed pair counts as served.
Claim(r, t, c) ==
    /\ task[r][t][c] = "todo"
    /\ IF Unclaimed(MsgOf(r, t), c)
       THEN /\ ledger' = ledger \cup {<<MsgOf(r, t), c>>}
            /\ SetTask(r, t, c, "sending")
       ELSE /\ SetTask(r, t, c, "done")
            /\ UNCHANGED ledger
    /\ UNCHANGED <<streamVars, tableVars, run, hi, groupVars, histVars, faults>>

ClaimFails(r, t, c) ==
    /\ Fault("claim")
    /\ task[r][t][c] = "todo"
    /\ SetTask(r, t, c, "failed")
    /\ UNCHANGED <<streamVars, tableVars, ledger, run, hi, groupVars, histVars>>

\* The row is written but its answer is lost: the put reports an error, or the
\* SDK's own retry finds the row and claim() answers "served".
ClaimUnconfirmed(r, t, c) ==
    /\ Fault("unconfirmedClaim")
    /\ task[r][t][c] = "todo" /\ Unclaimed(MsgOf(r, t), c)
    /\ ledger' = ledger \cup {<<MsgOf(r, t), c>>}
    /\ stranded' = stranded \cup {<<MsgOf(r, t), c, "claim">>}
    /\ \E outcome \in {"done", "failed"} : SetTask(r, t, c, outcome)
    /\ UNCHANGED <<streamVars, tableVars, run, hi, groupVars, got, owed, unacked, expired>>

Send(r, t, c) ==
    /\ task[r][t][c] = "sending" /\ c \in open
    /\ got' = [got EXCEPT ![MsgOf(r, t)][c] = @ + 1]
    /\ SetTask(r, t, c, "done")
    /\ UNCHANGED <<streamVars, tableVars, ledger, run, hi, groupVars,
                   owed, stranded, unacked, expired, faults>>

SendFails(r, t, c) ==
    /\ Fault("send")
    /\ task[r][t][c] = "sending"
    /\ SetTask(r, t, c, "releasing")
    /\ UNCHANGED <<streamVars, tableVars, ledger, run, hi, groupVars, histVars>>

\* The frame arrives but the call reports an error (a timeout, a lost answer).
SendUnanswered(r, t, c) ==
    /\ Fault("unanswered")
    /\ task[r][t][c] = "sending" /\ c \in open
    /\ got' = [got EXCEPT ![MsgOf(r, t)][c] = @ + 1]
    /\ unacked' = [unacked EXCEPT ![MsgOf(r, t)][c] = @ + 1]
    /\ SetTask(r, t, c, "releasing")
    /\ UNCHANGED <<streamVars, tableVars, ledger, run, hi, groupVars,
                   owed, stranded, expired>>

\* 410 Gone: the socket does not exist. The claim is kept.
SendGone(r, t, c) ==
    /\ task[r][t][c] = "sending" /\ c \notin open
    /\ SetTask(r, t, c, "reaping")
    /\ UNCHANGED <<streamVars, tableVars, ledger, run, hi, groupVars, histVars, faults>>

\* onConnectionGone: cleanup(connectionId, "gone").
Reap(r, t, c) ==
    /\ task[r][t][c] = "reaping"
    /\ RemoveRows(c)
    /\ SetTask(r, t, c, "done")
    /\ UNCHANGED <<streamVars, open, churn, ledger, run, hi, groupVars, histVars, faults>>

ReapFails(r, t, c) ==
    /\ Fault("reap")
    /\ task[r][t][c] = "reaping"
    /\ SetTask(r, t, c, "failed")
    /\ UNCHANGED <<streamVars, tableVars, ledger, run, hi, groupVars, histVars>>

\* Wrong on purpose: no release.
KeepClaim(m, c) == UNCHANGED ledger
GiveBack(m, c) == ledger' = ledger \ {<<m, c>>}

\* ledger.release, then the send's error is rethrown. An abandoned run gives
\* back a claim that the run after it may already have taken for a delivery.
Release(r, t, c) ==
    /\ task[r][t][c] = "releasing"
    /\ GiveBack(MsgOf(r, t), c)
    /\ stranded' = IF run[r] = "abandoned"
                   THEN stranded \cup {<<MsgOf(r, t), c, "overlap">>} ELSE stranded
    /\ SetTask(r, t, c, "failed")
    /\ UNCHANGED <<streamVars, tableVars, run, hi, groupVars, got, owed,
                   unacked, expired, faults>>

\* The release throws: the claim stays and the delivery still counts as failed.
ReleaseFails(r, t, c) ==
    /\ Fault("release")
    /\ task[r][t][c] = "releasing"
    /\ stranded' = stranded \cup {<<MsgOf(r, t), c, "release">>}
    /\ SetTask(r, t, c, "failed")
    /\ UNCHANGED <<streamVars, tableVars, ledger, run, hi, groupVars, got, owed,
                   unacked, expired>>

-----------------------------------------------------------------------------
(* Failures of the surroundings                                            *)

Held(r, m, c) == \E t \in Topics :
    pc[r][t] = "send" /\ MsgOf(r, t) = m /\ task[r][t][c] \in {"sending", "releasing", "reaping"}

\* The record a batch starts with: what a failed attempt at all of it is counted for.
Headed == {log[i].msg : i \in {ckpt + 1} \cap DOMAIN log}

\* The invocation dies (timeout, crash): its claims stay, and the poller counts
\* a failed attempt at the whole batch.
Kill(r) ==
    /\ Fault("kill")
    /\ run[r] # "idle"
    /\ ForgetRun(r)
    /\ stranded' = stranded \cup
         {<<p[1], p[2], "kill">> : p \in {q \in Pairs : Held(r, q[1], q[2])}}
    /\ IF run[r] = "active"
       THEN attempts' = attempts + 1 /\ blamed' = blamed \cup Headed
       ELSE UNCHANGED <<attempts, blamed>>
    /\ UNCHANGED <<log, ckpt, dlq, tableVars, ledger, got, owed, unacked, expired>>

\* The poller loses sight of an invocation that goes on running, and retries
\* the batch in another one: two concurrent retries.
Abandon(r) ==
    /\ Fault("abandon")
    /\ run[r] = "active"
    /\ run' = [run EXCEPT ![r] = "abandoned"]
    /\ attempts' = attempts + 1 /\ blamed' = blamed \cup Headed
    /\ UNCHANGED <<log, ckpt, dlq, tableVars, ledger, hi, groupVars, task, histVars>>

\* The table's TTL deletes a claim made OUTBOX_TTL_SECONDS (an hour) ago, far
\* longer than an invocation, and far shorter than the day a record is retried.
Expire(m, c) ==
    /\ Fault("expire")
    /\ <<m, c>> \in ledger
    /\ \A r \in Runs : ~Held(r, m, c)
    /\ ledger' = ledger \ {<<m, c>>}
    /\ expired' = [expired EXCEPT ![m][c] = @ + 1]
    /\ UNCHANGED <<streamVars, tableVars, run, hi, groupVars, task, got, owed,
                   stranded, unacked>>

-----------------------------------------------------------------------------

DeliverStep(r, t, c) ==
    Claim(r, t, c) \/ Send(r, t, c) \/ SendGone(r, t, c) \/ Reap(r, t, c) \/ Release(r, t, c)

GroupStep(r, t) ==
    \/ ReadPage(r, t) \/ NextBatch(r, t)
    \/ PageFailed(r, t) \/ LastPageDone(r, t) \/ NextPage(r, t)
    \/ \E c \in Subs : DeliverStep(r, t, c)

GroupFault(r, t) ==
    \/ PageUnreadable(r, t) \/ RequeueFails(r, t) \/ RequeueUnconfirmed(r, t)
    \/ \E c \in Subs : \/ ClaimFails(r, t, c) \/ ClaimUnconfirmed(r, t, c)
                       \/ SendFails(r, t, c) \/ SendUnanswered(r, t, c)
                       \/ ReapFails(r, t, c) \/ ReleaseFails(r, t, c)

Poll == Discard \/ \E r \in Runs : EndRun(r) \/ \E h \in 1..MaxLog : StartRun(r, h)

Next ==
    \/ \E m \in Msgs : Publish(m)
    \/ \E t \in Topics, c \in Subs : Join(t, c) \/ Leave(t, c)
    \/ \E c \in Subs : HangUp(c) \/ Disconnected(c)
    \/ \E r \in Runs, t \in Topics : GroupStep(r, t) \/ Requeue(r, t) \/ GroupFault(r, t)
    \/ Poll
    \/ \E r \in Runs : Kill(r) \/ Abandon(r)
    \/ \E m \in Msgs, c \in Subs : Expire(m, c)

\* A running function keeps running and the poller keeps polling. Nothing is
\* assumed of publishers and subscribers, nor that a failure ever happens or
\* that an invocation ever runs out of time.
Fairness ==
    /\ \A r \in Runs, t \in Topics : WF_vars(GroupStep(r, t))
    /\ WF_vars(Poll)

Spec == Init /\ [][Next]_vars
FairSpec == Spec /\ Fairness

-----------------------------------------------------------------------------
(* Properties                                                              *)

StreamTypes ==
    /\ log \in Seq(Records) /\ Len(log) <= MaxLog
    /\ ckpt \in 0..Len(log) /\ attempts \in 0..MaxAttempts
    /\ dlq \subseteq Msgs /\ blamed \subseteq Msgs
TableTypes ==
    /\ members \in [Topics -> SUBSET Subs] /\ open \subseteq Subs
    /\ ledger \subseteq Pairs /\ churn \in 0..MaxChurn
RunTypes ==
    /\ run \in [Runs -> {"idle", "active", "abandoned"}] /\ hi \in [Runs -> Nat]
    /\ \A r, q \in Runs : run[r] = "active" /\ run[q] = "active" => r = q
GroupTypes ==
    /\ pc \in [Runs -> [Topics -> {"none", "page", "send", "failed"}]]
    /\ at \in [Runs -> [Topics -> Nat]]
    /\ cur \in [Runs -> [Topics -> Subs \cup {0}]]
    /\ next \in [Runs -> [Topics -> Subs \cup {0}]]
    /\ task \in [Runs -> [Topics -> [Subs -> TaskStates]]]
HistTypes ==
    /\ got \in [Msgs -> [Subs -> Nat]]
    /\ owed \subseteq Pairs /\ stranded \subseteq Msgs \X Subs \X Causes
    /\ unacked \in [Msgs -> [Subs -> Nat]] /\ expired \in [Msgs -> [Subs -> Nat]]
    /\ faults \in 0..MaxFaults

\* Every variable keeps to its type, and only one invocation reports to the
\* poller at a time.
TypeOK == StreamTypes /\ TableTypes /\ RunTypes /\ GroupTypes /\ HistTypes

Settled(m) == m \in Published /\ \A i \in (ckpt + 1)..Len(log) : log[i].msg # m

Stranded(m, c) == \E why \in Causes : <<m, c, why>> \in stranded
Excused(m, c) == Stranded(m, c) \/ m \in dlq
HeldByAny(m, c) == \E r \in Runs : Held(r, m, c)

\* A subscriber gets a frame twice only as often as a send that arrived was
\* reported failed, or its ledger row expired: retries, continuations and two
\* runs at once add nothing (outbox.ts: claim before send, release on failure).
DuplicatesExplained ==
    \A m \in Msgs, c \in Subs : got[m][c] <= 1 + unacked[m][c] + expired[m][c]

\* Once no record of a message is left to process, each subscriber it was owed
\* to has its frame, or a named failure stands for it: a claim left behind, the
\* dead-letter queue, or a send still in flight in an abandoned run.
LossExplained ==
    \A p \in owed : Settled(p[1]) =>
        got[p[1]][p[2]] > 0 \/ Excused(p[1], p[2]) \/ HeldByAny(p[1], p[2])

FirstAt(m) == MinOf({i \in DOMAIN log : log[i].msg = m})
Before(m, n) == /\ m # n /\ TopicOf[m] = TopicOf[n]
                /\ {m, n} \subseteq Published /\ FirstAt(m) < FirstAt(n)

\* Two messages of a topic reach a subscriber in the order they were written:
\* when the later one is there, so is the earlier, unless it was given up.
OrderPerTopic ==
    \A m, n \in Msgs, c \in Subs :
        Before(m, n) /\ {<<m, c>>, <<n, c>>} \subseteq owed /\ got[n][c] > 0
            => got[m][c] > 0 \/ Excused(m, c)

Requeued(m) == \E i \in DOMAIN log : log[i].msg = m /\ log[i].cursor # 0

\* The same, for messages served without a continuation: a failed or retried
\* record never lets a later message of its topic overtake it.
OrderUnlessRequeued ==
    \A m, n \in Msgs, c \in Subs :
        Before(m, n) /\ {<<m, c>>, <<n, c>>} \subseteq owed /\ got[n][c] > 0
            => got[m][c] > 0 \/ Excused(m, c) \/ Requeued(m)

\* A record that keeps failing does not take its neighbours along: what ends up in
\* the dead-letter queue failed itself, or was at the head of a batch whose
\* invocation died. Topics that share a batch with a poison record never use up
\* attempts on its account (GatewayBridge.flush: a group stops at its own failure,
\* and every group's failure is reported by its own number).
NeighboursSpared == dlq \subseteq blamed

\* The flush consumer as an implementation of the contract of Fanout.
Waived == {p \in Pairs : \/ Excused(p[1], p[2])
                         \/ unacked[p[1]][p[2]] > 0 \/ expired[p[1]][p[2]] > 0}
Contract == INSTANCE Fanout WITH waived <- Waived,
                                 settled <- {m \in Msgs : m \in Published => Settled(m)}
ImplementsFanout == Contract!FSpec
=============================================================================
