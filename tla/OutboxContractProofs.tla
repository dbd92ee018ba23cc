------------------------ MODULE OutboxContractProofs ------------------------
(***************************************************************************)
(* What Outbox promises its subscribers: nobody a message is owed to loses *)
(* it without a named failure, a retried record is not overtaken, a        *)
(* failing one costs its neighbours no attempts, and the whole is a Fanout *)
(* while the poller loses sight of no invocation.                          *)
(***************************************************************************)
EXTENDS OutboxProofs

\* Subscribers are numbered from 1, and 0 stands for no cursor.
LEMMA Numbered == /\ \A c \in Subs : c \in Nat /\ c > 0
                  /\ \A c \in Subs \cup {0} : c \in Nat
  BY OutboxAssumption

LEMMA TopicType == \A m \in Msgs : TopicOf[m] \in Topics
  BY OutboxAssumption

-----------------------------------------------------------------------------
(* The invariant. A pair that is owed is safe, or some record still to be    *)
(* consumed comes to it: one after the batch of the running invocation, one  *)
(* its topic's group has not reached, or the one the group is on, with the   *)
(* subscriber not yet offered it, or to be reported failed.                  *)

Gives(r, t, m, c) == pc[r][t] = "send" /\ MsgOf(r, t) = m /\ task[r][t][c] \in Holding
HeldLate(m, c) == \E r \in Runs, t \in Topics : run[r] = "abandoned" /\ Gives(r, t, m, c)
Safe(m, c) == got[m][c] > 0 \/ Excused(m, c) \/ HeldLate(m, c)

Owing == {"queued", "todo", "sending", "releasing", "failed"}
Offers(r, t, c) ==
    \/ pc[r][t] = "failed"
    \/ pc[r][t] = "page" /\ cur[r][t] < c
    \/ pc[r][t] = "send" /\ task[r][t][c] \in Owing
    \/ pc[r][t] = "send" /\ next[r][t] # 0 /\ next[r][t] < c
Comes(r, t, i, c) ==
    \/ i > hi[r]
    \/ pc[r][t] # "none" /\ i > at[r][t]
    \/ i = at[r][t] /\ Offers(r, t, c)
Carries(i, m, c) == i \in 1..Len(log) /\ i > ckpt /\ log[i].msg = m /\ log[i].cursor < c
Pending(m, c) == \E i \in Nat :
    Carries(i, m, c) /\ \A r \in Runs : run[r] = "active" => Comes(r, TopicOf[m], i, c)

Covered == \A m \in Msgs, c \in Subs : <<m, c>> \in owed => Safe(m, c) \/ Pending(m, c)

\* What it rests on. A pair is owed only while the subscriber is there; a
\* socket that answered 410 is closed for good; a group of the running
\* invocation is on a record of its batch; a claim in the ledger is somebody's.
OwedSubscribed == \A m \in Msgs, c \in Subs :
    <<m, c>> \in owed => c \in open /\ c \in members[TopicOf[m]]
ReapingClosed == \A r \in Runs, t \in Topics, c \in Subs :
    task[r][t][c] = "reaping" => c \notin open
AtInBatch == \A r \in Runs, t \in Topics :
    run[r] = "active" /\ pc[r][t] # "none" => ckpt < at[r][t] /\ at[r][t] <= hi[r]
IdleEmpty == \A r \in Runs, t \in Topics : run[r] = "idle" => pc[r][t] = "none"
ClaimsServed == \A m \in Msgs, c \in Subs : <<m, c>> \in ledger =>
    \/ got[m][c] > 0 \/ Stranded(m, c) \/ c \notin open
    \/ \E r \in Runs, t \in Topics : Gives(r, t, m, c)

CoverOK == OwedSubscribed /\ ReapingClosed /\ AtInBatch /\ IdleEmpty /\ ClaimsServed /\ Covered

\* A pair is held, in the sense of the model, when some group gives it.
LEMMA HeldIsGiven ==
    ASSUME NEW r \in Runs, NEW m, NEW c
    PROVE  Held(r, m, c) <=> \E t \in Topics : Gives(r, t, m, c)
  BY DEF Held, Gives, Holding

LEMMA CoverOKInit == Init => CoverOK
<1> SUFFICES ASSUME Init PROVE CoverOK
  OBVIOUS
<1>1. \A r \in Runs, t \in Topics : pc[r][t] = "none"
  BY DEF Init
<1>2. \A r \in Runs, t \in Topics, c \in Subs : task[r][t][c] = "idle"
  BY DEF Init, NoTasks
<1>3. owed = {} /\ ledger = {}
  BY DEF Init
<1> QED
  BY <1>1, <1>2, <1>3 DEF CoverOK, OwedSubscribed, ReapingClosed, AtInBatch, IdleEmpty,
                          ClaimsServed, Covered

-----------------------------------------------------------------------------
(* What no step takes back.                                                  *)

\* The stream only grows, and nothing that reached a subscriber or excuses a
\* pair is forgotten. No socket opens again.
LogGrows == /\ Len(log) \in Nat /\ Len(log') \in Nat /\ Len(log) <= Len(log')
            /\ \A i \in 1..Len(log) : log'[i] = log[i]
Remembered ==
    /\ LogGrows
    /\ \A m \in Msgs, c \in Subs : got[m][c] > 0 => got'[m][c] > 0
    /\ stranded \subseteq stranded' /\ dlq \subseteq dlq' /\ open' \subseteq open

LEMMA LogKept == StateOK /\ log' = log => LogGrows
  BY DEF StateOK, TypeOK, StreamTypes, LogGrows

LEMMA LogAppended ==
    ASSUME StateOK, NEW rec \in Records, Len(log) < MaxLog, log' = Append(log, rec)
    PROVE  LogGrows /\ Len(log') = Len(log) + 1 /\ log'[Len(log) + 1] = rec
<1>1. log \in Seq(Records) /\ Len(log) \in Nat
  BY DEF StateOK, TypeOK, StreamTypes
<1> QED
  BY <1>1 DEF LogGrows

\* The record that carries on after a page is a record.
LEMMA ContinuationType ==
    ASSUME StateOK, NEW r \in Runs, NEW t \in Topics, pc[r][t] # "none"
    PROVE  Continuation(r, t) \in Records
  BY MsgOfType DEF Continuation, Records, StateOK, TypeOK, GroupTypes

LEMMA GotGrows ==
    ASSUME StateOK, NEW n \in Msgs, NEW d \in Subs, got' = [got EXCEPT ![n][d] = @ + 1]
    PROVE  \A m \in Msgs, c \in Subs : got[m][c] > 0 => got'[m][c] > 0
<1>1. got \in [Msgs -> [Subs -> Nat]]
  BY DEF StateOK, TypeOK, HistTypes
<1>2. \A m \in Msgs, c \in Subs :
        got'[m][c] = IF m = n /\ c = d THEN got[m][c] + 1 ELSE got[m][c]
  BY <1>1, CountUp
<1>3. \A m \in Msgs, c \in Subs : got[m][c] \in Nat
  BY <1>1
<1> QED
  BY <1>2, <1>3

LEMMA NothingForgotten ==
    ASSUME StateOK, [Next]_vars
    PROVE  Remembered
<1>1. CASE UNCHANGED vars
  <2>1. UNCHANGED <<log, got, stranded, dlq, open>>
    BY <1>1 DEF vars, streamVars, tableVars, histVars
  <2> QED
    BY <2>1, LogKept DEF Remembered
<1>2. ASSUME NEW m \in Msgs, Publish(m) PROVE Remembered
  <2>1. [msg |-> m, cursor |-> 0] \in Records
    BY DEF Records
  <2>2. LogGrows
    BY <1>2, <2>1, LogAppended DEF Publish
  <2> QED
    BY <1>2, <2>2 DEF Publish, Remembered, tableVars
<1>3. ASSUME NEW t \in Topics, NEW c \in Subs, Join(t, c) \/ Leave(t, c) PROVE Remembered
  BY <1>3, LogKept DEF Join, Leave, Remembered, streamVars, histVars
<1>4. ASSUME NEW c \in Subs, HangUp(c) \/ Disconnected(c) PROVE Remembered
  BY <1>4, LogKept DEF HangUp, Disconnected, Remembered, streamVars, histVars
<1>5. ASSUME NEW r \in Runs, NEW t \in Topics,
             GroupStep(r, t) \/ Requeue(r, t) \/ GroupFault(r, t)
      PROVE  Remembered
  <2>1. CASE Requeue(r, t) \/ RequeueUnconfirmed(r, t)
    <3>1. pc[r][t] # "none"
      BY <2>1 DEF Requeue, RequeueUnconfirmed, PageDone, PageSettled
    <3>2. LogGrows
      BY <2>1, <3>1, ContinuationType, LogAppended DEF Requeue, RequeueUnconfirmed
    <3> QED
      BY <2>1, <3>2 DEF Requeue, RequeueUnconfirmed, Remembered, tableVars, histVars
  <2>2. ASSUME NEW c \in Subs, Send(r, t, c) \/ SendUnanswered(r, t, c) PROVE Remembered
    <3>1. pc[r][t] # "none"
      BY <2>2, HolderSends DEF Send, SendUnanswered
    <3>2. UNCHANGED <<log, stranded, dlq, open>>
      BY <2>2 DEF Send, SendUnanswered, streamVars, tableVars
    <3>3. got' = [got EXCEPT ![MsgOf(r, t)][c] = @ + 1]
      BY <2>2 DEF Send, SendUnanswered
    <3> QED
      BY <3>1, <3>2, <3>3, MsgOfType, GotGrows, LogKept DEF Remembered
  <2>3. ASSUME NEW c \in Subs,
               \/ Claim(r, t, c) \/ SendGone(r, t, c) \/ Reap(r, t, c) \/ Release(r, t, c)
               \/ ClaimFails(r, t, c) \/ ClaimUnconfirmed(r, t, c)
               \/ SendFails(r, t, c) \/ ReapFails(r, t, c) \/ ReleaseFails(r, t, c)
        PROVE  Remembered
    <3>1. UNCHANGED <<log, dlq, open, got>> /\ stranded \subseteq stranded'
      BY <2>3 DEF Claim, SendGone, Reap, Release, ClaimFails, ClaimUnconfirmed, SendFails,
                  ReapFails, ReleaseFails, streamVars, tableVars, histVars
    <3> QED
      BY <3>1, LogKept DEF Remembered
  <2>4. CASE \/ ReadPage(r, t) \/ NextBatch(r, t) \/ PageUnreadable(r, t) \/ PageFailed(r, t)
             \/ LastPageDone(r, t) \/ NextPage(r, t) \/ RequeueFails(r, t)
    BY <2>4, LogKept DEF ReadPage, NextBatch, PageUnreadable, PageFailed, LastPageDone,
         NextPage, RequeueFails, Remembered, streamVars, tableVars, histVars
  <2> QED
    BY <1>5, <2>1, <2>2, <2>3, <2>4 DEF GroupStep, GroupFault, DeliverStep
<1>6. CASE Discard
  BY <1>6, LogKept DEF Discard, Remembered, tableVars, histVars
<1>7. ASSUME NEW r \in Runs, EndRun(r) \/ Kill(r) \/ Abandon(r) PROVE Remembered
  <2>1. UNCHANGED <<log, got, open, dlq>> /\ stranded \subseteq stranded'
    BY <1>7 DEF EndRun, Kill, Abandon, tableVars, histVars
  <2> QED
    BY <2>1, LogKept DEF Remembered
<1>8. ASSUME NEW r \in Runs, NEW h \in 1..MaxLog, StartRun(r, h) PROVE Remembered
  BY <1>8, LogKept DEF StartRun, Remembered, streamVars, tableVars, histVars
<1>9. ASSUME NEW m \in Msgs, NEW c \in Subs, Expire(m, c) PROVE Remembered
  BY <1>9, LogKept DEF Expire, Remembered, streamVars, tableVars
<1> QED
  BY <1>1, <1>2, <1>3, <1>4, <1>5, <1>6, <1>7, <1>8, <1>9 DEF Next, Poll

-----------------------------------------------------------------------------
(* What a step of one group does to it, and that it leaves the others alone. *)

Same(q, u) == UNCHANGED <<pc[q][u], at[q][u], cur[q][u], next[q][u], task[q][u]>>
OthersSame(r, t) == \A q \in Runs, u \in Topics : ~(q = r /\ u = t) => Same(q, u)

\* A group that is left alone gives what it gave, and offers what it offered.
LEMMA SameGives ==
    ASSUME StateOK, LogGrows, NEW q \in Runs, NEW u \in Topics, Same(q, u), NEW m, NEW c
    PROVE  Gives(q, u, m, c)' <=> Gives(q, u, m, c)
<1>1. pc'[q][u] = pc[q][u] /\ at'[q][u] = at[q][u] /\ task'[q][u] = task[q][u]
  BY DEF Same
<1>2. pc[q][u] # "none" => MsgOf(q, u)' = MsgOf(q, u)
  <2>1. pc[q][u] # "none" => at[q][u] \in 1..Len(log)
    BY DEF StateOK, GroupsOK, AtOK
  <2> QED
    BY <1>1, <2>1 DEF LogGrows, MsgOf
<1> QED
  BY <1>1, <1>2 DEF Gives

LEMMA SameComes ==
    ASSUME NEW q \in Runs, NEW u \in Topics, Same(q, u), hi'[q] = hi[q], NEW i, NEW c
    PROVE  Comes(q, u, i, c)' <=> Comes(q, u, i, c)
  BY DEF Same, Comes, Offers

\* A record stays where it is.
LEMMA CarriesOn ==
    ASSUME StateOK, LogGrows, ckpt' = ckpt, NEW i, NEW m, NEW c, Carries(i, m, c)
    PROVE  Carries(i, m, c)'
  BY DEF Carries, LogGrows

\* A pair given by nobody any more is safe only by what is remembered.
LEMMA SafeStays ==
    ASSUME Remembered, NEW m \in Msgs, NEW c \in Subs, Safe(m, c),
           HeldLate(m, c) => Safe(m, c)'
    PROVE  Safe(m, c)'
  BY DEF Remembered, Safe, Excused, Stranded

PageStep(r, t) ==
    \/ ReadPage(r, t) \/ NextBatch(r, t)
    \/ PageUnreadable(r, t) \/ PageFailed(r, t) \/ LastPageDone(r, t) \/ NextPage(r, t)
    \/ Requeue(r, t) \/ RequeueFails(r, t) \/ RequeueUnconfirmed(r, t)

\* Where a record that is through leaves its group: at its topic's next record
\* of the batch, or with none left.
NoneLeft(r, t) == /\ pc'[r][t] = "none"
                  /\ \A i \in 1..Len(log) : TopicOf[log[i].msg] = t /\ i > at[r][t] => i > hi[r]
NextRecord(r, t) ==
    /\ pc'[r][t] = "page" /\ at'[r][t] \in 1..Len(log)
    /\ at[r][t] < at'[r][t] /\ at'[r][t] <= hi[r]
    /\ TopicOf[log[at'[r][t]].msg] = t /\ cur'[r][t] = log[at'[r][t]].cursor
    /\ \A i \in 1..Len(log) : TopicOf[log[i].msg] = t /\ i > at[r][t] => i > hi[r] \/ i >= at'[r][t]
Cleared(r, t) == task'[r][t] = NoTasks /\ next'[r][t] = 0

\* All a group keeps is set at once.
Sets(r, t, p, i, k, n) ==
    /\ pc' = [pc EXCEPT ![r][t] = p] /\ at' = [at EXCEPT ![r][t] = i]
    /\ cur' = [cur EXCEPT ![r][t] = k] /\ next' = [next EXCEPT ![r][t] = n]
    /\ task' = [task EXCEPT ![r][t] = NoTasks]
    /\ p \in {"none", "page", "failed"} /\ i \in Nat
    /\ k \in Subs \cup {0} /\ n \in Subs \cup {0}

\* What a page step does to its group, and to no other: its record fails, is
\* through, or goes on to the next page; or only the group's tasks change.
LEMMA GroupSet ==
    ASSUME StateOK, NEW r \in Runs, NEW t \in Topics, NEW p, NEW i, NEW k, NEW n,
           Sets(r, t, p, i, k, n)
    PROVE  /\ OthersSame(r, t)
           /\ pc'[r][t] = p /\ at'[r][t] = i /\ cur'[r][t] = k /\ next'[r][t] = n
           /\ task'[r][t] = NoTasks
<1> USE DEF StateOK, TypeOK, GroupTypes, Sets
<1>1. \A q \in Runs, u \in Topics : pc'[q][u] = IF q = r /\ u = t THEN p ELSE pc[q][u]
  BY GroupUpdate
<1>2. \A q \in Runs, u \in Topics : at'[q][u] = IF q = r /\ u = t THEN i ELSE at[q][u]
  BY GroupUpdate
<1>3. \A q \in Runs, u \in Topics : cur'[q][u] = IF q = r /\ u = t THEN k ELSE cur[q][u]
  BY GroupUpdate
<1>4. \A q \in Runs, u \in Topics : next'[q][u] = IF q = r /\ u = t THEN n ELSE next[q][u]
  BY GroupUpdate
<1>5. \A q \in Runs, u \in Topics : task'[q][u] = IF q = r /\ u = t THEN NoTasks ELSE task[q][u]
  BY NoTasksType, GroupUpdate
<1> QED
  BY <1>1, <1>2, <1>3, <1>4, <1>5 DEF OthersSame, Same

LEMMA RecordDoneTo ==
    ASSUME StateOK, NEW r \in Runs, NEW t \in Topics, pc[r][t] # "none", RecordDone(r, t)
    PROVE  OthersSame(r, t) /\ Cleared(r, t) /\ (NoneLeft(r, t) \/ NextRecord(r, t))
<1> DEFINE later == Entries(t, at[r][t] + 1, hi[r])
<1>1. at[r][t] \in 1..Len(log) /\ hi[r] \in Nat /\ hi[r] <= Len(log) /\ Len(log) \in Nat
  BY DEF StateOK, TypeOK, GroupsOK, BatchOK, AtOK, RunTypes, StreamTypes
<1>2. later \in SUBSET Nat
      /\ \A i \in later : i \in 1..Len(log) /\ TopicOf[log[i].msg] = t
  BY <1>1, EntriesAreRecords DEF StateOK, TypeOK
<1>3. \A i \in 1..Len(log) : i \in later <=> at[r][t] < i /\ i <= hi[r] /\ TopicOf[log[i].msg] = t
  BY <1>1 DEF Entries
<1> HIDE DEF later
<1>4. CASE later = {}
  <2>1. /\ pc' = [pc EXCEPT ![r][t] = "none"] /\ at' = [at EXCEPT ![r][t] = 0]
        /\ cur' = [cur EXCEPT ![r][t] = 0] /\ next' = [next EXCEPT ![r][t] = 0]
        /\ task' = [task EXCEPT ![r][t] = NoTasks]
    BY <1>4 DEF RecordDone, ClearTasks, later
  <2>2. OthersSame(r, t) /\ Cleared(r, t) /\ pc'[r][t] = "none"
    <3>1. Sets(r, t, "none", 0, 0, 0)
      BY <2>1 DEF Sets
    <3>2. OthersSame(r, t) /\ pc'[r][t] = "none" /\ next'[r][t] = 0 /\ task'[r][t] = NoTasks
      BY <3>1, GroupSet
    <3> QED
      BY <3>2 DEF Cleared
  <2>3. NoneLeft(r, t)
    BY <1>1, <1>3, <1>4, <2>2 DEF NoneLeft
  <2> QED
    BY <2>2, <2>3
<1>5. CASE later # {}
  <2>1. PICK i : i = MinOf(later)
    OBVIOUS
  <2>2. i \in later /\ i \in 1..Len(log) /\ i \in Nat /\ \A j \in later : i <= j
    BY <1>2, <1>5, <2>1, MinOfNat
  <2>3. /\ pc' = [pc EXCEPT ![r][t] = "page"] /\ at' = [at EXCEPT ![r][t] = i]
        /\ cur' = [cur EXCEPT ![r][t] = log[i].cursor] /\ next' = [next EXCEPT ![r][t] = 0]
        /\ task' = [task EXCEPT ![r][t] = NoTasks]
    BY <1>5, <2>1 DEF RecordDone, ClearTasks, later
  <2>4. log[i].cursor \in Subs \cup {0}
    BY <2>2, RecordFields DEF StateOK, TypeOK
  <2>5. /\ OthersSame(r, t) /\ Cleared(r, t)
        /\ pc'[r][t] = "page" /\ at'[r][t] = i /\ cur'[r][t] = log[i].cursor
    <3>1. Sets(r, t, "page", i, log[i].cursor, 0)
      BY <2>2, <2>3, <2>4 DEF Sets
    <3>2. /\ OthersSame(r, t) /\ task'[r][t] = NoTasks /\ next'[r][t] = 0
          /\ pc'[r][t] = "page" /\ at'[r][t] = i /\ cur'[r][t] = log[i].cursor
      BY <3>1, GroupSet
    <3> QED
      BY <3>2 DEF Cleared
  <2>6. NextRecord(r, t)
    <3>1. at[r][t] < i /\ i <= hi[r] /\ TopicOf[log[i].msg] = t
      BY <1>3, <2>2
    <3>2. ASSUME NEW j \in 1..Len(log), TopicOf[log[j].msg] = t, j > at[r][t]
          PROVE  j > hi[r] \/ j >= i
      BY <1>1, <1>3, <2>2, <3>2
    <3> QED
      BY <2>2, <2>5, <3>1, <3>2 DEF NextRecord
  <2> QED
    BY <2>5, <2>6
<1> QED
  BY <1>4, <1>5

LEMMA RecordFailedTo ==
    ASSUME StateOK, NEW r \in Runs, NEW t \in Topics, pc[r][t] # "none", RecordFailed(r, t)
    PROVE  /\ OthersSame(r, t) /\ Cleared(r, t)
           /\ pc'[r][t] = "failed" /\ at'[r][t] = at[r][t]
<1>1. at[r][t] \in Nat /\ at' = [at EXCEPT ![r][t] = at[r][t]]
  BY DEF RecordFailed, StateOK, TypeOK, GroupTypes
<1>2. Sets(r, t, "failed", at[r][t], 0, 0)
  BY <1>1 DEF RecordFailed, ClearTasks, Sets
<1>3. /\ OthersSame(r, t) /\ task'[r][t] = NoTasks /\ next'[r][t] = 0
      /\ pc'[r][t] = "failed" /\ at'[r][t] = at[r][t]
  BY <1>2, GroupSet
<1> QED
  BY <1>3 DEF Cleared

LEMMA NextPageTo ==
    ASSUME StateOK, NEW r \in Runs, NEW t \in Topics, NextPage(r, t)
    PROVE  /\ OthersSame(r, t) /\ Cleared(r, t)
           /\ pc'[r][t] = "page" /\ at'[r][t] = at[r][t] /\ cur'[r][t] = next[r][t]
<1>1. /\ at[r][t] \in Nat /\ at' = [at EXCEPT ![r][t] = at[r][t]]
      /\ next[r][t] \in Subs \cup {0}
  BY DEF NextPage, StateOK, TypeOK, GroupTypes
<1>2. Sets(r, t, "page", at[r][t], next[r][t], 0)
  BY <1>1 DEF NextPage, ClearTasks, Sets
<1>3. /\ OthersSame(r, t) /\ task'[r][t] = NoTasks /\ next'[r][t] = 0
      /\ pc'[r][t] = "page" /\ at'[r][t] = at[r][t] /\ cur'[r][t] = next[r][t]
  BY <1>2, GroupSet
<1> QED
  BY <1>3 DEF Cleared

\* Reading a page queues the subscribers of the page, up to the next cursor.
LEMMA ReadPageTo ==
    ASSUME StateOK, NEW r \in Runs, NEW t \in Topics, ReadPage(r, t)
    PROVE  /\ OthersSame(r, t)
           /\ pc'[r][t] = "send" /\ UNCHANGED <<at, cur>>
           /\ next'[r][t] \in Subs \cup {0}
           /\ \A c \in Subs : task'[r][t][c] \in {"idle", "queued"}
           /\ \A c \in members[t] : c > cur[r][t] =>
                task'[r][t][c] = "queued" \/ (next'[r][t] # 0 /\ next'[r][t] < c)
<1> DEFINE rows == {c \in members[t] : c > cur[r][t]}
           f(end) == [c \in Subs |-> IF c \in rows /\ (end = 0 \/ c <= end)
                                     THEN "queued" ELSE "idle"]
<1>1. members[t] \subseteq Subs /\ cur[r][t] \in Nat /\ \A c \in Subs : c \in Nat
  <2>1. members[t] \subseteq Subs
    BY DEF StateOK, TypeOK, TableTypes
  <2>2. cur[r][t] \in Subs \cup {0}
    BY DEF StateOK, TypeOK, GroupTypes
  <2> QED
    BY <2>1, <2>2, Numbered
<1>2. PICK end \in Subs \cup {0} :
        next' = [next EXCEPT ![r][t] = end] /\ task' = [task EXCEPT ![r][t] = f(end)]
  BY <1>1 DEF ReadPage
<1>3. f(end) \in [Subs -> TaskStates]
  BY DEF TaskStates
<1>4. PICK g : g = f(end)
  OBVIOUS
<1>5. /\ g \in [Subs -> TaskStates]
      /\ \A c \in Subs : g[c] = IF c \in rows /\ (end = 0 \/ c <= end) THEN "queued" ELSE "idle"
  BY <1>3, <1>4
<1>6. \A q \in Runs, u \in Topics : next'[q][u] = IF q = r /\ u = t THEN end ELSE next[q][u]
  BY <1>2, GroupUpdate DEF StateOK, TypeOK, GroupTypes
<1>7. \A q \in Runs, u \in Topics : task'[q][u] = IF q = r /\ u = t THEN g ELSE task[q][u]
  BY <1>2, <1>4, <1>5, GroupUpdate DEF StateOK, TypeOK, GroupTypes
<1>8. \A q \in Runs, u \in Topics : pc'[q][u] = IF q = r /\ u = t THEN "send" ELSE pc[q][u]
  <2>1. pc' = [pc EXCEPT ![r][t] = "send"]
    BY DEF ReadPage
  <2> QED
    BY <2>1, GroupUpdate DEF StateOK, TypeOK, GroupTypes
<1>9. at' = at /\ cur' = cur
  BY DEF ReadPage
<1>10. OthersSame(r, t)
  BY <1>6, <1>7, <1>8, <1>9 DEF OthersSame, Same
<1>11. ASSUME NEW c \in members[t], c > cur[r][t]
       PROVE  task'[r][t][c] = "queued" \/ (next'[r][t] # 0 /\ next'[r][t] < c)
  <2>1. task'[r][t][c] = g[c] /\ next'[r][t] = end /\ c \in Subs
    BY <1>1, <1>6, <1>7
  <2>2. c \in rows /\ c \in Nat /\ end \in Nat
    BY <1>1, <1>11, Numbered
  <2> QED
    BY <1>5, <2>1, <2>2
<1>12. \A c \in Subs : task'[r][t][c] \in {"idle", "queued"}
  BY <1>5, <1>7
<1> QED
  BY <1>6, <1>8, <1>9, <1>10, <1>11, <1>12

LEMMA NextBatchTo ==
    ASSUME StateOK, NEW r \in Runs, NEW t \in Topics, NextBatch(r, t)
    PROVE  /\ OthersSame(r, t)
           /\ pc[r][t] = "send" /\ UNCHANGED <<pc, at, cur, next>>
           /\ \A c \in Subs : task[r][t][c] \notin InFlight
           /\ \A c \in Subs : \/ task'[r][t][c] = task[r][t][c]
                              \/ task'[r][t][c] = "todo" /\ task[r][t][c] = "queued"
<1>1. PICK batch \in SUBSET {c \in Subs : task[r][t][c] = "queued"} :
        task' = [task EXCEPT ![r][t] = [c \in Subs |-> IF c \in batch THEN "todo" ELSE task[r][t][c]]]
  BY DEF NextBatch
<1>2. PICK g : g = [c \in Subs |-> IF c \in batch THEN "todo" ELSE task[r][t][c]]
  OBVIOUS
<1>3. task[r][t] \in [Subs -> TaskStates] /\ "todo" \in TaskStates
  BY DEF StateOK, TypeOK, GroupTypes, TaskStates, InFlight
<1>4. /\ g \in [Subs -> TaskStates]
      /\ \A c \in Subs : g[c] = IF c \in batch THEN "todo" ELSE task[r][t][c]
  BY <1>2, <1>3
<1>5. \A q \in Runs, u \in Topics : task'[q][u] = IF q = r /\ u = t THEN g ELSE task[q][u]
  BY <1>1, <1>2, <1>4, GroupUpdate DEF StateOK, TypeOK, GroupTypes
<1>6. /\ pc[r][t] = "send" /\ UNCHANGED <<pc, at, cur, next>>
      /\ \A c \in Subs : task[r][t][c] \notin InFlight
  BY DEF NextBatch, groupVars
<1>7. OthersSame(r, t)
  BY <1>5, <1>6 DEF OthersSame, Same
<1>8. \A c \in Subs : \/ task'[r][t][c] = task[r][t][c]
                      \/ task'[r][t][c] = "todo" /\ task[r][t][c] = "queued"
  BY <1>4, <1>5
<1> QED
  BY <1>6, <1>7, <1>8

\* A page step concerns one group, which holds no claim before or after it.
LEMMA PageStepTo ==
    ASSUME StateOK, NEW r \in Runs, NEW t \in Topics, PageStep(r, t)
    PROVE  /\ OthersSame(r, t)
           /\ UNCHANGED <<ckpt, dlq, run, hi, members, open, ledger, got, owed, stranded,
                          unacked, expired>>
           /\ pc[r][t] \in {"page", "send"}
           /\ \A c \in Subs : task[r][t][c] \notin Holding /\ task'[r][t][c] \notin Holding
<1>1. UNCHANGED <<ckpt, dlq, run, hi, members, open, ledger, got, owed, stranded, unacked, expired>>
  BY DEF PageStep, ReadPage, NextBatch, PageUnreadable, PageFailed, LastPageDone, NextPage,
         Requeue, RequeueFails, RequeueUnconfirmed, streamVars, tableVars, histVars
<1>2. pc[r][t] \in {"page", "send"}
  BY DEF PageStep, ReadPage, NextBatch, PageUnreadable, PageFailed, LastPageDone, NextPage,
         Requeue, RequeueFails, RequeueUnconfirmed, PageDone, PageSettled
<1>3. \A c \in Subs : task[r][t][c] \notin Holding
  <2>1. CASE pc[r][t] = "page"
    <3>1. task[r][t] = NoTasks
      BY <2>1 DEF StateOK, GroupsOK, TasksOK
    <3> QED
      BY <3>1 DEF NoTasks, Holding
  <2>2. CASE pc[r][t] = "send"
    BY <2>2 DEF PageStep, ReadPage, NextBatch, PageUnreadable, PageFailed, LastPageDone, NextPage,
         Requeue, RequeueFails, RequeueUnconfirmed, PageDone, PageSettled, InFlight, Holding
  <2> QED
    BY <1>2, <2>1, <2>2
<1>4. OthersSame(r, t) /\ \A c \in Subs : task'[r][t][c] \notin Holding
  <2>1. pc[r][t] # "none" /\ \A c \in Subs : NoTasks[c] \notin Holding
    BY <1>2 DEF NoTasks, Holding
  <2>2. CASE ReadPage(r, t)
    BY <2>2, ReadPageTo DEF Holding
  <2>3. CASE NextBatch(r, t)
    BY <1>3, <2>3, NextBatchTo DEF Holding
  <2>4. CASE NextPage(r, t)
    BY <2>1, <2>4, NextPageTo DEF Cleared
  <2>5. CASE RecordFailed(r, t)
    BY <2>1, <2>5, RecordFailedTo DEF Cleared
  <2>6. CASE RecordDone(r, t)
    BY <2>1, <2>6, RecordDoneTo DEF Cleared
  <2> QED
    BY <2>2, <2>3, <2>4, <2>5, <2>6 DEF PageStep, PageUnreadable, PageFailed, LastPageDone,
       Requeue, RequeueFails, RequeueUnconfirmed
<1> QED
  BY <1>1, <1>2, <1>3, <1>4

\* A group whose page settled without a failure offers its record to nobody
\* but the subscribers after the next cursor.
LEMMA SettledPageOffers ==
    ASSUME NEW r \in Runs, NEW t \in Topics, NEW c \in Subs,
           PageSettled(r, t), ~AnyFailed(r, t), Offers(r, t, c)
    PROVE  next[r][t] # 0 /\ next[r][t] < c
<1>1. pc[r][t] = "send" /\ task[r][t][c] \in {"idle", "done"}
  BY DEF PageSettled, AnyFailed
<1> QED
  BY <1>1 DEF Offers, Owing

\* The continuation of a record comes to whoever the page left out.
LEMMA ContinuationComes ==
    ASSUME StateOK, NEW r \in Runs, NEW t \in Topics, NEW m \in Msgs, NEW c \in Subs,
           Requeue(r, t), TopicOf[m] = t, m = MsgOf(r, t), next[r][t] < c
    PROVE  Pending(m, c)'
<1>1. pc[r][t] # "none"
  BY DEF Requeue, PageDone, PageSettled
<1>2. /\ LogGrows /\ Len(log') = Len(log) + 1
      /\ log'[Len(log) + 1] = Continuation(r, t)
  BY <1>1, ContinuationType, LogAppended DEF Requeue
<1>3. /\ log'[Len(log) + 1].msg = m /\ log'[Len(log) + 1].cursor = next[r][t]
  BY <1>2 DEF Continuation
<1>4. /\ ckpt' = ckpt /\ ckpt \in Nat /\ ckpt <= Len(log) /\ Len(log) \in Nat
      /\ run' = run /\ hi' = hi
  BY DEF Requeue, StateOK, TypeOK, StreamTypes
<1>5. PICK j \in Nat : j = Len(log) + 1
  BY <1>4
<1>6. Carries(j, m, c)'
  BY <1>2, <1>3, <1>4, <1>5 DEF Carries
<1>7. \A q \in Runs : Comes(q, t, j, c)'
  <2> SUFFICES ASSUME NEW q \in Runs PROVE j > hi'[q]
    BY DEF Comes
  <2>1. hi[q] \in Nat /\ hi[q] <= Len(log)
    BY DEF StateOK, TypeOK, RunTypes, GroupsOK, BatchOK
  <2> QED
    BY <1>4, <1>5, <2>1
<1> QED
  BY <1>6, <1>7 DEF Pending

\* Whatever the running invocation's group does, a record that comes to a
\* subscriber still does afterwards, or its continuation does.
LEMMA PageComes ==
    ASSUME StateOK, AtInBatch, NEW r \in Runs, NEW t \in Topics, PageStep(r, t),
           NEW m \in Msgs, NEW c \in Subs, NEW i \in Nat,
           TopicOf[m] = t, c \in members[t], Carries(i, m, c), Comes(r, t, i, c)
    PROVE  Comes(r, t, i, c)' \/ Pending(m, c)'
<1>1. /\ hi' = hi /\ pc[r][t] \in {"page", "send"}
  BY PageStepTo
<1>2. CASE i > hi[r]
  BY <1>1, <1>2 DEF Comes
<1>3. /\ at[r][t] \in Nat /\ i \in 1..Len(log) /\ log[i].msg = m /\ log[i].cursor < c
      /\ next[r][t] \in Nat /\ cur[r][t] \in Nat /\ c \in Nat
  BY Numbered DEF Carries, StateOK, TypeOK, GroupTypes
<1>4. CASE RecordDone(r, t) /\ i > at[r][t]
  <2>1. NoneLeft(r, t) \/ NextRecord(r, t)
    BY <1>1, <1>4, RecordDoneTo
  <2>2. i > hi[r] \/ (pc'[r][t] = "page" /\ i > at'[r][t])
        \/ (pc'[r][t] = "page" /\ i = at'[r][t] /\ cur'[r][t] = log[i].cursor)
    BY <1>3, <1>4, <2>1 DEF NoneLeft, NextRecord
  <2> QED
    BY <1>1, <1>3, <2>2 DEF Comes, Offers
<1>5. CASE ~RecordDone(r, t) /\ i > at[r][t]
  <2>1. pc'[r][t] # "none" /\ at'[r][t] = at[r][t]
    <3>1. CASE ReadPage(r, t)
      BY <3>1, ReadPageTo
    <3>2. CASE NextBatch(r, t)
      BY <3>2, NextBatchTo
    <3>3. CASE NextPage(r, t)
      BY <3>3, NextPageTo
    <3>4. CASE RecordFailed(r, t)
      BY <1>1, <3>4, RecordFailedTo
    <3> QED
      BY <1>5, <3>1, <3>2, <3>3, <3>4 DEF PageStep, PageUnreadable, PageFailed, LastPageDone,
         Requeue, RequeueFails, RequeueUnconfirmed
  <2> QED
    BY <1>5, <2>1 DEF Comes
<1>6. CASE i = at[r][t] /\ Offers(r, t, c)
  <2>1. MsgOf(r, t) = m
    BY <1>3, <1>6 DEF MsgOf
  <2>2. CASE ReadPage(r, t)
    <3>1. pc[r][t] = "page"
      BY <2>2 DEF ReadPage
    <3>2. cur[r][t] < c
      BY <1>6, <3>1 DEF Offers
    <3>3. /\ pc'[r][t] = "send" /\ at' = at
          /\ task'[r][t][c] = "queued" \/ (next'[r][t] # 0 /\ next'[r][t] < c)
      BY <1>3, <2>2, <3>2, ReadPageTo
    <3> QED
      BY <1>6, <3>3 DEF Comes, Offers, Owing
  <2>3. CASE NextBatch(r, t)
    <3>1. /\ pc[r][t] = "send" /\ UNCHANGED <<pc, at, next>>
          /\ task'[r][t][c] = task[r][t][c] \/ task'[r][t][c] = "todo"
      BY <2>3, NextBatchTo
    <3> QED
      BY <1>6, <3>1 DEF Comes, Offers, Owing
  <2>4. CASE RecordFailed(r, t)
    <3>1. pc'[r][t] = "failed" /\ at'[r][t] = at[r][t]
      BY <1>1, <2>4, RecordFailedTo
    <3> QED
      BY <1>6, <3>1 DEF Comes, Offers
  <2>5. CASE NextPage(r, t)
    <3>1. next[r][t] < c
      BY <1>6, <2>5, SettledPageOffers DEF NextPage, PageDone
    <3>2. pc'[r][t] = "page" /\ at'[r][t] = at[r][t] /\ cur'[r][t] = next[r][t]
      BY <2>5, NextPageTo
    <3> QED
      BY <1>6, <3>1, <3>2 DEF Comes, Offers
  <2>6. CASE LastPageDone(r, t)
    BY <1>6, <2>6, SettledPageOffers DEF LastPageDone
  <2>7. CASE Requeue(r, t)
    <3>1. next[r][t] < c
      BY <1>6, <2>7, SettledPageOffers DEF Requeue, PageDone
    <3> QED
      BY <2>1, <2>7, <3>1, ContinuationComes
  <2> QED
    BY <2>2, <2>3, <2>4, <2>5, <2>6, <2>7 DEF PageStep, PageUnreadable, PageFailed,
       RequeueFails, RequeueUnconfirmed
<1> QED
  BY <1>1, <1>2, <1>3, <1>4, <1>5, <1>6 DEF Comes

\* The step of one group, seen by one pair: it is enough to look at what the
\* group gives, and at the record the group offers it.
LEMMA GroupSafe ==
    ASSUME StateOK, Remembered, NEW r \in Runs, NEW t \in Topics, OthersSame(r, t), run' = run,
           NEW m \in Msgs, NEW c \in Subs, Safe(m, c),
           run[r] = "abandoned" /\ Gives(r, t, m, c) => Safe(m, c)'
    PROVE  Safe(m, c)'
<1>1. ASSUME HeldLate(m, c) PROVE Safe(m, c)'
  <2>1. PICK q \in Runs, u \in Topics : run[q] = "abandoned" /\ Gives(q, u, m, c)
    BY <1>1 DEF HeldLate
  <2>2. CASE q = r /\ u = t
    BY <2>1, <2>2
  <2>3. CASE ~(q = r /\ u = t)
    <3>1. Gives(q, u, m, c)'
      BY <2>1, <2>3, SameGives DEF OthersSame, Remembered
    <3> QED
      BY <2>1, <3>1 DEF HeldLate, Safe
  <2> QED
    BY <2>2, <2>3
<1> QED
  BY <1>1, SafeStays

LEMMA GroupPending ==
    ASSUME StateOK, LogGrows, NEW r \in Runs, NEW t \in Topics, OthersSame(r, t),
           UNCHANGED <<ckpt, run, hi>>, NEW m \in Msgs, NEW c \in Subs, Pending(m, c),
           \A i \in Nat : Carries(i, m, c) /\ TopicOf[m] = t /\ run[r] = "active"
                            /\ Comes(r, t, i, c)
                          => Comes(r, t, i, c)' \/ Safe(m, c)' \/ Pending(m, c)'
    PROVE  Safe(m, c)' \/ Pending(m, c)'
<1>1. PICK i \in Nat : /\ Carries(i, m, c)
                       /\ \A q \in Runs : run[q] = "active" => Comes(q, TopicOf[m], i, c)
  BY DEF Pending
<1> SUFFICES ASSUME ~Safe(m, c)', ~Pending(m, c)' PROVE FALSE
  OBVIOUS
<1>2. Carries(i, m, c)'
  BY <1>1, CarriesOn
<1>3. ASSUME NEW q \in Runs, run'[q] = "active" PROVE Comes(q, TopicOf[m], i, c)'
  <2>1. run[q] = "active" /\ Comes(q, TopicOf[m], i, c)
    BY <1>1, <1>3
  <2>2. CASE q = r /\ TopicOf[m] = t
    BY <1>1, <2>1, <2>2
  <2>3. CASE ~(q = r /\ TopicOf[m] = t)
    <3>1. Same(q, TopicOf[m]) /\ hi'[q] = hi[q]
      BY <2>3, TopicType DEF OthersSame
    <3> QED
      BY <2>1, <3>1, TopicType, SameComes
  <2> QED
    BY <2>2, <2>3
<1> QED
  BY <1>2, <1>3 DEF Pending

\* The claims in the ledger stay somebody's, if those the group gave do.
LEMMA GroupClaims ==
    ASSUME StateOK, Remembered, ClaimsServed, NEW r \in Runs, NEW t \in Topics, OthersSame(r, t),
           \A m \in Msgs, c \in Subs : <<m, c>> \in ledger' =>
              \/ <<m, c>> \in ledger /\ ~Gives(r, t, m, c)
              \/ Gives(r, t, m, c)' \/ got'[m][c] > 0 \/ Stranded(m, c)' \/ c \notin open'
    PROVE  ClaimsServed'
<1> SUFFICES ASSUME NEW m \in Msgs, NEW c \in Subs, <<m, c>> \in ledger'
             PROVE  \/ got'[m][c] > 0 \/ Stranded(m, c)' \/ c \notin open'
                    \/ \E q \in Runs, u \in Topics : Gives(q, u, m, c)'
  BY DEF ClaimsServed
<1>1. CASE <<m, c>> \in ledger /\ ~Gives(r, t, m, c)
  <2>1. \/ got[m][c] > 0 \/ Stranded(m, c) \/ c \notin open
        \/ \E q \in Runs, u \in Topics : Gives(q, u, m, c)
    BY <1>1 DEF ClaimsServed
  <2>2. CASE \E q \in Runs, u \in Topics : Gives(q, u, m, c)
    <3>1. PICK q \in Runs, u \in Topics : Gives(q, u, m, c)
      BY <2>2
    <3>2. Same(q, u)
      BY <1>1, <3>1 DEF OthersSame
    <3> QED
      BY <3>1, <3>2, SameGives DEF Remembered
  <2>3. CASE got[m][c] > 0 \/ Stranded(m, c) \/ c \notin open
    BY <2>3 DEF Remembered, Stranded
  <2> QED
    BY <2>1, <2>2, <2>3
<1> QED
  BY <1>1

LEMMA PageKeeps ==
    ASSUME StateOK, CoverOK, Remembered, NEW r \in Runs, NEW t \in Topics, PageStep(r, t)
    PROVE  CoverOK'
<1>1. /\ OthersSame(r, t)
      /\ UNCHANGED <<ckpt, dlq, run, hi, members, open, ledger, got, owed, stranded,
                     unacked, expired>>
      /\ pc[r][t] \in {"page", "send"}
      /\ \A c \in Subs : task[r][t][c] \notin Holding /\ task'[r][t][c] \notin Holding
  BY PageStepTo
<1>2. OwedSubscribed'
  BY <1>1 DEF CoverOK, OwedSubscribed
<1>3. ReapingClosed'
  <2> SUFFICES ASSUME NEW q \in Runs, NEW u \in Topics, NEW c \in Subs, task'[q][u][c] = "reaping"
               PROVE  c \notin open
    BY <1>1 DEF ReapingClosed
  <2>1. ~(q = r /\ u = t)
    BY <1>1 DEF Holding
  <2>2. task'[q][u] = task[q][u]
    BY <1>1, <2>1 DEF OthersSame, Same
  <2> QED
    BY <2>2 DEF CoverOK, ReapingClosed
<1>4. AtInBatch'
  <2> SUFFICES ASSUME NEW q \in Runs, NEW u \in Topics, run[q] = "active", pc'[q][u] # "none"
               PROVE  ckpt < at'[q][u] /\ at'[q][u] <= hi[q]
    BY <1>1 DEF AtInBatch
  <2>1. CASE ~(q = r /\ u = t)
    BY <1>1, <2>1 DEF OthersSame, Same, CoverOK, AtInBatch
  <2>2. CASE q = r /\ u = t
    <3>1. ckpt < at[r][t] /\ at[r][t] <= hi[r]
      BY <1>1, <2>2 DEF CoverOK, AtInBatch
    <3>2. at'[r][t] = at[r][t] \/ NextRecord(r, t)
      <4>1. CASE ReadPage(r, t)
        BY <4>1, ReadPageTo
      <4>2. CASE NextBatch(r, t)
        BY <4>2, NextBatchTo
      <4>3. CASE NextPage(r, t)
        BY <4>3, NextPageTo
      <4>4. CASE RecordFailed(r, t)
        BY <1>1, <4>4, RecordFailedTo
      <4>5. CASE RecordDone(r, t)
        <5>1. NoneLeft(r, t) \/ NextRecord(r, t)
          BY <1>1, <4>5, RecordDoneTo
        <5> QED
          BY <2>2, <5>1 DEF NoneLeft
      <4> QED
        BY <4>1, <4>2, <4>3, <4>4, <4>5 DEF PageStep, PageUnreadable, PageFailed, LastPageDone,
           Requeue, RequeueFails, RequeueUnconfirmed
    <3>3. ckpt \in Nat /\ at[r][t] \in Nat /\ hi[r] \in Nat
      BY DEF StateOK, TypeOK, StreamTypes, RunTypes, GroupTypes
    <3>4. NextRecord(r, t) => at'[r][t] \in Nat /\ at[r][t] < at'[r][t] /\ at'[r][t] <= hi[r]
      BY DEF NextRecord
    <3> QED
      BY <2>2, <3>1, <3>2, <3>3, <3>4
  <2> QED
    BY <2>1, <2>2
<1>5. IdleEmpty'
  <2>1. run[r] # "idle"
    BY <1>1 DEF CoverOK, IdleEmpty
  <2> QED
    BY <1>1, <2>1 DEF OthersSame, Same, CoverOK, IdleEmpty
<1>6. \A m \in Msgs, c \in Subs : ~Gives(r, t, m, c)
  BY <1>1 DEF Gives
<1>7. ClaimsServed'
  BY <1>1, <1>6, GroupClaims DEF CoverOK
<1>8. Covered'
  <2> SUFFICES ASSUME NEW m \in Msgs, NEW c \in Subs, <<m, c>> \in owed
               PROVE  Safe(m, c)' \/ Pending(m, c)'
    BY <1>1 DEF Covered
  <2>1. CASE Safe(m, c)
    BY <1>1, <1>6, <2>1, GroupSafe
  <2>2. CASE Pending(m, c)
    <3>1. c \in members[TopicOf[m]]
      BY DEF CoverOK, OwedSubscribed
    <3>2. \A i \in Nat : Carries(i, m, c) /\ TopicOf[m] = t /\ run[r] = "active"
                            /\ Comes(r, t, i, c)
                         => Comes(r, t, i, c)' \/ Safe(m, c)' \/ Pending(m, c)'
      BY <3>1, PageComes DEF CoverOK
    <3> QED
      BY <1>1, <2>2, <3>2, GroupPending DEF Remembered
  <2> QED
    BY <2>1, <2>2 DEF CoverOK, Covered
<1> QED
  BY <1>2, <1>3, <1>4, <1>5, <1>7, <1>8 DEF CoverOK

-----------------------------------------------------------------------------
(* The steps of deliverOne.                                                  *)

DeliverAny(r, t, c) ==
    \/ DeliverStep(r, t, c) \/ ClaimFails(r, t, c) \/ ClaimUnconfirmed(r, t, c)
    \/ SendFails(r, t, c) \/ SendUnanswered(r, t, c)
    \/ ReapFails(r, t, c) \/ ReleaseFails(r, t, c)

\* All of them turn one task of one group, which is sending.
Turns(r, t, c, s) ==
    /\ pc[r][t] = "send" /\ OthersSame(r, t)
    /\ pc'[r][t] = "send" /\ at'[r][t] = at[r][t] /\ next'[r][t] = next[r][t]
    /\ task'[r][t][c] = s
    /\ \A d \in Subs : d # c => task'[r][t][d] = task[r][t][d]
    /\ UNCHANGED <<log, ckpt, run, hi, owed, dlq, open>>

LEMMA TurnsTask ==
    ASSUME StateOK, NEW r \in Runs, NEW t \in Topics, NEW c \in Subs, NEW s,
           s \in TaskStates, SetTask(r, t, c, s), DeliverAny(r, t, c)
    PROVE  Turns(r, t, c, s)
<1>1. /\ UNCHANGED <<log, ckpt, run, hi, owed, dlq, open, pc, at, cur, next>>
      /\ task[r][t][c] # "idle"
  BY DEF DeliverAny, DeliverStep, Claim, Send, SendGone, Reap, Release, ClaimFails,
         ClaimUnconfirmed, SendFails, SendUnanswered, ReapFails, ReleaseFails,
         streamVars, tableVars, groupVars, histVars
<1>2. /\ pc[r][t] = "send"
      /\ \A q \in Runs, u \in Topics, d \in Subs :
           task'[q][u][d] = IF q = r /\ u = t /\ d = c THEN s ELSE task[q][u][d]
      /\ task' \in [Runs -> [Topics -> [Subs -> TaskStates]]]
  BY <1>1, SetTaskMoves
<1>3. ASSUME NEW q \in Runs, NEW u \in Topics, ~(q = r /\ u = t)
      PROVE  task'[q][u] = task[q][u]
  <2>1. task[q][u] \in [Subs -> TaskStates] /\ task'[q][u] \in [Subs -> TaskStates]
    BY <1>2 DEF StateOK, TypeOK, GroupTypes
  <2>2. \A d \in Subs : task'[q][u][d] = task[q][u][d]
    BY <1>2, <1>3
  <2> QED
    BY <2>1, <2>2
<1>4. OthersSame(r, t)
  BY <1>1, <1>3 DEF OthersSame, Same
<1> QED
  BY <1>1, <1>2, <1>4 DEF Turns

\* The pair the task is for decides: a turn keeps the invariant when the pair
\* is still given, offered or accounted for after it.
LEMMA TurnKeeps ==
    ASSUME StateOK, CoverOK, Remembered, NEW r \in Runs, NEW t \in Topics, NEW c \in Subs, NEW s,
           NEW n, n = MsgOf(r, t), Turns(r, t, c, s),
           <<n, c>> \in owed /\ run[r] = "abandoned" /\ task[r][t][c] \in Holding
              => s \in Holding \/ Safe(n, c)',
           <<n, c>> \in owed /\ run[r] = "active" /\ task[r][t][c] \in Owing
              => s \in Owing \/ Safe(n, c)',
           s = "reaping" => c \notin open,
           ledger' \subseteq ledger \cup {<<n, c>>},
           <<n, c>> \in ledger' =>
              \/ <<n, c>> \in ledger /\ task[r][t][c] \notin Holding
              \/ s \in Holding \/ got'[n][c] > 0 \/ Stranded(n, c)' \/ c \notin open,
           \A u \in Topics : members'[u] = members[u] \/ (members'[u] = members[u] \ {c} /\ c \notin open)
    PROVE  CoverOK'
<1>1. /\ pc[r][t] = "send" /\ OthersSame(r, t)
      /\ pc'[r][t] = "send" /\ at'[r][t] = at[r][t] /\ next'[r][t] = next[r][t]
      /\ task'[r][t][c] = s
      /\ \A d \in Subs : d # c => task'[r][t][d] = task[r][t][d]
      /\ UNCHANGED <<log, ckpt, run, hi, owed, dlq, open>>
  BY DEF Turns
<1>2. OwedSubscribed'
  <2> SUFFICES ASSUME NEW m \in Msgs, NEW d \in Subs, <<m, d>> \in owed
               PROVE  d \in open /\ d \in members'[TopicOf[m]]
    BY <1>1 DEF OwedSubscribed
  <2>1. d \in open /\ d \in members[TopicOf[m]]
    BY DEF CoverOK, OwedSubscribed
  <2>2. TopicOf[m] \in Topics
    BY TopicType
  <2> QED
    BY <2>1, <2>2
<1>3. ReapingClosed'
  <2> SUFFICES ASSUME NEW q \in Runs, NEW u \in Topics, NEW d \in Subs, task'[q][u][d] = "reaping"
               PROVE  d \notin open
    BY <1>1 DEF ReapingClosed
  <2>1. CASE q = r /\ u = t /\ d = c
    BY <1>1, <2>1
  <2>2. CASE ~(q = r /\ u = t /\ d = c)
    <3>1. task[q][u][d] = "reaping"
      BY <1>1, <2>2 DEF OthersSame, Same
    <3> QED
      BY <3>1 DEF CoverOK, ReapingClosed
  <2> QED
    BY <2>1, <2>2
<1>4. AtInBatch'
  <2> SUFFICES ASSUME NEW q \in Runs, NEW u \in Topics, run[q] = "active", pc'[q][u] # "none"
               PROVE  ckpt < at'[q][u] /\ at'[q][u] <= hi[q]
    BY <1>1 DEF AtInBatch
  <2>1. pc[q][u] # "none" /\ at'[q][u] = at[q][u]
    BY <1>1 DEF OthersSame, Same
  <2> QED
    BY <2>1 DEF CoverOK, AtInBatch
<1>5. IdleEmpty'
  <2>1. run[r] # "idle"
    BY <1>1 DEF CoverOK, IdleEmpty
  <2> QED
    BY <1>1, <2>1 DEF OthersSame, Same, CoverOK, IdleEmpty
<1>6. n \in Msgs /\ MsgOf(r, t)' = n
  BY <1>1, MsgOfType DEF MsgOf
<1>7. \A m \in Msgs, d \in Subs : Gives(r, t, m, d) <=> m = n /\ task[r][t][d] \in Holding
  BY <1>1 DEF Gives
<1>8. \A m \in Msgs, d \in Subs : Gives(r, t, m, d)' <=> m = n /\ task'[r][t][d] \in Holding
  BY <1>1, <1>6 DEF Gives
<1>9. ClaimsServed'
  <2>1. ASSUME NEW m \in Msgs, NEW d \in Subs, <<m, d>> \in ledger'
        PROVE  \/ <<m, d>> \in ledger /\ ~Gives(r, t, m, d)
               \/ Gives(r, t, m, d)' \/ got'[m][d] > 0 \/ Stranded(m, d)' \/ d \notin open'
    <3>1. CASE m = n /\ d = c
      BY <1>1, <1>7, <1>8, <2>1, <3>1
    <3>2. CASE ~(m = n /\ d = c)
      <4>1. <<m, d>> \in ledger
        BY <2>1, <3>2
      <4>2. Gives(r, t, m, d) => Gives(r, t, m, d)'
        BY <1>1, <1>7, <1>8, <3>2
      <4> QED
        BY <4>1, <4>2
    <3> QED
      BY <3>1, <3>2
  <2> QED
    BY <1>1, <2>1, GroupClaims DEF CoverOK
<1>10. Covered'
  <2> SUFFICES ASSUME NEW m \in Msgs, NEW d \in Subs, <<m, d>> \in owed
               PROVE  Safe(m, d)' \/ Pending(m, d)'
    BY <1>1 DEF Covered
  <2>1. CASE Safe(m, d)
    <3>1. ASSUME run[r] = "abandoned", Gives(r, t, m, d) PROVE Safe(m, d)'
      <4>1. m = n /\ task[r][t][d] \in Holding
        BY <1>7, <3>1
      <4>2. CASE d = c
        <5>1. s \in Holding \/ Safe(m, d)'
          BY <3>1, <4>1, <4>2
        <5>2. s \in Holding => Gives(r, t, m, d)'
          BY <1>1, <1>8, <4>1, <4>2
        <5> QED
          BY <1>1, <3>1, <5>1, <5>2 DEF Safe, HeldLate
      <4>3. CASE d # c
        <5>1. Gives(r, t, m, d)'
          BY <1>1, <1>8, <4>1, <4>3
        <5> QED
          BY <1>1, <3>1, <5>1 DEF Safe, HeldLate
      <4> QED
        BY <4>2, <4>3
    <3> QED
      BY <1>1, <2>1, <3>1, GroupSafe
  <2>2. CASE Pending(m, d)
    <3>1. ASSUME NEW i \in Nat, Carries(i, m, d), TopicOf[m] = t, run[r] = "active",
                 Comes(r, t, i, d)
          PROVE  Comes(r, t, i, d)' \/ Safe(m, d)' \/ Pending(m, d)'
      <4>1. CASE i > hi[r] \/ i > at[r][t]
        BY <1>1, <4>1 DEF Comes
      <4>2. CASE i = at[r][t] /\ Offers(r, t, d)
        <5>1. m = n
          BY <3>1, <4>2 DEF Carries, MsgOf
        <5>2. \/ task[r][t][d] \in Owing
              \/ next[r][t] # 0 /\ next[r][t] < d
          BY <1>1, <4>2 DEF Offers
        <5>3. CASE next[r][t] # 0 /\ next[r][t] < d
          BY <1>1, <4>2, <5>3 DEF Comes, Offers
        <5>4. CASE task[r][t][d] \in Owing
          <6>1. task'[r][t][d] \in Owing \/ Safe(m, d)'
            BY <1>1, <3>1, <5>1, <5>4
          <6> QED
            BY <1>1, <4>2, <6>1 DEF Comes, Offers
        <5> QED
          BY <5>2, <5>3, <5>4
      <4> QED
        BY <3>1, <4>1, <4>2 DEF Comes
    <3> QED
      BY <1>1, <2>2, <3>1, GroupPending DEF Remembered
  <2> QED
    BY <2>1, <2>2 DEF CoverOK, Covered
<1> QED
  BY <1>2, <1>3, <1>4, <1>5, <1>9, <1>10 DEF CoverOK

\* A pair found claimed by the running invocation is served, or in the hands
\* of an invocation the poller lost sight of.
LEMMA ClaimedIsSafe ==
    ASSUME StateOK, CoverOK, NEW r \in Runs, NEW t \in Topics, NEW c \in Subs,
           NEW n \in Msgs, n = MsgOf(r, t), run[r] = "active", pc[r][t] # "none",
           task[r][t][c] = "todo", <<n, c>> \in ledger, <<n, c>> \in owed
    PROVE  Safe(n, c)
<1>1. c \in open
  BY DEF CoverOK, OwedSubscribed
<1>2. CASE \E q \in Runs, u \in Topics : Gives(q, u, n, c)
  <2>1. PICK q \in Runs, u \in Topics : Gives(q, u, n, c)
    BY <1>2
  <2>2. pc[q][u] = "send" /\ MsgOf(q, u) = n /\ task[q][u][c] \in Holding
    BY <2>1 DEF Gives
  <2>3. u = t
    BY <2>2, MsgOfType
  <2>4. q # r
    BY <2>2, <2>3 DEF Holding
  <2>5. run[q] # "idle" /\ run[q] # "active"
    BY <2>2, <2>4 DEF CoverOK, IdleEmpty, StateOK, TypeOK, RunTypes
  <2>6. run[q] = "abandoned"
    BY <2>5 DEF StateOK, TypeOK, RunTypes
  <2> QED
    BY <2>1, <2>6 DEF Safe, HeldLate
<1> QED
  BY <1>1, <1>2 DEF CoverOK, ClaimsServed, Safe, Excused

LEMMA DeliverKeeps ==
    ASSUME StateOK, CoverOK, Remembered, NEW r \in Runs, NEW t \in Topics, NEW c \in Subs,
           DeliverAny(r, t, c)
    PROVE  CoverOK'
<1>1. PICK n : n = MsgOf(r, t)
  OBVIOUS
<1>2. pc[r][t] = "send"
  BY HolderSends DEF DeliverAny, DeliverStep, Claim, Send, SendGone, Reap, Release, ClaimFails,
         ClaimUnconfirmed, SendFails, SendUnanswered, ReapFails, ReleaseFails
<1>3. n \in Msgs
  BY <1>1, <1>2, MsgOfType
<1>4. \A s : s \in TaskStates /\ SetTask(r, t, c, s) => Turns(r, t, c, s)
  BY TurnsTask
<1>5. <<n, c>> \in owed => c \in open
  BY <1>3 DEF CoverOK, OwedSubscribed
<1>6. /\ {"sending", "done", "failed", "releasing", "reaping"} \subseteq TaskStates
      /\ \A u \in Topics : members'[u] = members[u] \/ (members'[u] = members[u] \ {c} /\ c \notin open)
  <2>1. {"sending", "done", "failed", "releasing", "reaping"} \subseteq TaskStates
    BY DEF TaskStates, InFlight
  <2>2. CASE Reap(r, t, c)
    <3>1. c \notin open
      BY <2>2 DEF Reap, CoverOK, ReapingClosed
    <3> QED
      BY <2>1, <2>2, <3>1 DEF Reap, RemoveRows
  <2>3. CASE ~Reap(r, t, c)
    BY <2>1, <2>3 DEF DeliverAny, DeliverStep, Claim, Send, SendGone, Release, ClaimFails,
         ClaimUnconfirmed, SendFails, SendUnanswered, ReapFails, ReleaseFails, tableVars
  <2> QED
    BY <2>1, <2>2, <2>3
<1>7. CASE Claim(r, t, c) /\ Unclaimed(n, c)
  <2>1. /\ task[r][t][c] = "todo" /\ Turns(r, t, c, "sending") /\ ledger' = ledger \cup {<<n, c>>}
    BY <1>1, <1>4, <1>6, <1>7 DEF Claim
  <2> QED
    BY <1>1, <1>6, <2>1, TurnKeeps DEF Holding, Owing
<1>8. CASE Claim(r, t, c) /\ ~Unclaimed(n, c)
  <2>1. /\ task[r][t][c] = "todo" /\ Turns(r, t, c, "done") /\ ledger' = ledger
        /\ <<n, c>> \in ledger
    BY <1>1, <1>4, <1>6, <1>8 DEF Claim, Unclaimed
  <2>2. ASSUME <<n, c>> \in owed, run[r] = "active" PROVE Safe(n, c)'
    <3>1. Safe(n, c)
      BY <1>1, <1>2, <1>3, <2>1, <2>2, ClaimedIsSafe
    <3>2. ~Gives(r, t, n, c)
      BY <2>1 DEF Gives, Holding
    <3>3. OthersSame(r, t) /\ run' = run
      BY <2>1 DEF Turns
    <3> QED
      BY <1>3, <3>1, <3>2, <3>3, GroupSafe
  <2> QED
    BY <1>1, <1>6, <2>1, <2>2, TurnKeeps DEF Holding, Owing
<1>9. CASE ClaimFails(r, t, c)
  <2>1. task[r][t][c] = "todo" /\ Turns(r, t, c, "failed") /\ ledger' = ledger
    BY <1>4, <1>6, <1>9 DEF ClaimFails
  <2> QED
    BY <1>1, <1>6, <2>1, TurnKeeps DEF Holding, Owing
<1>10. CASE ClaimUnconfirmed(r, t, c)
  <2>1. PICK s \in {"done", "failed"} : SetTask(r, t, c, s)
    BY <1>10 DEF ClaimUnconfirmed
  <2>2. /\ task[r][t][c] = "todo" /\ Turns(r, t, c, s) /\ ledger' = ledger \cup {<<n, c>>}
        /\ <<n, c, "claim">> \in stranded' /\ s # "reaping"
    BY <1>1, <1>4, <1>6, <1>10, <2>1 DEF ClaimUnconfirmed
  <2>3. Stranded(n, c)' /\ Safe(n, c)'
    BY <2>2 DEF Stranded, Causes, Safe, Excused
  <2> QED
    BY <1>1, <1>6, <2>2, <2>3, TurnKeeps
<1>11. CASE Send(r, t, c) \/ SendUnanswered(r, t, c)
  <2>1. PICK s \in {"done", "releasing"} : Turns(r, t, c, s)
    BY <1>4, <1>6, <1>11 DEF Send, SendUnanswered
  <2>2. ledger' = ledger /\ got' = [got EXCEPT ![n][c] = @ + 1]
    BY <1>1, <1>11 DEF Send, SendUnanswered
  <2>3. got'[n][c] > 0
    <3>1. got \in [Msgs -> [Subs -> Nat]]
      BY DEF StateOK, TypeOK, HistTypes
    <3>2. got[n][c] \in Nat /\ got'[n][c] = got[n][c] + 1
      BY <1>3, <2>2, <3>1, CountUp
    <3> QED
      BY <3>2
  <2>4. Safe(n, c)'
    BY <2>3 DEF Safe
  <2> QED
    BY <1>1, <1>6, <2>1, <2>2, <2>3, <2>4, TurnKeeps
<1>12. CASE SendFails(r, t, c)
  <2>1. task[r][t][c] = "sending" /\ Turns(r, t, c, "releasing") /\ ledger' = ledger
    BY <1>4, <1>6, <1>12 DEF SendFails
  <2> QED
    BY <1>1, <1>6, <2>1, TurnKeeps DEF Holding, Owing
<1>13. CASE SendGone(r, t, c)
  <2>1. /\ task[r][t][c] = "sending" /\ Turns(r, t, c, "reaping") /\ ledger' = ledger
        /\ c \notin open
    BY <1>4, <1>6, <1>13 DEF SendGone
  <2> QED
    BY <1>1, <1>5, <1>6, <2>1, TurnKeeps
<1>14. CASE Reap(r, t, c) \/ ReapFails(r, t, c)
  <2>1. PICK s \in {"done", "failed"} : Turns(r, t, c, s)
    BY <1>4, <1>6, <1>14 DEF Reap, ReapFails
  <2>2. ledger' = ledger /\ c \notin open
    BY <1>14 DEF Reap, ReapFails, CoverOK, ReapingClosed
  <2> QED
    BY <1>1, <1>5, <1>6, <2>1, <2>2, TurnKeeps
<1>15. CASE Release(r, t, c)
  <2>1. /\ task[r][t][c] = "releasing" /\ Turns(r, t, c, "failed")
        /\ ledger' = ledger \ {<<n, c>>}
        /\ run[r] = "abandoned" => <<n, c, "overlap">> \in stranded'
    BY <1>1, <1>4, <1>6, <1>15 DEF Release, GiveBack
  <2>2. run[r] = "abandoned" => Safe(n, c)'
    BY <2>1 DEF Stranded, Causes, Safe, Excused
  <2> QED
    BY <1>1, <1>6, <2>1, <2>2, TurnKeeps DEF Owing
<1>16. CASE ReleaseFails(r, t, c)
  <2>1. /\ task[r][t][c] = "releasing" /\ Turns(r, t, c, "failed") /\ ledger' = ledger
        /\ <<n, c, "release">> \in stranded'
    BY <1>1, <1>4, <1>6, <1>16 DEF ReleaseFails
  <2>2. Stranded(n, c)' /\ Safe(n, c)'
    BY <2>1 DEF Stranded, Causes, Safe, Excused
  <2> QED
    BY <1>1, <1>6, <2>1, <2>2, TurnKeeps
<1> QED
  BY <1>1, <1>7, <1>8, <1>9, <1>10, <1>11, <1>12, <1>13, <1>14, <1>15, <1>16
  DEF DeliverAny, DeliverStep

-----------------------------------------------------------------------------
(* The steps outside the invocations, and those that start and end them.     *)

Quiet == /\ \A q \in Runs, u \in Topics : Same(q, u)
         /\ UNCHANGED <<ckpt, run, hi>>

LEMMA QuietPairs ==
    ASSUME StateOK, Remembered, Quiet, NEW m \in Msgs, NEW c \in Subs
    PROVE  (Safe(m, c) => Safe(m, c)') /\ (Pending(m, c) => Pending(m, c)')
<1>1. HeldLate(m, c) => HeldLate(m, c)'
  BY SameGives DEF HeldLate, Quiet, Remembered
<1>2. Safe(m, c) => Safe(m, c)'
  BY <1>1, SafeStays DEF Safe
<1>3. ASSUME Pending(m, c) PROVE Pending(m, c)'
  <2>1. PICK i \in Nat : /\ Carries(i, m, c)
                         /\ \A q \in Runs : run[q] = "active" => Comes(q, TopicOf[m], i, c)
    BY <1>3 DEF Pending
  <2>2. Carries(i, m, c)'
    BY <2>1, CarriesOn DEF Quiet, Remembered
  <2>3. \A q \in Runs : run'[q] = "active" => Comes(q, TopicOf[m], i, c)'
    BY <2>1, TopicType, SameComes DEF Quiet
  <2> QED
    BY <2>2, <2>3 DEF Pending
<1> QED
  BY <1>2, <1>3

\* What else a quiet step keeps, and what is left to show for it.
LEMMA QuietKeeps ==
    ASSUME StateOK, CoverOK, Remembered, Quiet, ledger' \subseteq ledger,
           \A m \in Msgs, c \in Subs : <<m, c>> \in owed' =>
              /\ c \in open' /\ c \in members'[TopicOf[m]]
              /\ <<m, c>> \in owed \/ Pending(m, c)'
    PROVE  CoverOK'
<1>1. OwedSubscribed'
  BY DEF OwedSubscribed
<1>2. ReapingClosed'
  BY DEF CoverOK, ReapingClosed, Quiet, Same, Remembered
<1>3. AtInBatch' /\ IdleEmpty'
  BY DEF CoverOK, AtInBatch, IdleEmpty, Quiet, Same
<1>4. ClaimsServed'
  <2> SUFFICES ASSUME NEW m \in Msgs, NEW c \in Subs, <<m, c>> \in ledger
               PROVE  \/ got'[m][c] > 0 \/ Stranded(m, c)' \/ c \notin open'
                      \/ \E q \in Runs, u \in Topics : Gives(q, u, m, c)'
    BY DEF ClaimsServed
  <2>1. \/ got[m][c] > 0 \/ Stranded(m, c) \/ c \notin open
        \/ \E q \in Runs, u \in Topics : Gives(q, u, m, c)
    BY DEF CoverOK, ClaimsServed
  <2>2. CASE \E q \in Runs, u \in Topics : Gives(q, u, m, c)
    BY <2>2, SameGives DEF Quiet, Remembered
  <2>3. CASE got[m][c] > 0 \/ Stranded(m, c) \/ c \notin open
    BY <2>3 DEF Remembered, Stranded
  <2> QED
    BY <2>1, <2>2, <2>3
<1>5. Covered'
  BY QuietPairs DEF CoverOK, Covered
<1> QED
  BY <1>1, <1>2, <1>3, <1>4, <1>5 DEF CoverOK

LEMMA PublishKeeps ==
    ASSUME StateOK, CoverOK, Remembered, NEW m \in Msgs, Publish(m)
    PROVE  CoverOK'
<1>1. /\ log' = Append(log, [msg |-> m, cursor |-> 0]) /\ Len(log) < MaxLog
      /\ owed' = owed \cup ({m} \X (members[TopicOf[m]] \cap open))
      /\ UNCHANGED <<ckpt, open, members, ledger, run, hi, pc, at, cur, next, task>>
  BY DEF Publish, tableVars, groupVars
<1>2. Quiet
  BY <1>1 DEF Quiet, Same
<1>3. /\ Len(log') = Len(log) + 1 /\ log'[Len(log) + 1].msg = m
      /\ log'[Len(log) + 1].cursor = 0
  <2>1. [msg |-> m, cursor |-> 0] \in Records
    BY DEF Records
  <2> QED
    BY <1>1, <2>1, LogAppended
<1>4. ckpt \in Nat /\ ckpt <= Len(log) /\ Len(log) \in Nat
  BY DEF StateOK, TypeOK, StreamTypes
<1>5. PICK j \in Nat : j = Len(log) + 1
  BY <1>4
<1>6. ASSUME NEW c \in Subs PROVE Pending(m, c)'
  <2>1. Carries(j, m, c)'
    BY <1>1, <1>3, <1>4, <1>5, Numbered DEF Carries
  <2>2. ASSUME NEW q \in Runs PROVE Comes(q, TopicOf[m], j, c)'
    <3>1. hi[q] \in Nat /\ hi[q] <= Len(log)
      BY DEF StateOK, TypeOK, RunTypes, GroupsOK, BatchOK
    <3>2. j > hi'[q]
      BY <1>1, <1>4, <1>5, <3>1
    <3> QED
      BY <3>2 DEF Comes
  <2> QED
    BY <2>1, <2>2 DEF Pending
<1>7. ASSUME NEW n \in Msgs, NEW c \in Subs, <<n, c>> \in owed'
      PROVE  /\ c \in open' /\ c \in members'[TopicOf[n]]
             /\ <<n, c>> \in owed \/ Pending(n, c)'
  <2>1. CASE <<n, c>> \in owed
    BY <1>1, <2>1 DEF CoverOK, OwedSubscribed
  <2>2. CASE <<n, c>> \notin owed
    <3>1. n = m /\ c \in open /\ c \in members[TopicOf[m]]
      BY <1>1, <1>7, <2>2
    <3> QED
      BY <1>1, <1>6, <3>1
  <2> QED
    BY <2>1, <2>2
<1> QED
  BY <1>1, <1>2, <1>7, QuietKeeps

LEMMA OutsideKeeps ==
    ASSUME StateOK, CoverOK, Remembered,
           \/ \E t \in Topics, c \in Subs : Join(t, c) \/ Leave(t, c)
           \/ \E c \in Subs : HangUp(c) \/ Disconnected(c)
           \/ \E m \in Msgs, c \in Subs : Expire(m, c)
    PROVE  CoverOK'
<1>1. Quiet /\ ledger' \subseteq ledger
  BY DEF Join, Leave, HangUp, Disconnected, Expire, Quiet, Same, streamVars, groupVars
<1>2. members \in [Topics -> SUBSET Subs]
  BY DEF StateOK, TypeOK, TableTypes
<1>3. ASSUME NEW m \in Msgs, NEW c \in Subs, <<m, c>> \in owed'
      PROVE  /\ c \in open' /\ c \in members'[TopicOf[m]]
             /\ <<m, c>> \in owed \/ Pending(m, c)'
  <2>1. TopicOf[m] \in Topics
    BY TopicType
  <2>2. ASSUME NEW t \in Topics, NEW d \in Subs, Join(t, d) PROVE <1>3!4
    <3>1. owed' = owed /\ open' = open /\ members' = [members EXCEPT ![t] = @ \cup {d}]
      BY <2>2 DEF Join, histVars
    <3> QED
      BY <1>2, <1>3, <2>1, <3>1 DEF CoverOK, OwedSubscribed
  <2>3. ASSUME NEW t \in Topics, NEW d \in Subs, Leave(t, d) PROVE <1>3!4
    <3>1. /\ owed' = {p \in owed : ~(p[2] = d /\ TopicOf[p[1]] = t)}
          /\ open' = open /\ members' = [members EXCEPT ![t] = @ \ {d}]
      BY <2>3 DEF Leave
    <3>2. <<m, c>> \in owed /\ ~(c = d /\ TopicOf[m] = t)
      BY <1>3, <3>1
    <3>3. c \in open' /\ c \in members[TopicOf[m]]
      BY <3>1, <3>2 DEF CoverOK, OwedSubscribed
    <3>4. c \in members'[TopicOf[m]]
      BY <1>2, <2>1, <3>1, <3>2, <3>3
    <3> QED
      BY <3>2, <3>3, <3>4
  <2>4. ASSUME NEW d \in Subs, HangUp(d) PROVE <1>3!4
    <3>1. /\ owed' = {p \in owed : p[2] # d} /\ open' = open \ {d} /\ members' = members
      BY <2>4 DEF HangUp
    <3>2. <<m, c>> \in owed /\ c # d
      BY <1>3, <3>1
    <3> QED
      BY <3>1, <3>2 DEF CoverOK, OwedSubscribed
  <2>5. ASSUME NEW d \in Subs, Disconnected(d) PROVE <1>3!4
    <3>1. /\ owed' = owed /\ open' = open /\ d \notin open
          /\ members' = [t \in Topics |-> members[t] \ {d}]
      BY <2>5 DEF Disconnected, RemoveRows, histVars
    <3> QED
      BY <1>3, <2>1, <3>1 DEF CoverOK, OwedSubscribed
  <2>6. ASSUME NEW n \in Msgs, NEW d \in Subs, Expire(n, d) PROVE <1>3!4
    BY <1>3, <2>6 DEF Expire, tableVars, CoverOK, OwedSubscribed
  <2> QED
    BY <2>2, <2>3, <2>4, <2>5, <2>6
<1> QED
  BY <1>1, <1>3, QuietKeeps

\* An invocation that is over leaves nothing in memory.
Gone(r) ==
    /\ run'[r] = "idle"
    /\ \A t \in Topics : pc'[r][t] = "none" /\ task'[r][t] = NoTasks
    /\ \A q \in Runs : q # r => /\ run'[q] = run[q] /\ hi'[q] = hi[q]
                                /\ \A u \in Topics : Same(q, u)

LEMMA ForgetGone ==
    ASSUME StateOK, NEW r \in Runs, ForgetRun(r)
    PROVE  Gone(r)
<1> USE DEF StateOK, TypeOK
<1>1. \A q \in Runs, t \in Topics : pc'[q][t] = IF q = r THEN "none" ELSE pc[q][t]
  BY RunUpdate DEF ForgetRun, GroupTypes
<1>2. \A q \in Runs, t \in Topics : at'[q][t] = IF q = r THEN 0 ELSE at[q][t]
  BY RunUpdate DEF ForgetRun, GroupTypes
<1>3. \A q \in Runs, t \in Topics : cur'[q][t] = IF q = r THEN 0 ELSE cur[q][t]
  BY RunUpdate DEF ForgetRun, GroupTypes
<1>4. \A q \in Runs, t \in Topics : next'[q][t] = IF q = r THEN 0 ELSE next[q][t]
  BY RunUpdate DEF ForgetRun, GroupTypes
<1>5. \A q \in Runs, t \in Topics : task'[q][t] = IF q = r THEN NoTasks ELSE task[q][t]
  BY NoTasksType, RunUpdate DEF ForgetRun, GroupTypes
<1>6. /\ \A q \in Runs : run'[q] = IF q = r THEN "idle" ELSE run[q]
      /\ \A q \in Runs : hi'[q] = IF q = r THEN 0 ELSE hi[q]
  BY DEF ForgetRun, RunTypes
<1> QED
  BY <1>1, <1>2, <1>3, <1>4, <1>5, <1>6 DEF Gone, Same

\* The end of an invocation, however it comes: what it held is accounted for,
\* and no record that it was still to come to is consumed.
LEMMA GoneKeeps ==
    ASSUME StateOK, CoverOK, Remembered, NEW r \in Runs, Gone(r),
           UNCHANGED <<log, owed, members, open, ledger>>,
           \A t \in Topics, m \in Msgs, c \in Subs : Gives(r, t, m, c) => Stranded(m, c)',
           run[r] # "active" => ckpt' = ckpt,
           \A m \in Msgs, c \in Subs, i \in Nat :
              run[r] = "active" /\ Carries(i, m, c) /\ Comes(r, TopicOf[m], i, c) => i > ckpt'
    PROVE  CoverOK'
<1>1. /\ run'[r] = "idle"
      /\ \A t \in Topics : pc'[r][t] = "none" /\ task'[r][t] = NoTasks
      /\ \A q \in Runs : q # r => /\ run'[q] = run[q] /\ hi'[q] = hi[q]
                                  /\ \A u \in Topics : Same(q, u)
  BY DEF Gone
<1>2. OwedSubscribed'
  BY DEF CoverOK, OwedSubscribed
<1>3. ReapingClosed'
  <2> SUFFICES ASSUME NEW q \in Runs, NEW u \in Topics, NEW c \in Subs, task'[q][u][c] = "reaping"
               PROVE  c \notin open
    BY DEF ReapingClosed
  <2>1. q # r
    BY <1>1 DEF NoTasks
  <2>2. task[q][u][c] = "reaping"
    BY <1>1, <2>1 DEF Same
  <2> QED
    BY <2>2 DEF CoverOK, ReapingClosed
<1>4. ASSUME NEW q \in Runs, run'[q] = "active"
      PROVE  q # r /\ run[q] = "active" /\ ckpt' = ckpt
  <2>1. q # r /\ run[q] = "active"
    BY <1>1, <1>4
  <2>2. run[r] # "active"
    BY <2>1 DEF StateOK, TypeOK, RunTypes
  <2> QED
    BY <2>1, <2>2
<1>5. AtInBatch'
  <2> SUFFICES ASSUME NEW q \in Runs, NEW u \in Topics, run'[q] = "active", pc'[q][u] # "none"
               PROVE  ckpt' < at'[q][u] /\ at'[q][u] <= hi'[q]
    BY DEF AtInBatch
  <2>1. q # r /\ run[q] = "active" /\ ckpt' = ckpt
    BY <1>4
  <2>2. hi'[q] = hi[q] /\ at'[q][u] = at[q][u] /\ pc'[q][u] = pc[q][u]
    BY <1>1, <2>1 DEF Same
  <2> QED
    BY <2>1, <2>2 DEF CoverOK, AtInBatch
<1>6. IdleEmpty'
  BY <1>1 DEF CoverOK, IdleEmpty, Same
<1>7. ClaimsServed'
  <2> SUFFICES ASSUME NEW m \in Msgs, NEW c \in Subs, <<m, c>> \in ledger
               PROVE  \/ got'[m][c] > 0 \/ Stranded(m, c)' \/ c \notin open'
                      \/ \E q \in Runs, u \in Topics : Gives(q, u, m, c)'
    BY DEF ClaimsServed
  <2>1. \/ got[m][c] > 0 \/ Stranded(m, c) \/ c \notin open
        \/ \E q \in Runs, u \in Topics : Gives(q, u, m, c)
    BY DEF CoverOK, ClaimsServed
  <2>2. CASE \E q \in Runs, u \in Topics : Gives(q, u, m, c)
    <3>1. PICK q \in Runs, u \in Topics : Gives(q, u, m, c)
      BY <2>2
    <3>2. CASE q = r
      BY <3>1, <3>2
    <3>3. CASE q # r
      <4>1. Gives(q, u, m, c)'
        BY <1>1, <3>1, <3>3, SameGives DEF Remembered
      <4> QED
        BY <4>1
    <3> QED
      BY <3>2, <3>3
  <2>3. CASE got[m][c] > 0 \/ Stranded(m, c) \/ c \notin open
    BY <2>3 DEF Remembered, Stranded
  <2> QED
    BY <2>1, <2>2, <2>3
<1>8. Covered'
  <2> SUFFICES ASSUME NEW m \in Msgs, NEW c \in Subs, <<m, c>> \in owed
               PROVE  Safe(m, c)' \/ Pending(m, c)'
    BY DEF Covered
  <2>1. ASSUME HeldLate(m, c) PROVE Safe(m, c)'
    <3>1. PICK q \in Runs, u \in Topics : run[q] = "abandoned" /\ Gives(q, u, m, c)
      BY <2>1 DEF HeldLate
    <3>2. CASE q = r
      BY <3>1, <3>2 DEF Safe, Excused
    <3>3. CASE q # r
      <4>1. Gives(q, u, m, c)'
        BY <1>1, <3>1, <3>3, SameGives DEF Remembered
      <4> QED
        BY <1>1, <3>1, <3>3, <4>1 DEF Safe, HeldLate
    <3> QED
      BY <3>2, <3>3
  <2>2. CASE Safe(m, c)
    BY <2>1, <2>2, SafeStays
  <2>3. ASSUME Pending(m, c) PROVE Pending(m, c)'
    <3>1. PICK i \in Nat : /\ Carries(i, m, c)
                           /\ \A q \in Runs : run[q] = "active" => Comes(q, TopicOf[m], i, c)
      BY <2>3 DEF Pending
    <3>2. i > ckpt'
      BY <3>1 DEF Carries
    <3>3. Carries(i, m, c)'
      BY <3>1, <3>2 DEF Carries
    <3>4. ASSUME NEW q \in Runs, run'[q] = "active" PROVE Comes(q, TopicOf[m], i, c)'
      <4>1. q # r /\ run[q] = "active"
        BY <1>4, <3>4
      <4>2. Same(q, TopicOf[m]) /\ hi'[q] = hi[q] /\ Comes(q, TopicOf[m], i, c)
        BY <1>1, <3>1, <4>1, TopicType
      <4> QED
        BY <4>2, SameComes, TopicType
    <3> QED
      BY <3>3, <3>4 DEF Pending
  <2> QED
    BY <2>2, <2>3 DEF CoverOK, Covered
<1> QED
  BY <1>2, <1>3, <1>5, <1>6, <1>7, <1>8 DEF CoverOK

\* The checkpoint an invocation reports passes none of its failed records, and
\* nothing it did not read.
LEMMA CheckpointBelow ==
    ASSUME StateOK, AtInBatch, NEW r \in Runs, run[r] = "active"
    PROVE  /\ Checkpoint(r) \in Nat /\ Checkpoint(r) <= hi[r]
           /\ \A t \in Topics : pc[r][t] = "failed" => Checkpoint(r) < at[r][t]
<1>1. /\ Failing(r) \in SUBSET Nat /\ hi[r] \in Nat /\ ckpt \in Nat
      /\ \A i \in Failing(r) : ckpt < i /\ i <= hi[r]
      /\ \A t \in Topics : pc[r][t] = "failed" => at[r][t] \in Failing(r)
  BY DEF Failing, FailedGroups, AtInBatch, StateOK, TypeOK, StreamTypes, RunTypes, GroupTypes
<1>2. CASE Failing(r) = {}
  BY <1>1, <1>2 DEF Checkpoint
<1>3. CASE Failing(r) # {}
  <2>1. MinOf(Failing(r)) \in Failing(r) /\ \A j \in Failing(r) : MinOf(Failing(r)) <= j
    BY <1>1, <1>3, MinOfNat
  <2>2. Checkpoint(r) = MinOf(Failing(r)) - 1
    BY <1>3 DEF Checkpoint
  <2> HIDE DEF Failing
  <2>3. PICK k \in Nat : k = MinOf(Failing(r))
    BY <1>1, <2>1
  <2> QED
    BY <1>1, <2>1, <2>2, <2>3
<1> QED
  BY <1>2, <1>3

LEMMA EndKeeps ==
    ASSUME StateOK, CoverOK, Remembered, NEW r \in Runs, EndRun(r)
    PROVE  CoverOK'
<1>1. /\ \A t \in Topics : pc[r][t] \in {"none", "failed"}
      /\ ForgetRun(r) /\ UNCHANGED <<log, owed, members, open, ledger>>
      /\ run[r] = "active" => ckpt' = Checkpoint(r)
      /\ run[r] # "active" => ckpt' = ckpt
  BY DEF EndRun, tableVars, histVars
<1>2. \A t \in Topics, m \in Msgs, c \in Subs : ~Gives(r, t, m, c)
  BY <1>1 DEF Gives
<1>3. ASSUME NEW m \in Msgs, NEW c \in Subs, NEW i \in Nat,
             run[r] = "active", Carries(i, m, c), Comes(r, TopicOf[m], i, c)
      PROVE  i > ckpt'
  <2>1. PICK t \in Topics : t = TopicOf[m]
    BY TopicType
  <2>2. /\ Checkpoint(r) \in Nat /\ Checkpoint(r) <= hi[r] /\ ckpt' = Checkpoint(r)
        /\ pc[r][t] = "failed" => Checkpoint(r) < at[r][t]
    BY <1>1, <1>3, CheckpointBelow DEF CoverOK
  <2>3. hi[r] \in Nat /\ at[r][t] \in Nat /\ pc[r][t] \in {"none", "failed"}
    BY <1>1 DEF StateOK, TypeOK, RunTypes, GroupTypes
  <2>4. i > hi[r] \/ (pc[r][t] = "failed" /\ i >= at[r][t])
    BY <1>3, <2>1, <2>3 DEF Comes, Offers
  <2> QED
    BY <2>2, <2>3, <2>4
<1>4. Gone(r)
  BY <1>1, ForgetGone
<1> QED
  BY <1>1, <1>2, <1>3, <1>4, GoneKeeps

LEMMA KillKeeps ==
    ASSUME StateOK, CoverOK, Remembered, NEW r \in Runs, Kill(r)
    PROVE  CoverOK'
<1>1. /\ Gone(r) /\ UNCHANGED <<log, owed, members, open, ledger, ckpt>>
  BY ForgetGone DEF Kill, tableVars
<1>2. ASSUME NEW t \in Topics, NEW m \in Msgs, NEW c \in Subs, Gives(r, t, m, c)
      PROVE  Stranded(m, c)'
  <2>1. <<m, c>> \in Pairs /\ Held(r, m, c) /\ <<m, c>>[1] = m /\ <<m, c>>[2] = c
    BY <1>2, HeldIsGiven DEF Pairs
  <2>2. <<m, c, "kill">> \in
          {<<p[1], p[2], "kill">> : p \in {q \in Pairs : Held(r, q[1], q[2])}}
    BY <2>1
  <2>3. <<m, c, "kill">> \in stranded'
    BY <2>2 DEF Kill
  <2> QED
    BY <2>3 DEF Stranded, Causes
<1>3. \A m \in Msgs, c \in Subs, i \in Nat : Carries(i, m, c) => i > ckpt'
  BY <1>1 DEF Carries
<1> QED
  BY <1>1, <1>2, <1>3, GoneKeeps

\* What an abandoned invocation is about to send is in no record's hands.
LEMMA AbandonKeeps ==
    ASSUME StateOK, CoverOK, Remembered, NEW r \in Runs, Abandon(r)
    PROVE  CoverOK'
<1>1. /\ run[r] = "active" /\ run' = [run EXCEPT ![r] = "abandoned"]
      /\ UNCHANGED <<log, ckpt, owed, members, open, ledger, hi, pc, at, cur, next, task>>
  BY DEF Abandon, tableVars, groupVars, histVars
<1>2. \A q \in Runs : run'[q] = IF q = r THEN "abandoned" ELSE run[q]
  BY <1>1 DEF StateOK, TypeOK, RunTypes
<1>3. \A q \in Runs : run'[q] # "active"
  BY <1>1, <1>2 DEF StateOK, TypeOK, RunTypes
<1>4. \A q \in Runs, u \in Topics : Same(q, u)
  BY <1>1 DEF Same
<1>5. OwedSubscribed' /\ ReapingClosed'
  BY <1>1 DEF CoverOK, OwedSubscribed, ReapingClosed
<1>6. AtInBatch'
  BY <1>3 DEF AtInBatch
<1>7. IdleEmpty'
  BY <1>1, <1>2 DEF CoverOK, IdleEmpty
<1>8. \A q \in Runs, u \in Topics, m \in Msgs, c \in Subs :
        Gives(q, u, m, c) => Gives(q, u, m, c)'
  BY <1>4, SameGives DEF Remembered
<1>9. ClaimsServed'
  BY <1>1, <1>8 DEF CoverOK, ClaimsServed, Remembered, Stranded
<1>10. Covered'
  <2> SUFFICES ASSUME NEW m \in Msgs, NEW c \in Subs, <<m, c>> \in owed
               PROVE  Safe(m, c)' \/ Pending(m, c)'
    BY <1>1 DEF Covered
  <2>1. HeldLate(m, c) => HeldLate(m, c)'
    BY <1>1, <1>2, <1>8 DEF HeldLate
  <2>2. CASE Safe(m, c)
    BY <2>1, <2>2, SafeStays DEF Safe
  <2>3. CASE Pending(m, c)
    <3>1. PICK i \in Nat : Carries(i, m, c)
      BY <2>3 DEF Pending
    <3>2. Carries(i, m, c)'
      BY <1>1, <3>1 DEF Carries
    <3> QED
      BY <1>3, <3>2 DEF Pending
  <2> QED
    BY <2>2, <2>3 DEF CoverOK, Covered
<1> QED
  BY <1>5, <1>6, <1>7, <1>9, <1>10 DEF CoverOK

\* A record that ages out takes its message to the dead-letter queue.
LEMMA DiscardKeeps ==
    ASSUME StateOK, CoverOK, Remembered, Discard
    PROVE  CoverOK'
<1>1. /\ \A q \in Runs : run[q] # "active"
      /\ ckpt' = ckpt + 1 /\ dlq' = dlq \cup {log[ckpt + 1].msg} /\ ckpt < Len(log)
      /\ UNCHANGED <<log, owed, members, open, ledger, run, hi, pc, at, cur, next, task>>
  BY DEF Discard, tableVars, groupVars, histVars
<1>2. \A q \in Runs, u \in Topics : Same(q, u)
  BY <1>1 DEF Same
<1>3. OwedSubscribed' /\ ReapingClosed' /\ AtInBatch' /\ IdleEmpty'
  BY <1>1 DEF CoverOK, OwedSubscribed, ReapingClosed, AtInBatch, IdleEmpty
<1>4. \A q \in Runs, u \in Topics, m \in Msgs, c \in Subs :
        Gives(q, u, m, c) => Gives(q, u, m, c)'
  BY <1>2, SameGives DEF Remembered
<1>5. ClaimsServed'
  BY <1>1, <1>4 DEF CoverOK, ClaimsServed, Remembered, Stranded
<1>6. Covered'
  <2> SUFFICES ASSUME NEW m \in Msgs, NEW c \in Subs, <<m, c>> \in owed
               PROVE  Safe(m, c)' \/ Pending(m, c)'
    BY <1>1 DEF Covered
  <2>1. HeldLate(m, c) => HeldLate(m, c)'
    BY <1>1, <1>4 DEF HeldLate
  <2>2. CASE Safe(m, c)
    BY <2>1, <2>2, SafeStays DEF Safe
  <2>3. CASE Pending(m, c)
    <3>1. PICK i \in Nat : Carries(i, m, c)
      BY <2>3 DEF Pending
    <3>2. ckpt \in Nat
      BY DEF StateOK, TypeOK, StreamTypes
    <3>3. CASE i = ckpt + 1
      BY <1>1, <3>1, <3>3 DEF Carries, Safe, Excused
    <3>4. CASE i # ckpt + 1
      <4>1. Carries(i, m, c)'
        BY <1>1, <3>1, <3>2, <3>4 DEF Carries
      <4> QED
        BY <1>1, <4>1 DEF Pending
    <3> QED
      BY <3>3, <3>4
  <2> QED
    BY <2>2, <2>3 DEF CoverOK, Covered
<1> QED
  BY <1>3, <1>5, <1>6 DEF CoverOK

\* An invocation starts with each group on its topic's first record after the
\* checkpoint, if the batch has one.
Starts(r, t, h) ==
    \/ /\ pc'[r][t] = "none"
       /\ \A i \in 1..Len(log) : TopicOf[log[i].msg] = t /\ i > ckpt => i > h
    \/ /\ pc'[r][t] = "page" /\ at'[r][t] \in 1..Len(log)
       /\ ckpt < at'[r][t] /\ at'[r][t] <= h /\ cur'[r][t] = log[at'[r][t]].cursor
       /\ \A i \in 1..Len(log) : TopicOf[log[i].msg] = t /\ i > ckpt => i > h \/ i >= at'[r][t]

LEMMA StartTo ==
    ASSUME StateOK, NEW r \in Runs, NEW h \in 1..MaxLog, StartRun(r, h)
    PROVE  /\ run[r] = "idle" /\ \A q \in Runs : run[q] # "active"
           /\ run'[r] = "active" /\ hi'[r] = h
           /\ \A t \in Topics : task'[r][t] = NoTasks /\ Starts(r, t, h)
           /\ \A q \in Runs : q # r => /\ run'[q] = run[q] /\ hi'[q] = hi[q]
                                       /\ \A u \in Topics : Same(q, u)
<1> USE DEF StateOK, TypeOK
<1> DEFINE busy(t)  == Entries(t, ckpt + 1, h) # {}
           first(t) == MinOf(Entries(t, ckpt + 1, h))
           p == [t \in Topics |-> IF busy(t) THEN "page" ELSE "none"]
           i == [t \in Topics |-> IF busy(t) THEN first(t) ELSE 0]
           k == [t \in Topics |-> IF busy(t) THEN log[first(t)].cursor ELSE 0]
<1>1. h \in Nat /\ h <= Len(log) /\ ckpt \in Nat /\ Len(log) \in Nat
  BY DEF StartRun, StreamTypes
<1>2. \A t \in Topics : /\ Entries(t, ckpt + 1, h) \in SUBSET Nat
                        /\ \A j \in 1..Len(log) : j \in Entries(t, ckpt + 1, h)
                              <=> ckpt < j /\ j <= h /\ TopicOf[log[j].msg] = t
                        /\ \A j \in Entries(t, ckpt + 1, h) : j \in 1..Len(log)
  BY <1>1 DEF Entries
<1>3. ASSUME NEW t \in Topics, busy(t)
      PROVE  /\ first(t) \in 1..Len(log) /\ first(t) \in Entries(t, ckpt + 1, h)
             /\ \A j \in Entries(t, ckpt + 1, h) : first(t) <= j
             /\ log[first(t)].cursor \in Subs \cup {0}
  <2>1. /\ first(t) \in 1..Len(log) /\ first(t) \in Entries(t, ckpt + 1, h)
        /\ \A j \in Entries(t, ckpt + 1, h) : first(t) <= j
    BY <1>2, <1>3, MinOfNat
  <2> HIDE DEF first
  <2> QED
    BY <2>1, RecordFields
<1>4. /\ pc' = [pc EXCEPT ![r] = p] /\ at' = [at EXCEPT ![r] = i]
      /\ cur' = [cur EXCEPT ![r] = k]
      /\ next' = [next EXCEPT ![r] = [t \in Topics |-> 0]]
      /\ task' = [task EXCEPT ![r] = [t \in Topics |-> NoTasks]]
      /\ run' = [run EXCEPT ![r] = "active"] /\ hi' = [hi EXCEPT ![r] = h]
      /\ run[r] = "idle" /\ \A q \in Runs : run[q] # "active"
  BY DEF StartRun
<1> HIDE DEF first
<1>5. /\ p \in [Topics -> {"none", "page", "send", "failed"}]
      /\ i \in [Topics -> Nat] /\ k \in [Topics -> Subs \cup {0}]
      /\ \A t \in Topics : busy(t) => p[t] = "page" /\ i[t] = first(t) /\ k[t] = log[first(t)].cursor
      /\ \A t \in Topics : ~busy(t) => p[t] = "none"
  BY <1>3
<1> HIDE DEF p, i, k
<1>6. \A q \in Runs, t \in Topics : pc'[q][t] = IF q = r THEN p[t] ELSE pc[q][t]
  BY <1>4, <1>5, RunUpdate DEF GroupTypes
<1>7. \A q \in Runs, t \in Topics : at'[q][t] = IF q = r THEN i[t] ELSE at[q][t]
  BY <1>4, <1>5, RunUpdate DEF GroupTypes
<1>8. \A q \in Runs, t \in Topics : cur'[q][t] = IF q = r THEN k[t] ELSE cur[q][t]
  BY <1>4, <1>5, RunUpdate DEF GroupTypes
<1>9. \A q \in Runs, t \in Topics : next'[q][t] = IF q = r THEN 0 ELSE next[q][t]
  BY <1>4, RunUpdate DEF GroupTypes
<1>10. \A q \in Runs, t \in Topics : task'[q][t] = IF q = r THEN NoTasks ELSE task[q][t]
  BY <1>4, NoTasksType, RunUpdate DEF GroupTypes
<1>11. /\ \A q \in Runs : run'[q] = IF q = r THEN "active" ELSE run[q]
       /\ \A q \in Runs : hi'[q] = IF q = r THEN h ELSE hi[q]
  BY <1>4 DEF RunTypes
<1>12. ASSUME NEW t \in Topics PROVE Starts(r, t, h)
  <2>1. pc'[r][t] = p[t] /\ at'[r][t] = i[t] /\ cur'[r][t] = k[t]
    BY <1>6, <1>7, <1>8
  <2>2. CASE ~busy(t)
    <3>1. \A j \in 1..Len(log) : TopicOf[log[j].msg] = t /\ j > ckpt => j > h
      BY <1>1, <1>2, <2>2
    <3> QED
      BY <1>5, <2>1, <2>2, <3>1 DEF Starts
  <2>3. CASE busy(t)
    <3>1. PICK e : e = first(t)
      OBVIOUS
    <3>2. /\ e \in 1..Len(log) /\ ckpt < e /\ e <= h
          /\ \A j \in Entries(t, ckpt + 1, h) : e <= j
      BY <1>2, <1>3, <2>3, <3>1
    <3>3. \A j \in 1..Len(log) : TopicOf[log[j].msg] = t /\ j > ckpt => j > h \/ j >= e
      BY <1>1, <1>2, <3>2
    <3>4. p[t] = "page" /\ i[t] = e /\ k[t] = log[e].cursor
      BY <1>5, <2>3, <3>1
    <3> QED
      BY <2>1, <3>2, <3>3, <3>4 DEF Starts
  <2> QED
    BY <2>2, <2>3
<1>13. \A q \in Runs, u \in Topics : q # r => Same(q, u)
  BY <1>6, <1>7, <1>8, <1>9, <1>10 DEF Same
<1> QED
  BY <1>4, <1>10, <1>11, <1>12, <1>13

LEMMA StartKeeps ==
    ASSUME StateOK, CoverOK, Remembered, NEW r \in Runs, NEW h \in 1..MaxLog, StartRun(r, h)
    PROVE  CoverOK'
<1>1. UNCHANGED <<log, ckpt, owed, members, open, ledger>>
  BY DEF StartRun, streamVars, tableVars, histVars
<1>2. /\ run[r] = "idle" /\ \A q \in Runs : run[q] # "active"
      /\ run'[r] = "active" /\ hi'[r] = h
      /\ \A t \in Topics : task'[r][t] = NoTasks /\ Starts(r, t, h)
      /\ \A q \in Runs : q # r => /\ run'[q] = run[q] /\ hi'[q] = hi[q]
                                  /\ \A u \in Topics : Same(q, u)
  BY StartTo
<1>3. OwedSubscribed'
  BY <1>1 DEF CoverOK, OwedSubscribed
<1>4. ReapingClosed'
  <2> SUFFICES ASSUME NEW q \in Runs, NEW u \in Topics, NEW c \in Subs, task'[q][u][c] = "reaping"
               PROVE  c \notin open
    BY <1>1 DEF ReapingClosed
  <2>1. q # r
    BY <1>2 DEF NoTasks
  <2>2. task[q][u][c] = "reaping"
    BY <1>2, <2>1 DEF Same
  <2> QED
    BY <2>2 DEF CoverOK, ReapingClosed
<1>5. AtInBatch'
  <2> SUFFICES ASSUME NEW q \in Runs, NEW u \in Topics, run'[q] = "active", pc'[q][u] # "none"
               PROVE  ckpt < at'[q][u] /\ at'[q][u] <= hi'[q]
    BY <1>1 DEF AtInBatch
  <2>1. q = r
    BY <1>2
  <2>2. Starts(r, u, h) /\ hi'[r] = h
    BY <1>2
  <2> QED
    BY <2>1, <2>2 DEF Starts
<1>6. IdleEmpty'
  BY <1>2 DEF CoverOK, IdleEmpty, Same
<1>7. ASSUME NEW q \in Runs, NEW u \in Topics, NEW m \in Msgs, NEW c \in Subs, Gives(q, u, m, c)
      PROVE  q # r /\ Gives(q, u, m, c)'
  <2>1. q # r
    BY <1>2, <1>7 DEF Gives, CoverOK, IdleEmpty
  <2> QED
    BY <1>2, <1>7, <2>1, SameGives DEF Remembered
<1>8. ClaimsServed'
  BY <1>1, <1>7 DEF CoverOK, ClaimsServed, Remembered, Stranded
<1>9. Covered'
  <2> SUFFICES ASSUME NEW m \in Msgs, NEW c \in Subs, <<m, c>> \in owed
               PROVE  Safe(m, c)' \/ Pending(m, c)'
    BY <1>1 DEF Covered
  <2>1. HeldLate(m, c) => HeldLate(m, c)'
    BY <1>2, <1>7 DEF HeldLate
  <2>2. CASE Safe(m, c)
    BY <2>1, <2>2, SafeStays DEF Safe
  <2>3. CASE Pending(m, c)
    <3>1. PICK i \in Nat : Carries(i, m, c)
      BY <2>3 DEF Pending
    <3>2. Carries(i, m, c)'
      BY <1>1, <3>1 DEF Carries
    <3>3. PICK t \in Topics : t = TopicOf[m]
      BY TopicType
    <3>4. Starts(r, t, h) /\ i \in 1..Len(log) /\ TopicOf[log[i].msg] = t /\ i > ckpt
          /\ log[i].cursor < c
      BY <1>2, <3>1, <3>3 DEF Carries
    <3>5. i > h \/ (pc'[r][t] = "page" /\ i > at'[r][t])
          \/ (pc'[r][t] = "page" /\ i = at'[r][t] /\ cur'[r][t] < c)
      BY <3>4 DEF Starts
    <3>6. Comes(r, t, i, c)'
      BY <1>2, <3>5 DEF Comes, Offers
    <3>7. \A q \in Runs : run'[q] = "active" => Comes(q, TopicOf[m], i, c)'
      BY <1>2, <3>3, <3>6
    <3> QED
      BY <3>2, <3>7 DEF Pending
  <2> QED
    BY <2>2, <2>3 DEF CoverOK, Covered
<1> QED
  BY <1>3, <1>4, <1>5, <1>6, <1>8, <1>9 DEF CoverOK

\* A step that changes nothing keeps everything.
LEMMA CoverOKStutter == StateOK /\ CoverOK /\ UNCHANGED vars => CoverOK'
<1> SUFFICES ASSUME StateOK, CoverOK, UNCHANGED vars PROVE CoverOK'
  OBVIOUS
<1>1. Remembered
  BY NothingForgotten
<1>2. Quiet /\ UNCHANGED <<ledger, owed, open, members>>
  BY DEF vars, streamVars, tableVars, groupVars, histVars, Quiet, Same
<1> QED
  BY <1>1, <1>2, QuietKeeps DEF CoverOK, OwedSubscribed

LEMMA CoverOKStep == StateOK /\ CoverOK /\ [Next]_vars => CoverOK'
<1> SUFFICES ASSUME StateOK, CoverOK, [Next]_vars PROVE CoverOK'
  OBVIOUS
<1>1. Remembered
  BY NothingForgotten
<1>2. ASSUME NEW r \in Runs, NEW t \in Topics,
             GroupStep(r, t) \/ Requeue(r, t) \/ GroupFault(r, t)
      PROVE  CoverOK'
  <2>1. PageStep(r, t) \/ \E c \in Subs : DeliverAny(r, t, c)
    BY <1>2 DEF GroupStep, GroupFault, PageStep, DeliverAny
  <2> QED
    BY <1>1, <2>1, PageKeeps, DeliverKeeps
<1>3. CASE UNCHANGED vars
  BY <1>3, CoverOKStutter
<1>4. CASE Discard
  BY <1>1, <1>4, DiscardKeeps
<1> QED
  BY <1>1, <1>2, <1>3, <1>4, PublishKeeps, OutsideKeeps, EndKeeps, KillKeeps, AbandonKeeps,
     StartKeeps DEF Next, Poll

-----------------------------------------------------------------------------
(* What follows.                                                             *)

\* No record of a settled message is left for a pair to be pending at.
LEMMA SettledIsSafe ==
    ASSUME StateOK, CoverOK, NEW m \in Msgs, NEW c \in Subs, <<m, c>> \in owed, Settled(m)
    PROVE  Safe(m, c)
<1>1. \A i \in Nat : ~Carries(i, m, c)
  BY DEF Carries, Settled, StateOK, TypeOK, StreamTypes
<1> QED
  BY <1>1 DEF CoverOK, Covered, Pending

LEMMA LossExplainedHolds == StateOK /\ CoverOK => LossExplained
<1> SUFFICES ASSUME StateOK, CoverOK, NEW p \in owed, Settled(p[1])
             PROVE  got[p[1]][p[2]] > 0 \/ Excused(p[1], p[2]) \/ HeldByAny(p[1], p[2])
  BY DEF LossExplained
<1>1. PICK m \in Msgs, c \in Subs : p = <<m, c>>
  BY DEF StateOK, TypeOK, HistTypes, Pairs
<1>2. p[1] = m /\ p[2] = c
  BY <1>1
<1>3. Safe(m, c)
  BY <1>1, <1>2, SettledIsSafe
<1>4. HeldLate(m, c) => HeldByAny(m, c)
  BY HeldIsGiven DEF HeldLate, HeldByAny
<1> QED
  BY <1>2, <1>3, <1>4 DEF Safe

\* Once no record of a message is left on the stream, whoever it was owed to
\* has it, or a named failure stands for it: flush() claims before it sends,
\* releases when the send fails, reports every record it could not finish and
\* requeues the pages it had no time for, and that is enough.
THEOREM LossIsExplained == Spec => []LossExplained
<1>1. StateOK /\ CoverOK => LossExplained
  BY LossExplainedHolds
<1> QED
  BY <1>1, StateOKInit, StateOKStep, CoverOKInit, CoverOKStep, PTL DEF Spec

\* Only the end of the running invocation and a discard move the checkpoint.
LEMMA CheckpointMoves ==
    ASSUME StateOK, Next, ckpt' # ckpt
    PROVE  \/ Discard
           \/ \E r \in Runs : EndRun(r) /\ run[r] = "active" /\ ckpt' = Checkpoint(r)
<1>1. ASSUME NEW r \in Runs, NEW t \in Topics,
             GroupStep(r, t) \/ Requeue(r, t) \/ GroupFault(r, t)
      PROVE  ckpt' = ckpt
  <2>1. PageStep(r, t) \/ \E c \in Subs : DeliverAny(r, t, c)
    BY <1>1 DEF GroupStep, GroupFault, PageStep, DeliverAny
  <2>2. PageStep(r, t) => ckpt' = ckpt
    BY PageStepTo
  <2>3. \A c \in Subs : DeliverAny(r, t, c) => ckpt' = ckpt
    BY DEF DeliverAny, DeliverStep, Claim, Send, SendGone, Reap, Release, ClaimFails,
       ClaimUnconfirmed, SendFails, SendUnanswered, ReapFails, ReleaseFails, streamVars
  <2> QED
    BY <2>1, <2>2, <2>3
<1>2. \A m \in Msgs : Publish(m) => ckpt' = ckpt
  BY DEF Publish
<1>3. \A t \in Topics, c \in Subs : Join(t, c) \/ Leave(t, c) => ckpt' = ckpt
  BY DEF Join, Leave, streamVars
<1>4. \A c \in Subs : HangUp(c) \/ Disconnected(c) => ckpt' = ckpt
  BY DEF HangUp, Disconnected, streamVars
<1>5. \A r \in Runs, h \in 1..MaxLog : StartRun(r, h) => ckpt' = ckpt
  BY DEF StartRun, streamVars
<1>6. \A r \in Runs : Kill(r) \/ Abandon(r) => ckpt' = ckpt
  BY DEF Kill, Abandon
<1>7. \A m \in Msgs, c \in Subs : Expire(m, c) => ckpt' = ckpt
  BY DEF Expire, streamVars
<1>8. \A r \in Runs : EndRun(r) => ckpt' = ckpt \/ (run[r] = "active" /\ ckpt' = Checkpoint(r))
  BY DEF EndRun
<1> QED
  BY <1>1, <1>2, <1>3, <1>4, <1>5, <1>6, <1>7, <1>8 DEF Next, Poll

-----------------------------------------------------------------------------
(* While no invocation is lost sight of: the order of a topic.               *)

\* Nobody but the running invocation sends, and its batch lies ahead of the
\* checkpoint. Every record of a message but its first carries a cursor. What
\* is not published has reached nobody, and is owed to nobody.
NoneAbandoned == \A r \in Runs : run[r] # "abandoned"
BatchAhead == \A r \in Runs : run[r] = "active" => ckpt <= hi[r]
Continued == \A i, j \in 1..Len(log) : i < j /\ log[i].msg = log[j].msg => log[j].cursor # 0
Untouched == \A m \in Msgs, c \in Subs :
    m \notin Published => got[m][c] = 0 /\ <<m, c>> \notin owed

InTurn == NoneAbandoned /\ BatchAhead /\ Continued /\ Untouched

LEMMA InTurnInit == Init => InTurn
<1> SUFFICES ASSUME Init PROVE InTurn
  OBVIOUS
<1>1. log = <<>> /\ owed = {} /\ \A m \in Msgs, c \in Subs : got[m][c] = 0
  BY DEF Init
<1>2. \A r \in Runs : run[r] = "idle"
  BY DEF Init
<1> QED
  BY <1>1, <1>2 DEF InTurn, NoneAbandoned, BatchAhead, Continued, Untouched

\* The steps that append a record, count a frame or owe less to somebody.
Requeues(r, t) == Requeue(r, t) \/ RequeueUnconfirmed(r, t)
Sends(r, t, c) == Send(r, t, c) \/ SendUnanswered(r, t, c)
Forgets(c) == HangUp(c) \/ \E t \in Topics : Leave(t, c)

LEMMA Effects ==
    ASSUME Next
    PROVE  \/ \E m \in Msgs : Publish(m)
           \/ \E r \in Runs, t \in Topics : Requeues(r, t)
           \/ \E r \in Runs, t \in Topics, c \in Subs : Sends(r, t, c)
           \/ \E c \in Subs : Forgets(c)
           \/ UNCHANGED <<log, got, owed>>
<1>1. ASSUME NEW r \in Runs, NEW t \in Topics,
             GroupStep(r, t) \/ Requeue(r, t) \/ GroupFault(r, t)
      PROVE  \/ Requeues(r, t) \/ \E c \in Subs : Sends(r, t, c)
             \/ UNCHANGED <<log, got, owed>>
  <2>1. ASSUME NEW c \in Subs,
               \/ Claim(r, t, c) \/ SendGone(r, t, c) \/ Reap(r, t, c) \/ Release(r, t, c)
               \/ ClaimFails(r, t, c) \/ ClaimUnconfirmed(r, t, c)
               \/ SendFails(r, t, c) \/ ReapFails(r, t, c) \/ ReleaseFails(r, t, c)
        PROVE  UNCHANGED <<log, got, owed>>
    BY <2>1 DEF Claim, SendGone, Reap, Release, ClaimFails, ClaimUnconfirmed, SendFails,
                ReapFails, ReleaseFails, streamVars, histVars
  <2>2. CASE \/ ReadPage(r, t) \/ NextBatch(r, t) \/ PageUnreadable(r, t) \/ PageFailed(r, t)
             \/ LastPageDone(r, t) \/ NextPage(r, t) \/ RequeueFails(r, t)
    BY <2>2 DEF ReadPage, NextBatch, PageUnreadable, PageFailed, LastPageDone,
         NextPage, RequeueFails, streamVars, histVars
  <2> QED
    BY <1>1, <2>1, <2>2 DEF GroupStep, GroupFault, DeliverStep, Requeues, Sends
<1>2. Discard => UNCHANGED <<log, got, owed>>
  BY DEF Discard, histVars
<1>3. \A r \in Runs : EndRun(r) \/ Kill(r) \/ Abandon(r) => UNCHANGED <<log, got, owed>>
  BY DEF EndRun, Kill, Abandon, histVars
<1>4. \A r \in Runs, h \in 1..MaxLog : StartRun(r, h) => UNCHANGED <<log, got, owed>>
  BY DEF StartRun, streamVars, histVars
<1>5. \A m \in Msgs, c \in Subs : Expire(m, c) => UNCHANGED <<log, got, owed>>
  BY DEF Expire, streamVars
<1>6. \A t \in Topics, c \in Subs : Join(t, c) => UNCHANGED <<log, got, owed>>
  BY DEF Join, streamVars, histVars
<1>7. \A c \in Subs : Disconnected(c) => UNCHANGED <<log, got, owed>>
  BY DEF Disconnected, streamVars, histVars
<1> QED
  BY <1>1, <1>2, <1>3, <1>4, <1>5, <1>6, <1>7 DEF Next, Poll, Forgets

\* What those steps are.
LEMMA RequeuesTo ==
    ASSUME StateOK, NEW r \in Runs, NEW t \in Topics, Requeues(r, t)
    PROVE  /\ pc[r][t] = "send" /\ UNCHANGED <<ckpt, run, got, owed>>
           /\ LogGrows /\ Len(log') = Len(log) + 1
           /\ log'[Len(log) + 1].msg = MsgOf(r, t) /\ log'[Len(log) + 1].cursor # 0
           /\ MsgOf(r, t) \in Msgs
<1>1. /\ pc[r][t] = "send" /\ Len(log) < MaxLog /\ log' = Append(log, Continuation(r, t))
      /\ next[r][t] # 0 /\ UNCHANGED <<ckpt, run, got, owed>>
  BY DEF Requeues, Requeue, RequeueUnconfirmed, PageDone, PageSettled, histVars
<1>2. LogGrows /\ Len(log') = Len(log) + 1 /\ log'[Len(log) + 1] = Continuation(r, t)
  BY <1>1, ContinuationType, LogAppended
<1>3. MsgOf(r, t) \in Msgs
  BY <1>1, MsgOfType
<1> QED
  BY <1>1, <1>2, <1>3 DEF Continuation

LEMMA PublishTo ==
    ASSUME StateOK, NEW m \in Msgs, Publish(m)
    PROVE  /\ m \notin Published /\ UNCHANGED <<ckpt, got>>
           /\ LogGrows /\ Len(log') = Len(log) + 1
           /\ log'[Len(log) + 1].msg = m
<1>1. [msg |-> m, cursor |-> 0] \in Records
  BY DEF Records
<1>2. /\ LogGrows /\ Len(log') = Len(log) + 1
      /\ log'[Len(log) + 1] = [msg |-> m, cursor |-> 0]
  BY <1>1, LogAppended DEF Publish
<1> QED
  BY <1>2 DEF Publish

LEMMA SendsTo ==
    ASSUME StateOK, NEW r \in Runs, NEW t \in Topics, NEW c \in Subs, Sends(r, t, c)
    PROVE  /\ pc[r][t] = "send" /\ task[r][t][c] = "sending"
           /\ MsgOf(r, t) \in Msgs /\ TopicOf[MsgOf(r, t)] = t
           /\ got' = [got EXCEPT ![MsgOf(r, t)][c] = @ + 1]
           /\ UNCHANGED <<log, ckpt, owed, stranded, dlq, expired>>
           /\ \/ unacked' = unacked
              \/ unacked' = [unacked EXCEPT ![MsgOf(r, t)][c] = @ + 1]
<1>1. /\ task[r][t][c] = "sending" /\ UNCHANGED <<log, ckpt, owed, stranded, dlq, expired>>
      /\ got' = [got EXCEPT ![MsgOf(r, t)][c] = @ + 1]
      /\ \/ unacked' = unacked
         \/ unacked' = [unacked EXCEPT ![MsgOf(r, t)][c] = @ + 1]
  BY DEF Sends, Send, SendUnanswered, streamVars
<1>2. pc[r][t] = "send"
  BY <1>1, HolderSends
<1>3. MsgOf(r, t) \in Msgs /\ TopicOf[MsgOf(r, t)] = t
  BY <1>2, MsgOfType
<1> QED
  BY <1>1, <1>2, <1>3

LEMMA ForgetsTo ==
    ASSUME NEW c \in Subs, Forgets(c)
    PROVE  /\ UNCHANGED <<log, ckpt, got, stranded, dlq, unacked, expired>>
           /\ owed' \subseteq owed /\ \A p \in owed \ owed' : p[2] = c
  BY DEF Forgets, HangUp, Leave, streamVars

\* The record a group is on is published.
LEMMA GroupPublished ==
    ASSUME StateOK, NEW r \in Runs, NEW t \in Topics, pc[r][t] # "none"
    PROVE  MsgOf(r, t) \in Published
<1>1. at[r][t] \in 1..Len(log) /\ log \in Seq(Records)
  BY DEF StateOK, TypeOK, StreamTypes, GroupsOK, AtOK
<1> QED
  BY <1>1 DEF Published, MsgOf

\* What a longer stream has published.
LEMMA PublishedIn ==
    ASSUME StateOK
    PROVE  \A m : m \in Published <=> \E i \in 1..Len(log) : log[i].msg = m
<1>1. DOMAIN log = 1..Len(log)
  BY DEF StateOK, TypeOK, StreamTypes
<1> QED
  BY <1>1 DEF Published

LEMMA PublishedNext ==
    ASSUME StateOK, StateOK', Next, NEW m
    PROVE  /\ m \in Published => m \in Published'
           /\ m \in Published' => m \in Published \/ (m \in Msgs /\ Publish(m))
<1>1. /\ m \in Published <=> \E i \in 1..Len(log) : log[i].msg = m
      /\ m \in Published' <=> \E i \in 1..Len(log') : log'[i].msg = m
  <2>1. DOMAIN log' = 1..Len(log')
    BY DEF StateOK, TypeOK, StreamTypes
  <2> QED
    BY <2>1, PublishedIn DEF Published
<1>2. CASE log' = log
  BY <1>1, <1>2
<1>3. ASSUME NEW n, LogGrows, Len(log') = Len(log) + 1, log'[Len(log) + 1].msg = n,
             n \in Published \/ (n \in Msgs /\ Publish(n))
      PROVE  /\ m \in Published => m \in Published'
             /\ m \in Published' => m \in Published \/ (m \in Msgs /\ Publish(m))
  <2>1. \A i \in 1..Len(log) : i \in 1..Len(log') /\ log'[i] = log[i]
    BY <1>3 DEF LogGrows
  <2>2. \A i \in 1..Len(log') : i \in 1..Len(log) \/ i = Len(log) + 1
    BY <1>3 DEF LogGrows
  <2>3. m \in Published => m \in Published'
    BY <1>1, <2>1
  <2>4. m \in Published' => m \in Published \/ m = n
    BY <1>1, <1>3, <2>1, <2>2
  <2> QED
    BY <1>3, <2>3, <2>4
<1>4. ASSUME NEW n \in Msgs, Publish(n)
      PROVE  /\ m \in Published => m \in Published'
             /\ m \in Published' => m \in Published \/ (m \in Msgs /\ Publish(m))
  BY <1>3, <1>4, PublishTo
<1>5. ASSUME NEW r \in Runs, NEW t \in Topics, Requeues(r, t)
      PROVE  /\ m \in Published => m \in Published'
             /\ m \in Published' => m \in Published \/ (m \in Msgs /\ Publish(m))
  <2>1. MsgOf(r, t) \in Published
    BY <1>5, RequeuesTo, GroupPublished
  <2> QED
    BY <1>3, <1>5, <2>1, RequeuesTo
<1>6. ASSUME NEW r \in Runs, NEW t \in Topics, NEW c \in Subs, Sends(r, t, c) PROVE log' = log
  BY <1>6, SendsTo
<1>7. ASSUME NEW c \in Subs, Forgets(c) PROVE log' = log
  BY <1>7, ForgetsTo
<1> QED
  BY <1>2, <1>4, <1>5, <1>6, <1>7, Effects

\* What becomes of an invocation.
LEMMA RunsMove ==
    ASSUME StateOK, Next, NEW r \in Runs
    PROVE  \/ run'[r] = run[r] /\ hi'[r] = hi[r]
           \/ run'[r] = "idle"
           \/ Abandon(r) \/ \E h \in 1..MaxLog : StartRun(r, h)
<1>1. ASSUME NEW q \in Runs, NEW t \in Topics,
             GroupStep(q, t) \/ Requeue(q, t) \/ GroupFault(q, t)
      PROVE  run'[r] = run[r] /\ hi'[r] = hi[r]
  <2>1. PageStep(q, t) \/ \E c \in Subs : DeliverAny(q, t, c)
    BY <1>1 DEF GroupStep, GroupFault, PageStep, DeliverAny
  <2>2. PageStep(q, t) => run' = run /\ hi' = hi
    BY PageStepTo
  <2>3. \A c \in Subs : DeliverAny(q, t, c) => run' = run /\ hi' = hi
    BY DEF DeliverAny, DeliverStep, Claim, Send, SendGone, Reap, Release, ClaimFails,
       ClaimUnconfirmed, SendFails, SendUnanswered, ReapFails, ReleaseFails
  <2> QED
    BY <2>1, <2>2, <2>3
<1>2. ASSUME NEW q \in Runs, EndRun(q) \/ Kill(q)
      PROVE  run'[r] = "idle" \/ (run'[r] = run[r] /\ hi'[r] = hi[r])
  <2>1. Gone(q)
    BY <1>2, ForgetGone DEF EndRun, Kill
  <2> QED
    BY <2>1 DEF Gone
<1>3. ASSUME NEW q \in Runs, Abandon(q) PROVE q = r \/ (run'[r] = run[r] /\ hi'[r] = hi[r])
  BY <1>3 DEF Abandon, StateOK, TypeOK, RunTypes
<1>4. ASSUME NEW q \in Runs, NEW h \in 1..MaxLog, StartRun(q, h)
      PROVE  q = r \/ (run'[r] = run[r] /\ hi'[r] = hi[r])
  BY <1>4, StartTo
<1>5. \A m \in Msgs : Publish(m) => run' = run /\ hi' = hi
  BY DEF Publish
<1>6. \A t \in Topics, c \in Subs : Join(t, c) \/ Leave(t, c) => run' = run /\ hi' = hi
  BY DEF Join, Leave
<1>7. \A c \in Subs : HangUp(c) \/ Disconnected(c) => run' = run /\ hi' = hi
  BY DEF HangUp, Disconnected
<1>8. Discard => run' = run /\ hi' = hi
  BY DEF Discard
<1>9. \A m \in Msgs, c \in Subs : Expire(m, c) => run' = run /\ hi' = hi
  BY DEF Expire
<1> QED
  BY <1>1, <1>2, <1>3, <1>4, <1>5, <1>6, <1>7, <1>8, <1>9 DEF Next, Poll

\* The checkpoint does not move while an invocation runs on.
LEMMA RunningKeepsCheckpoint ==
    ASSUME StateOK, Next, NEW r \in Runs, run'[r] = "active"
    PROVE  ckpt' = ckpt
<1> SUFFICES ASSUME ckpt' # ckpt PROVE FALSE
  OBVIOUS
<1>1. CASE Discard
  BY <1>1 DEF Discard
<1>2. ASSUME NEW q \in Runs, EndRun(q), run[q] = "active" PROVE FALSE
  <2>1. Gone(q)
    BY <1>2, ForgetGone DEF EndRun
  <2>2. q # r /\ run[r] = "active"
    BY <2>1 DEF Gone
  <2> QED
    BY <1>2, <2>2 DEF StateOK, TypeOK, RunTypes
<1> QED
  BY <1>1, <1>2, CheckpointMoves

LEMMA InTurnStep ==
    ASSUME "abandon" \notin Faults, StateOK, StateOK', InTurn, [Next]_vars
    PROVE  InTurn'
<1>1. CASE UNCHANGED vars
  BY <1>1 DEF vars, streamVars, histVars, InTurn, NoneAbandoned, BatchAhead, Continued,
              Untouched, Published
<1>2. CASE Next
  <2>1. ASSUME NEW r \in Runs, NEW h \in 1..MaxLog, StartRun(r, h)
        PROVE  run'[r] = "active" /\ hi'[r] = h /\ h > ckpt /\ ckpt \in Nat /\ h \in Nat
    <3>1. run'[r] = "active" /\ hi'[r] = h
      BY <2>1, StartTo
    <3>2. ckpt \in Nat /\ h \in (ckpt + 1)..Len(log) /\ Len(log) \in Nat
      BY <2>1 DEF StartRun, StateOK, TypeOK, StreamTypes
    <3> QED
      BY <3>1, <3>2
  <2>2. NoneAbandoned'
    <3> SUFFICES ASSUME NEW r \in Runs, run'[r] = "abandoned" PROVE FALSE
      BY DEF NoneAbandoned
    <3> QED
      BY <1>2, <2>1, RunsMove DEF InTurn, NoneAbandoned, Abandon, Fault
  <2>3. BatchAhead'
    <3> SUFFICES ASSUME NEW r \in Runs, run'[r] = "active" PROVE ckpt' <= hi'[r]
      BY DEF BatchAhead
    <3>1. ckpt' = ckpt
      BY <1>2, RunningKeepsCheckpoint
    <3>2. CASE run'[r] = run[r] /\ hi'[r] = hi[r]
      BY <3>1, <3>2 DEF InTurn, BatchAhead
    <3>3. ASSUME NEW h \in 1..MaxLog, StartRun(r, h) PROVE ckpt' <= hi'[r]
      BY <2>1, <3>1, <3>3
    <3>4. ~Abandon(r)
      BY DEF Abandon, Fault
    <3> QED
      BY <1>2, <3>2, <3>3, <3>4, RunsMove
  <2>4. Continued'
    <3>1. CASE log' = log
      BY <3>1 DEF InTurn, Continued
    <3>2. ASSUME NEW m, LogGrows, Len(log') = Len(log) + 1, log'[Len(log) + 1].msg = m,
                 m \notin Published \/ log'[Len(log) + 1].cursor # 0
          PROVE  Continued'
      <4> SUFFICES ASSUME NEW i \in 1..Len(log'), NEW j \in 1..Len(log'), i < j,
                          log'[i].msg = log'[j].msg
                   PROVE  log'[j].cursor # 0
        BY DEF Continued
      <4>1. i \in 1..Len(log) /\ log'[i] = log[i]
        BY <3>2 DEF LogGrows
      <4>2. CASE j = Len(log) + 1
        <5>1. log[i].msg = m
          BY <3>2, <4>1, <4>2
        <5>2. m \in Published
          BY <4>1, <5>1, PublishedIn
        <5> QED
          BY <3>2, <4>2, <5>2
      <4>3. CASE j # Len(log) + 1
        <5>1. j \in 1..Len(log) /\ log'[j] = log[j]
          BY <3>2, <4>3 DEF LogGrows
        <5> QED
          BY <4>1, <5>1 DEF InTurn, Continued
      <4> QED
        BY <4>2, <4>3
    <3>3. ASSUME NEW m \in Msgs, Publish(m) PROVE Continued'
      BY <3>2, <3>3, PublishTo
    <3>4. ASSUME NEW r \in Runs, NEW t \in Topics, Requeues(r, t) PROVE Continued'
      BY <3>2, <3>4, RequeuesTo
    <3>5. ASSUME NEW r \in Runs, NEW t \in Topics, NEW c \in Subs, Sends(r, t, c)
          PROVE  log' = log
      BY <3>5, SendsTo
    <3>6. ASSUME NEW c \in Subs, Forgets(c) PROVE log' = log
      BY <3>6, ForgetsTo
    <3> QED
      BY <1>2, <3>1, <3>3, <3>4, <3>5, <3>6, Effects
  <2>5. Untouched'
    <3> SUFFICES ASSUME NEW m \in Msgs, NEW c \in Subs, m \notin Published'
                 PROVE  got'[m][c] = 0 /\ <<m, c>> \notin owed'
      BY DEF Untouched
    <3>1. m \notin Published
      BY <1>2, PublishedNext
    <3>2. got[m][c] = 0 /\ <<m, c>> \notin owed
      BY <3>1 DEF InTurn, Untouched
    <3>3. CASE UNCHANGED <<log, got, owed>>
      BY <3>2, <3>3
    <3>4. ASSUME NEW n \in Msgs, Publish(n) PROVE got'[m][c] = 0 /\ <<m, c>> \notin owed'
      <4>1. n \in Published'
        <5>1. /\ LogGrows /\ Len(log') = Len(log) + 1 /\ log'[Len(log) + 1].msg = n
          BY <3>4, PublishTo
        <5>2. DOMAIN log' = 1..Len(log')
          BY DEF StateOK, TypeOK, StreamTypes
        <5>3. Len(log) + 1 \in DOMAIN log'
          BY <5>1, <5>2 DEF LogGrows
        <5> QED
          BY <5>1, <5>3 DEF Published
      <4> QED
        BY <3>2, <3>4, <4>1 DEF Publish
    <3>5. ASSUME NEW r \in Runs, NEW t \in Topics, Requeues(r, t)
          PROVE  got'[m][c] = 0 /\ <<m, c>> \notin owed'
      BY <3>2, <3>5, RequeuesTo
    <3>6. ASSUME NEW r \in Runs, NEW t \in Topics, NEW d \in Subs, Sends(r, t, d)
          PROVE  got'[m][c] = 0 /\ <<m, c>> \notin owed'
      <4>1. PICK n \in Msgs : n = MsgOf(r, t)
        BY <3>6, SendsTo
      <4>2. n # m
        BY <3>1, <3>6, <4>1, SendsTo, GroupPublished
      <4>3. got' = [got EXCEPT ![n][d] = @ + 1] /\ owed' = owed
        BY <3>6, <4>1, SendsTo
      <4>4. got \in [Msgs -> [Subs -> Nat]]
        BY DEF StateOK, TypeOK, HistTypes
      <4>5. got'[m][c] = got[m][c]
        BY <4>2, <4>3, <4>4, CountUp
      <4> QED
        BY <3>2, <4>3, <4>5
    <3>7. ASSUME NEW d \in Subs, Forgets(d) PROVE got'[m][c] = 0 /\ <<m, c>> \notin owed'
      BY <3>2, <3>7, ForgetsTo
    <3> QED
      BY <1>2, <3>3, <3>4, <3>5, <3>6, <3>7, Effects
  <2> QED
    BY <2>2, <2>3, <2>4, <2>5 DEF InTurn
<1> QED
  BY <1>1, <1>2

\* The first record of a message, which later records leave the first.
LEMMA FirstAtIs ==
    ASSUME StateOK, NEW m, m \in Published
    PROVE  /\ FirstAt(m) \in 1..Len(log) /\ log[FirstAt(m)].msg = m
           /\ \A i \in 1..Len(log) : log[i].msg = m => FirstAt(m) <= i
<1> DEFINE S == {i \in DOMAIN log : log[i].msg = m}
<1>1. DOMAIN log = 1..Len(log) /\ Len(log) \in Nat
  BY DEF StateOK, TypeOK, StreamTypes
<1>2. S \in SUBSET Nat /\ S # {}
  BY <1>1, PublishedIn
<1>3. MinOf(S) \in S /\ \A j \in S : MinOf(S) <= j
  BY <1>2, MinOfNat
<1>4. FirstAt(m) = MinOf(S)
  BY DEF FirstAt
<1> QED
  BY <1>1, <1>3, <1>4

LEMMA FirstAtKept ==
    ASSUME StateOK, StateOK', LogGrows, NEW m, m \in Published
    PROVE  FirstAt(m)' = FirstAt(m)
<1> DEFINE T == {i \in DOMAIN log' : log'[i].msg = m}
<1>1. DOMAIN log' = 1..Len(log') /\ Len(log') \in Nat
  BY DEF StateOK, TypeOK, StreamTypes
<1>2. PICK f \in 1..Len(log) : /\ f = FirstAt(m) /\ log[f].msg = m
                               /\ \A i \in 1..Len(log) : log[i].msg = m => f <= i
  BY FirstAtIs
<1>3. f \in T
  BY <1>1, <1>2 DEF LogGrows
<1>4. T \in SUBSET Nat
  BY <1>1
<1>5. MinOf(T) \in T /\ \A j \in T : MinOf(T) <= j
  BY <1>3, <1>4, MinOfNat
<1>6. PICK g \in Nat : g = MinOf(T)
  BY <1>4, <1>5
<1>7. g <= f /\ g \in T
  BY <1>3, <1>5, <1>6
<1>8. g \in 1..Len(log) /\ log[g].msg = m
  BY <1>1, <1>2, <1>7 DEF LogGrows
<1>9. g = f
  BY <1>2, <1>7, <1>8
<1> QED
  BY <1>2, <1>6, <1>9 DEF FirstAt

\* When the running invocation sends a message, no earlier one of the topic is
\* still to come to the subscriber, but for its continuations.
LEMMA SendInTurn ==
    ASSUME StateOK, CoverOK, InTurn, NEW r \in Runs, NEW t \in Topics, NEW c \in Subs,
           NEW n \in Msgs, n = MsgOf(r, t), Sends(r, t, c),
           NEW m \in Msgs, Before(m, n), <<m, c>> \in owed, ~Requeued(m)
    PROVE  got[m][c] > 0 \/ Excused(m, c)
<1> SUFFICES ASSUME ~(got[m][c] > 0 \/ Excused(m, c)) PROVE FALSE
  OBVIOUS
<1>1. pc[r][t] = "send" /\ TopicOf[n] = t
  BY SendsTo
<1>2. run[r] = "active"
  BY <1>1 DEF CoverOK, IdleEmpty, InTurn, NoneAbandoned, StateOK, TypeOK, RunTypes
<1>3. ~Safe(m, c)
  BY DEF Safe, HeldLate, InTurn, NoneAbandoned
<1>4. TopicOf[m] = t /\ m # n /\ m \in Published /\ n \in Published /\ FirstAt(m) < FirstAt(n)
  BY <1>1 DEF Before
<1>5. PICK i \in Nat : Carries(i, m, c) /\ Comes(r, t, i, c)
  BY <1>2, <1>3, <1>4 DEF CoverOK, Covered, Pending
<1>6. i \in 1..Len(log) /\ log[i].msg = m
  BY <1>5 DEF Carries
<1>7. at[r][t] \in 1..Len(log) /\ log[at[r][t]].msg = n /\ at[r][t] <= hi[r] /\ hi[r] \in Nat
  BY <1>1, <1>2 DEF CoverOK, AtInBatch, StateOK, TypeOK, RunTypes, GroupsOK, AtOK, MsgOf
<1>8. at[r][t] < i
  BY <1>4, <1>5, <1>6, <1>7 DEF Comes
<1>9. /\ FirstAt(m) \in 1..Len(log) /\ log[FirstAt(m)].msg = m /\ FirstAt(m) <= i
      /\ FirstAt(n) \in 1..Len(log) /\ FirstAt(n) <= at[r][t]
  BY <1>4, <1>6, <1>7, FirstAtIs
<1>10. log[i].cursor = 0
  <2>1. DOMAIN log = 1..Len(log)
    BY DEF StateOK, TypeOK, StreamTypes
  <2> QED
    BY <1>6, <2>1 DEF Requeued
<1>11. PICK f \in Nat : f = FirstAt(m)
  BY <1>9
<1>12. ~(f < i)
  BY <1>6, <1>9, <1>10, <1>11 DEF InTurn, Continued
<1> QED
  BY <1>4, <1>6, <1>7, <1>8, <1>9, <1>11, <1>12

LEMMA OrderStep ==
    ASSUME StateOK, StateOK', CoverOK, InTurn, OrderUnlessRequeued, [Next]_vars
    PROVE  OrderUnlessRequeued'
<1>1. CASE UNCHANGED vars
  BY <1>1 DEF vars, streamVars, histVars, OrderUnlessRequeued, Before, Published, FirstAt,
              Excused, Stranded, Requeued
<1>2. CASE Next
  <2> SUFFICES ASSUME NEW m \in Msgs, NEW n \in Msgs, NEW c \in Subs, Before(m, n)',
                      <<m, c>> \in owed', <<n, c>> \in owed', got'[n][c] > 0,
                      ~(got'[m][c] > 0 \/ Excused(m, c)' \/ Requeued(m)')
               PROVE  FALSE
    BY DEF OrderUnlessRequeued
  <2>1. Remembered
    BY <1>2, NothingForgotten
  <2>2. ~(got[m][c] > 0) /\ ~Excused(m, c)
    BY <2>1 DEF Remembered, Excused, Stranded
  <2>3. ~Requeued(m)
    <3>1. DOMAIN log = 1..Len(log) /\ DOMAIN log' = 1..Len(log')
      BY DEF StateOK, TypeOK, StreamTypes
    <3> QED
      BY <2>1, <3>1 DEF Remembered, LogGrows, Requeued
  <2>4. ASSUME NEW k \in Msgs, Publish(k) PROVE FALSE
    <3>1. got' = got /\ k \notin Published /\ LogGrows /\ Len(log') = Len(log) + 1
          /\ log'[Len(log) + 1].msg = k
      BY <2>4, PublishTo
    <3>2. m # n /\ n \in Published' /\ m \in Published' /\ FirstAt(m)' < FirstAt(n)'
          /\ TopicOf[m] = TopicOf[n]
      BY DEF Before
    <3>3. n \in Published
      BY <3>1 DEF InTurn, Untouched
    <3>4. n # k
      BY <3>1, <3>3
    <3>5. CASE m = k
      <4>1. FirstAt(n)' = FirstAt(n) /\ FirstAt(n) \in 1..Len(log)
        BY <3>1, <3>3, FirstAtKept, FirstAtIs
      <4>2. PICK S : S = {i \in DOMAIN log' : log'[i].msg = m}
        OBVIOUS
      <4>3. DOMAIN log' = 1..Len(log') /\ Len(log') \in Nat /\ Len(log) \in Nat
        BY DEF StateOK, TypeOK, StreamTypes
      <4>4. S = {Len(log) + 1}
        <5>1. \A i \in 1..Len(log) : log'[i].msg # m
          BY <3>1, <3>5, PublishedIn DEF LogGrows
        <5> QED
          BY <3>1, <3>5, <4>2, <4>3, <5>1
      <4>5. FirstAt(m)' \in S
        <5>1. S \in SUBSET Nat /\ S # {}
          BY <4>3, <4>4
        <5>2. FirstAt(m)' = MinOf(S)
          BY <4>2 DEF FirstAt
        <5> QED
          BY <5>1, <5>2, MinOfNat
      <4> QED
        BY <3>2, <4>1, <4>3, <4>4, <4>5
    <3>6. CASE m # k
      <4>1. m \in Published
        <5>1. m \in Published \/ Publish(m)
          BY <1>2, <3>2, PublishedNext
        <5>2. ~Publish(m)
          <6>1. Publish(m) => log'[Len(log) + 1].msg = m
            BY PublishTo
          <6> QED
            BY <3>1, <3>6, <6>1
        <5> QED
          BY <5>1, <5>2
      <4>2. Before(m, n)
        BY <3>1, <3>2, <3>3, <4>1, FirstAtKept DEF Before
      <4>3. <<m, c>> \in owed /\ <<n, c>> \in owed
        BY <2>4, <3>4, <3>6 DEF Publish
      <4> QED
        BY <2>2, <2>3, <3>1, <4>2, <4>3 DEF OrderUnlessRequeued
    <3> QED
      BY <3>5, <3>6
  <2>5. CASE ~ \E k \in Msgs : Publish(k)
    <3>1. Before(m, n)
      <4>1. m # n /\ n \in Published' /\ m \in Published' /\ FirstAt(m)' < FirstAt(n)'
            /\ TopicOf[m] = TopicOf[n]
        BY DEF Before
      <4>2. m \in Published /\ n \in Published
        BY <1>2, <2>5, <4>1, PublishedNext
      <4> QED
        BY <2>1, <4>1, <4>2, FirstAtKept DEF Before, Remembered
    <3>2. <<m, c>> \in owed /\ <<n, c>> \in owed
      BY <1>2, <2>5, Effects, RequeuesTo, SendsTo, ForgetsTo
    <3>3. ASSUME NEW r \in Runs, NEW t \in Topics, NEW d \in Subs, Sends(r, t, d),
                 ~(got[n][c] > 0)
          PROVE  FALSE
      <4>1. PICK k \in Msgs : k = MsgOf(r, t)
        BY <3>3, SendsTo
      <4>2. got' = [got EXCEPT ![k][d] = @ + 1] /\ got \in [Msgs -> [Subs -> Nat]]
        BY <3>3, <4>1, SendsTo DEF StateOK, TypeOK, HistTypes
      <4>3. k = n /\ d = c
        BY <3>3, <4>2, CountUp
      <4> QED
        BY <2>2, <2>3, <3>1, <3>2, <3>3, <4>1, <4>3, SendInTurn
    <3>4. got[n][c] > 0
      BY <1>2, <2>5, <3>3, Effects, RequeuesTo, ForgetsTo
    <3> QED
      BY <2>2, <2>3, <3>1, <3>2, <3>4 DEF OrderUnlessRequeued
  <2> QED
    BY <2>4, <2>5
<1> QED
  BY <1>1, <1>2

LEMMA OrderInit == Init => OrderUnlessRequeued
  BY DEF Init, OrderUnlessRequeued

\* As long as the poller loses sight of no invocation, a message of a topic
\* never overtakes another at a subscriber both are owed to, unless the earlier
\* one was given up or is served by continuations: a topic's records are one
\* group, a failed one stops its group, and the batch is retried from there.
THEOREM OrderIsKept ==
    ASSUME "abandon" \notin Faults
    PROVE  Spec => []OrderUnlessRequeued
<1>1. InTurn /\ StateOK /\ StateOK' /\ [Next]_vars => InTurn'
  BY InTurnStep
<1>2. /\ StateOK /\ StateOK' /\ CoverOK /\ InTurn /\ OrderUnlessRequeued /\ [Next]_vars
      => OrderUnlessRequeued'
  BY OrderStep
<1> QED
  BY <1>1, <1>2, StateOKInit, StateOKStep, CoverOKInit, CoverOKStep, InTurnInit, OrderInit,
     PTL DEF Spec

-----------------------------------------------------------------------------
(* What is given up: attempts are used up by the record at the head only.    *)

\* The attempts counted are the head's, which failed or died, and the batch of a
\* running invocation has a head.
HeadToBlame == attempts > 0 => ckpt < Len(log) /\ log[ckpt + 1].msg \in blamed
BatchHeaded == \A r \in Runs : run[r] = "active" => ckpt < hi[r]
BlameOK == NeighboursSpared /\ HeadToBlame /\ BatchHeaded

LEMMA BlameOKInit == Init => BlameOK
  BY DEF Init, BlameOK, NeighboursSpared, HeadToBlame, BatchHeaded

\* Only these steps give up, blame or count.
LEMMA BlameMoves ==
    ASSUME StateOK, Next
    PROVE  \/ Discard \/ \E r \in Runs : EndRun(r) \/ Kill(r) \/ Abandon(r)
           \/ UNCHANGED <<ckpt, attempts, dlq, blamed>>
<1> DEFINE Kept == UNCHANGED <<ckpt, attempts, dlq, blamed>>
<1>1. ASSUME NEW r \in Runs, NEW t \in Topics,
             GroupStep(r, t) \/ Requeue(r, t) \/ GroupFault(r, t)
      PROVE  Kept
  <2>1. PageStep(r, t) \/ \E c \in Subs : DeliverAny(r, t, c)
    BY <1>1 DEF GroupStep, GroupFault, PageStep, DeliverAny
  <2>2. PageStep(r, t) => Kept
    BY DEF PageStep, ReadPage, NextBatch, PageUnreadable, PageFailed, LastPageDone, NextPage,
       Requeue, RequeueFails, RequeueUnconfirmed, streamVars
  <2>3. \A c \in Subs : DeliverAny(r, t, c) => Kept
    BY DEF DeliverAny, DeliverStep, Claim, Send, SendGone, Reap, Release, ClaimFails,
       ClaimUnconfirmed, SendFails, SendUnanswered, ReapFails, ReleaseFails, streamVars
  <2> QED
    BY <2>1, <2>2, <2>3
<1>2. \A m \in Msgs : Publish(m) => Kept
  BY DEF Publish
<1>3. \A t \in Topics, c \in Subs : Join(t, c) \/ Leave(t, c) => Kept
  BY DEF Join, Leave, streamVars
<1>4. \A c \in Subs : HangUp(c) \/ Disconnected(c) => Kept
  BY DEF HangUp, Disconnected, streamVars
<1>5. \A r \in Runs, h \in 1..MaxLog : StartRun(r, h) => Kept
  BY DEF StartRun, streamVars
<1>6. \A m \in Msgs, c \in Subs : Expire(m, c) => Kept
  BY DEF Expire, streamVars
<1> QED
  BY <1>1, <1>2, <1>3, <1>4, <1>5, <1>6 DEF Next, Poll

\* The poller resumes at a record that failed in the invocation that ended.
LEMMA EndBlames ==
    ASSUME StateOK, BlameOK, NEW r \in Runs, EndRun(r)
    PROVE  NeighboursSpared' /\ HeadToBlame'
<1>1. CASE run[r] # "active"
  BY <1>1 DEF EndRun, BlameOK, NeighboursSpared, HeadToBlame
<1>2. CASE run[r] = "active"
  <2>1. /\ ckpt' = Checkpoint(r) /\ log' = log /\ dlq' = dlq
        /\ blamed' = blamed \cup {MsgOf(r, t) : t \in FailedGroups(r)}
        /\ attempts' = IF Failing(r) = {} THEN 0
                       ELSE IF Checkpoint(r) = ckpt THEN attempts + 1 ELSE 1
    BY <1>2 DEF EndRun
  <2>2. NeighboursSpared'
    BY <2>1 DEF BlameOK, NeighboursSpared
  <2>3. CASE Failing(r) = {}
    BY <2>1, <2>2, <2>3 DEF HeadToBlame
  <2>4. CASE Failing(r) # {}
    <3>1. /\ Failing(r) \in SUBSET Nat
          /\ \A i \in Failing(r) : i \in 1..Len(log) /\ log[i].msg \in blamed'
      <4>1. \A t \in FailedGroups(r) : at[r][t] \in 1..Len(log) /\ MsgOf(r, t) \in blamed'
        BY <2>1 DEF FailedGroups, StateOK, GroupsOK, AtOK
      <4> QED
        BY <4>1 DEF Failing, MsgOf
    <3>2. MinOf(Failing(r)) \in Failing(r)
      BY <2>4, <3>1, MinOfNat
    <3>3. PICK i \in 1..Len(log) : i = MinOf(Failing(r)) /\ log[i].msg \in blamed'
      BY <3>1, <3>2
    <3>4. Checkpoint(r) = i - 1
      BY <2>4, <3>3 DEF Checkpoint
    <3>5. i \in Nat /\ Len(log) \in Nat /\ (i - 1) + 1 = i
      BY <3>3 DEF StateOK, TypeOK, StreamTypes
    <3>6. ckpt' + 1 = i /\ ckpt' < Len(log')
      BY <2>1, <3>3, <3>4, <3>5
    <3>7. log'[ckpt' + 1].msg \in blamed'
      BY <2>1, <3>3, <3>6
    <3> QED
      BY <2>2, <3>6, <3>7 DEF HeadToBlame
  <2> QED
    BY <2>3, <2>4
<1> QED
  BY <1>1, <1>2

\* A batch that dies is blamed on its head.
LEMMA DeathBlames ==
    ASSUME StateOK, BlameOK, NEW r \in Runs, Kill(r) \/ Abandon(r)
    PROVE  NeighboursSpared' /\ HeadToBlame'
<1>1. log' = log /\ ckpt' = ckpt /\ dlq' = dlq
  BY DEF Kill, Abandon
<1>2. CASE run[r] # "active"
  <2>1. attempts' = attempts /\ blamed' = blamed
    BY <1>2 DEF Kill, Abandon
  <2> QED
    BY <1>1, <2>1 DEF BlameOK, NeighboursSpared, HeadToBlame
<1>3. CASE run[r] = "active"
  <2>1. blamed' = blamed \cup Headed
    BY <1>3 DEF Kill, Abandon
  <2>2. ckpt \in Nat /\ hi[r] \in Nat /\ Len(log) \in Nat /\ hi[r] <= Len(log) /\ ckpt < hi[r]
    BY <1>3 DEF StateOK, TypeOK, StreamTypes, RunTypes, GroupsOK, BatchOK, BlameOK, BatchHeaded
  <2>3. ckpt + 1 \in 1..Len(log) /\ DOMAIN log = 1..Len(log)
    BY <2>2 DEF StateOK, TypeOK, StreamTypes
  <2>4. log[ckpt + 1].msg \in Headed
    BY <2>3 DEF Headed
  <2> QED
    BY <1>1, <2>1, <2>2, <2>4 DEF BlameOK, NeighboursSpared, HeadToBlame
<1> QED
  BY <1>2, <1>3

LEMMA BatchHeadedStep == ASSUME StateOK, BlameOK, Next PROVE BatchHeaded'
<1> SUFFICES ASSUME NEW r \in Runs, run'[r] = "active" PROVE ckpt' < hi'[r]
  BY DEF BatchHeaded
<1>1. ckpt' = ckpt
  BY RunningKeepsCheckpoint
<1>2. CASE run'[r] = run[r] /\ hi'[r] = hi[r]
  BY <1>1, <1>2 DEF BlameOK, BatchHeaded
<1>3. ASSUME NEW h \in 1..MaxLog, StartRun(r, h) PROVE ckpt' < hi'[r]
  <2>1. hi'[r] = h
    BY <1>3, StartTo
  <2>2. ckpt \in Nat /\ h \in (ckpt + 1)..Len(log) /\ Len(log) \in Nat
    BY <1>3 DEF StartRun, StateOK, TypeOK, StreamTypes
  <2> QED
    BY <1>1, <2>1, <2>2
<1>4. ~Abandon(r)
  BY DEF Abandon, StateOK, TypeOK, RunTypes
<1> QED
  BY <1>2, <1>3, <1>4, RunsMove

LEMMA BlameOKStep == StateOK /\ BlameOK /\ [Next]_vars => BlameOK'
<1> SUFFICES ASSUME StateOK, BlameOK, [Next]_vars PROVE BlameOK'
  OBVIOUS
<1>1. CASE UNCHANGED vars
  BY <1>1 DEF vars, streamVars, BlameOK, NeighboursSpared, HeadToBlame, BatchHeaded
<1>2. CASE Next
  <2>1. BatchHeaded'
    BY <1>2, BatchHeadedStep
  <2>2. CASE Discard
    <3>1. /\ attempts > 0 /\ attempts' = 0 /\ blamed' = blamed
          /\ dlq' = dlq \cup {log[ckpt + 1].msg}
      BY <2>2, OutboxAssumption DEF Discard
    <3> QED
      BY <2>1, <3>1 DEF BlameOK, NeighboursSpared, HeadToBlame
  <2>3. CASE UNCHANGED <<ckpt, attempts, dlq, blamed>>
    <3>1. /\ Len(log) \in Nat /\ Len(log') \in Nat /\ Len(log) <= Len(log') /\ ckpt \in Nat
          /\ \A i \in 1..Len(log) : log'[i] = log[i]
      BY <1>2, NothingForgotten DEF Remembered, LogGrows, StateOK, TypeOK, StreamTypes
    <3>2. NeighboursSpared'
      BY <2>3 DEF BlameOK, NeighboursSpared
    <3>3. HeadToBlame'
      BY <2>3, <3>1 DEF BlameOK, HeadToBlame
    <3> QED
      BY <2>1, <3>2, <3>3 DEF BlameOK
  <2>4. ASSUME NEW r \in Runs, EndRun(r) \/ Kill(r) \/ Abandon(r) PROVE BlameOK'
    BY <2>1, <2>4, EndBlames, DeathBlames DEF BlameOK
  <2> QED
    BY <1>2, <2>2, <2>3, <2>4, BlameMoves
<1> QED
  BY <1>1, <1>2

\* However many topics share a batch, and however often one of them fails, what
\* is given up failed itself or headed a batch whose invocation died: flush()
\* reports each group's own failure, and the poller resumes at the lowest.
THEOREM NeighboursAreSpared == Spec => []NeighboursSpared
<1>1. BlameOK => NeighboursSpared
  BY DEF BlameOK
<1> QED
  BY <1>1, StateOKInit, StateOKStep, BlameOKInit, BlameOKStep, PTL DEF Spec

-----------------------------------------------------------------------------
(* While no invocation is lost sight of: the contract of Fanout.             *)

Accounted(m) == m \in Published => Settled(m)
SettledMsgs == {m \in Msgs : Accounted(m)}

\* What waives a pair is never taken back.
LEMMA ExpiredGrows ==
    ASSUME StateOK, Next, NEW m \in Msgs, NEW c \in Subs
    PROVE  expired[m][c] > 0 => expired'[m][c] > 0
<1>1. expired \in [Msgs -> [Subs -> Nat]]
  BY DEF StateOK, TypeOK, HistTypes
<1>2. ASSUME NEW n \in Msgs, NEW d \in Subs, Expire(n, d)
      PROVE  expired[m][c] > 0 => expired'[m][c] > 0
  <2>1. expired' = [expired EXCEPT ![n][d] = @ + 1]
    BY <1>2 DEF Expire
  <2>2. expired'[m][c] = expired[m][c] \/ expired'[m][c] = expired[m][c] + 1
    BY <1>1, <2>1, CountUp
  <2>3. expired[m][c] \in Nat
    BY <1>1
  <2> QED
    BY <2>2, <2>3
<1>3. ASSUME NEW r \in Runs, NEW t \in Topics,
             GroupStep(r, t) \/ Requeue(r, t) \/ GroupFault(r, t)
      PROVE  expired' = expired
  <2>1. PageStep(r, t) \/ \E d \in Subs : DeliverAny(r, t, d)
    BY <1>3 DEF GroupStep, GroupFault, PageStep, DeliverAny
  <2>2. PageStep(r, t) => expired' = expired
    BY PageStepTo
  <2>3. \A d \in Subs : DeliverAny(r, t, d) => expired' = expired
    BY DEF DeliverAny, DeliverStep, Claim, Send, SendGone, Reap, Release, ClaimFails,
       ClaimUnconfirmed, SendFails, SendUnanswered, ReapFails, ReleaseFails, histVars
  <2> QED
    BY <2>1, <2>2, <2>3
<1>4. \A n \in Msgs : Publish(n) => expired' = expired
  BY DEF Publish
<1>5. \A t \in Topics, d \in Subs : Join(t, d) \/ Leave(t, d) => expired' = expired
  BY DEF Join, Leave, histVars
<1>6. \A d \in Subs : HangUp(d) \/ Disconnected(d) => expired' = expired
  BY DEF HangUp, Disconnected, histVars
<1>7. Discard => expired' = expired
  BY DEF Discard, histVars
<1>8. \A r \in Runs : EndRun(r) \/ Kill(r) \/ Abandon(r) => expired' = expired
  BY DEF EndRun, Kill, Abandon, histVars
<1>9. \A r \in Runs, h \in 1..MaxLog : StartRun(r, h) => expired' = expired
  BY DEF StartRun, histVars
<1> QED
  BY <1>2, <1>3, <1>4, <1>5, <1>6, <1>7, <1>8, <1>9 DEF Next, Poll

LEMMA UnackedGrows ==
    ASSUME StateOK, Next, NEW m \in Msgs, NEW c \in Subs
    PROVE  unacked[m][c] > 0 => unacked'[m][c] > 0
<1>1. unacked \in [Msgs -> [Subs -> Nat]]
  BY DEF StateOK, TypeOK, HistTypes
<1>2. ASSUME NEW r \in Runs, NEW t \in Topics, NEW d \in Subs, SendUnanswered(r, t, d)
      PROVE  unacked[m][c] > 0 => unacked'[m][c] > 0
  <2>1. PICK n \in Msgs : n = MsgOf(r, t)
    BY <1>2, SendsTo DEF Sends
  <2>2. unacked' = [unacked EXCEPT ![n][d] = @ + 1]
    BY <1>2, <2>1 DEF SendUnanswered
  <2>3. unacked'[m][c] = unacked[m][c] \/ unacked'[m][c] = unacked[m][c] + 1
    BY <1>1, <2>2, CountUp
  <2>4. unacked[m][c] \in Nat
    BY <1>1
  <2> QED
    BY <2>3, <2>4
<1>3. ASSUME NEW r \in Runs, NEW t \in Topics,
             GroupStep(r, t) \/ Requeue(r, t) \/ GroupFault(r, t)
      PROVE  unacked' = unacked \/ \E d \in Subs : SendUnanswered(r, t, d)
  <2>1. PageStep(r, t) \/ \E d \in Subs : DeliverAny(r, t, d)
    BY <1>3 DEF GroupStep, GroupFault, PageStep, DeliverAny
  <2>2. PageStep(r, t) => unacked' = unacked
    BY PageStepTo
  <2>3. \A d \in Subs : DeliverAny(r, t, d) => unacked' = unacked \/ SendUnanswered(r, t, d)
    BY DEF DeliverAny, DeliverStep, Claim, Send, SendGone, Reap, Release, ClaimFails,
       ClaimUnconfirmed, SendFails, ReapFails, ReleaseFails, histVars
  <2> QED
    BY <2>1, <2>2, <2>3
<1>4. \A n \in Msgs : Publish(n) => unacked' = unacked
  BY DEF Publish
<1>5. \A t \in Topics, d \in Subs : Join(t, d) \/ Leave(t, d) => unacked' = unacked
  BY DEF Join, Leave, histVars
<1>6. \A d \in Subs : HangUp(d) \/ Disconnected(d) => unacked' = unacked
  BY DEF HangUp, Disconnected, histVars
<1>7. Discard => unacked' = unacked
  BY DEF Discard, histVars
<1>8. \A r \in Runs : EndRun(r) \/ Kill(r) \/ Abandon(r) => unacked' = unacked
  BY DEF EndRun, Kill, Abandon, histVars
<1>9. \A r \in Runs, h \in 1..MaxLog : StartRun(r, h) => unacked' = unacked
  BY DEF StartRun, histVars
<1>10. \A n \in Msgs, d \in Subs : Expire(n, d) => unacked' = unacked
  BY DEF Expire
<1> QED
  BY <1>2, <1>3, <1>4, <1>5, <1>6, <1>7, <1>8, <1>9, <1>10 DEF Next, Poll

\* A pair is waived by an excuse, a frame that was reported failed, or an
\* expired claim.
LEMMA WaivedPair ==
    ASSUME NEW m \in Msgs, NEW c \in Subs
    PROVE  <<m, c>> \in Waived <=> Excused(m, c) \/ unacked[m][c] > 0 \/ expired[m][c] > 0
  BY DEF Waived, Pairs

LEMMA WaivedGrows == ASSUME StateOK, Next PROVE Waived \subseteq Waived'
<1> SUFFICES ASSUME NEW m \in Msgs, NEW c \in Subs, <<m, c>> \in Waived
             PROVE  <<m, c>> \in Waived'
  BY DEF Waived, Pairs
<1>1. Excused(m, c) \/ unacked[m][c] > 0 \/ expired[m][c] > 0
  BY WaivedPair
<1>2. Excused(m, c) => Excused(m, c)'
  BY NothingForgotten DEF Remembered, Excused, Stranded
<1>3. Excused(m, c)' \/ unacked'[m][c] > 0 \/ expired'[m][c] > 0
  BY <1>1, <1>2, UnackedGrows, ExpiredGrows
<1> QED
  BY <1>3 DEF Waived, Pairs

LEMMA CheckpointGrows ==
    ASSUME StateOK, CoverOK, InTurn, Next
    PROVE  ckpt <= ckpt'
<1>1. ckpt \in Nat
  BY DEF StateOK, TypeOK, StreamTypes
<1>2. CASE Discard
  BY <1>1, <1>2 DEF Discard
<1>3. ASSUME NEW r \in Runs, run[r] = "active" PROVE ckpt <= Checkpoint(r)
  <2>1. /\ Failing(r) \in SUBSET Nat /\ \A i \in Failing(r) : ckpt < i
    BY <1>3 DEF Failing, FailedGroups, CoverOK, AtInBatch, StateOK, TypeOK, GroupTypes
  <2>2. CASE Failing(r) = {}
    BY <1>3, <2>2 DEF Checkpoint, InTurn, BatchAhead
  <2>3. CASE Failing(r) # {}
    <3>1. MinOf(Failing(r)) \in Failing(r)
      BY <2>1, <2>3, MinOfNat
    <3>2. Checkpoint(r) = MinOf(Failing(r)) - 1
      BY <2>3 DEF Checkpoint
    <3> HIDE DEF Failing
    <3>3. PICK k \in Nat : k = MinOf(Failing(r))
      BY <2>1, <3>1
    <3> QED
      BY <1>1, <2>1, <3>1, <3>2, <3>3
  <2> QED
    BY <2>2, <2>3
<1> QED
  BY <1>1, <1>2, <1>3, CheckpointMoves

\* The message a group is on is not settled.
LEMMA GroupUnsettled ==
    ASSUME StateOK, CoverOK, InTurn, NEW r \in Runs, NEW t \in Topics, pc[r][t] # "none"
    PROVE  ~Accounted(MsgOf(r, t))
<1>1. MsgOf(r, t) \in Published
  BY GroupPublished
<1>2. run[r] = "active"
  BY DEF CoverOK, IdleEmpty, InTurn, NoneAbandoned, StateOK, TypeOK, RunTypes
<1>3. ckpt < at[r][t] /\ at[r][t] \in 1..Len(log) /\ ckpt \in Nat /\ Len(log) \in Nat
  BY <1>2 DEF CoverOK, AtInBatch, StateOK, TypeOK, StreamTypes, GroupsOK, AtOK
<1>4. at[r][t] \in (ckpt + 1)..Len(log) /\ log[at[r][t]].msg = MsgOf(r, t)
  BY <1>3 DEF MsgOf
<1> QED
  BY <1>1, <1>4 DEF Accounted, Settled

\* A message that is settled stays so: what is appended to the stream is new,
\* or carries on a record that is being flushed.
LEMMA SettledStays ==
    ASSUME StateOK, StateOK', CoverOK, InTurn, Next, NEW m \in Msgs, ~Publish(m), Accounted(m)
    PROVE  Accounted(m)'
<1> SUFFICES ASSUME m \in Published', NEW i \in (ckpt' + 1)..Len(log'), log'[i].msg = m
             PROVE  FALSE
  BY DEF Accounted, Settled
<1>1. m \in Published /\ \A j \in (ckpt + 1)..Len(log) : log[j].msg # m
  BY PublishedNext DEF Accounted, Settled
<1>2. ckpt <= ckpt' /\ ckpt \in Nat /\ ckpt' \in Nat /\ Len(log) \in Nat /\ Len(log') \in Nat
  BY CheckpointGrows DEF StateOK, TypeOK, StreamTypes
<1>3. CASE i <= Len(log)
  <2>1. i \in (ckpt + 1)..Len(log) /\ i \in 1..Len(log)
    <3>1. PICK k \in Nat, n \in Nat : k = ckpt' /\ n = Len(log')
      BY <1>2
    <3>2. i \in (k + 1)..n
      BY <3>1
    <3>3. ckpt <= k /\ ckpt \in Nat /\ Len(log) \in Nat
      BY <1>2, <3>1
    <3>4. i \in Nat /\ k < i
      BY <3>2
    <3> QED
      BY <1>3, <3>3, <3>4
  <2>2. log'[i] = log[i]
    BY <2>1, NothingForgotten DEF Remembered, LogGrows
  <2> QED
    BY <1>1, <2>1, <2>2
<1>4. ASSUME NEW k \in Msgs, Publish(k), i > Len(log) PROVE FALSE
  <2>1. k \notin Published /\ Len(log') = Len(log) + 1 /\ log'[Len(log) + 1].msg = k
    BY <1>4, PublishTo
  <2>2. i = Len(log) + 1
    BY <1>2, <1>4, <2>1
  <2> QED
    BY <1>1, <2>1, <2>2
<1>5. ASSUME NEW r \in Runs, NEW t \in Topics, Requeues(r, t), i > Len(log) PROVE FALSE
  <2>1. /\ pc[r][t] = "send" /\ Len(log') = Len(log) + 1
        /\ log'[Len(log) + 1].msg = MsgOf(r, t)
    BY <1>5, RequeuesTo
  <2>2. i = Len(log) + 1
    BY <1>2, <1>5, <2>1
  <2>3. MsgOf(r, t) = m
    BY <2>1, <2>2
  <2> QED
    BY <2>1, <2>3, GroupUnsettled
<1>6. (log' = log) => i <= Len(log)
  BY <1>2
<1> QED
  BY <1>2, <1>3, <1>4, <1>5, <1>6, Effects, SendsTo, ForgetsTo

\* ... and stays unsettled while neither the stream nor the checkpoint moves.
LEMMA SettledSame ==
    ASSUME UNCHANGED <<log, ckpt>>
    PROVE  SettledMsgs' = SettledMsgs
  BY DEF SettledMsgs, Accounted, Settled, Published

\* The steps of the contract that the steps of Outbox are.
LEMMA PublishIsFPublish ==
    ASSUME StateOK, StateOK', CoverOK, InTurn, NEW m \in Msgs, Publish(m)
    PROVE  Contract!FPublish(m)
<1>1. /\ m \notin Published /\ UNCHANGED <<ckpt, got>>
      /\ LogGrows /\ Len(log') = Len(log) + 1 /\ log'[Len(log) + 1].msg = m
  BY PublishTo
<1>2. Next
  BY DEF Next
<1>3. ckpt \in Nat /\ ckpt <= Len(log) /\ Len(log) \in Nat /\ DOMAIN log' = 1..Len(log')
  BY DEF StateOK, TypeOK, StreamTypes
<1>4. m \in SettledMsgs /\ \A c \in Subs : got[m][c] = 0 /\ <<m, c>> \notin owed
  BY <1>1 DEF SettledMsgs, Accounted, InTurn, Untouched
<1>5. ~Accounted(m)'
  <2>1. PICK j \in Nat : j = Len(log) + 1
    BY <1>3
  <2>2. j \in DOMAIN log' /\ j \in (ckpt' + 1)..Len(log') /\ log'[j].msg = m
    BY <1>1, <1>3, <2>1
  <2> QED
    BY <2>2 DEF Accounted, Published, Settled
<1>6. ASSUME NEW n \in Msgs, n # m PROVE Accounted(n)' <=> Accounted(n)
  <2>1. ~Publish(n)
    <3>1. Publish(n) => log'[Len(log) + 1].msg = n
      BY PublishTo
    <3> QED
      BY <1>1, <1>6, <3>1
  <2>2. Accounted(n) => Accounted(n)'
    BY <1>2, <2>1, SettledStays
  <2>3. Accounted(n)' => Accounted(n)
    <3>1. n \in Published => n \in Published'
      BY <1>2, PublishedNext
    <3>2. \A j \in (ckpt + 1)..Len(log) : j \in (ckpt' + 1)..Len(log') /\ log'[j] = log[j]
      BY <1>1, <1>3 DEF LogGrows
    <3> QED
      BY <3>1, <3>2 DEF Accounted, Settled
  <2> QED
    BY <2>2, <2>3
<1>7. SettledMsgs' = SettledMsgs \ {m}
  BY <1>5, <1>6 DEF SettledMsgs
<1>8. \E S \in SUBSET Subs : owed' = owed \cup ({m} \X S)
  <2>1. members[TopicOf[m]] \cap open \in SUBSET Subs
    BY DEF StateOK, TypeOK, TableTypes
  <2> QED
    BY <2>1 DEF Publish
<1>9. Waived' = Waived
  BY DEF Publish, Waived, Excused, Stranded
<1> QED
  BY <1>1, <1>4, <1>7, <1>8, <1>9 DEF Contract!FPublish, SettledMsgs, Accounted

LEMMA SendIsFDeliver ==
    ASSUME StateOK, StateOK', CoverOK, InTurn, LedgerOK,
           NEW r \in Runs, NEW t \in Topics, NEW c \in Subs, Sends(r, t, c),
           NEW m \in Msgs, m = MsgOf(r, t)
    PROVE  Contract!FDeliver(m, c)
<1>1. /\ pc[r][t] = "send" /\ task[r][t][c] = "sending"
      /\ got' = [got EXCEPT ![m][c] = @ + 1]
      /\ UNCHANGED <<log, ckpt, owed, stranded, dlq, expired>>
      /\ unacked' = unacked \/ unacked' = [unacked EXCEPT ![m][c] = @ + 1]
  BY SendsTo
<1>2. m \notin SettledMsgs
  BY <1>1, GroupUnsettled DEF SettledMsgs
<1>3. got[m][c] = 0 \/ <<m, c>> \in Waived
  <2>1. got[m][c] <= unacked[m][c] + expired[m][c]
    BY <1>1 DEF LedgerOK, UnspentClaims, Explained, Unspent
  <2>2. got[m][c] \in Nat /\ unacked[m][c] \in Nat /\ expired[m][c] \in Nat
    BY Counts
  <2>3. got[m][c] = 0 \/ unacked[m][c] > 0 \/ expired[m][c] > 0
    BY <2>1, <2>2
  <2> QED
    BY <2>3, WaivedPair
<1>4. Waived' \in {Waived, Waived \cup {<<m, c>>}}
  <2>1. CASE unacked' = unacked
    BY <1>1, <2>1 DEF Waived, Excused, Stranded
  <2>2. CASE unacked' = [unacked EXCEPT ![m][c] = @ + 1]
    <3>1. unacked \in [Msgs -> [Subs -> Nat]]
      BY DEF StateOK, TypeOK, HistTypes
    <3>2. \A n \in Msgs, d \in Subs :
            unacked'[n][d] = IF n = m /\ d = c THEN unacked[n][d] + 1 ELSE unacked[n][d]
      BY <2>2, <3>1, CountUp
    <3>3. unacked'[m][c] > 0
      <4>1. unacked[m][c] \in Nat /\ unacked'[m][c] = unacked[m][c] + 1
        BY <3>1, <3>2
      <4> QED
        BY <4>1
    <3>4. ASSUME NEW n \in Msgs, NEW d \in Subs
          PROVE  <<n, d>> \in Waived' <=> <<n, d>> \in Waived \/ (n = m /\ d = c)
      <4>1. <<n, d>> \in Waived' <=> Excused(n, d)' \/ unacked'[n][d] > 0 \/ expired'[n][d] > 0
        BY DEF Waived, Pairs
      <4>2. Excused(n, d)' <=> Excused(n, d)
        BY <1>1 DEF Excused, Stranded
      <4>3. CASE n = m /\ d = c
        BY <3>3, <4>1, <4>3
      <4>4. CASE ~(n = m /\ d = c)
        <5>1. unacked'[n][d] = unacked[n][d] /\ expired' = expired
          BY <1>1, <3>2, <4>4
        <5> QED
          BY <4>1, <4>2, <4>4, <5>1, WaivedPair
      <4> QED
        BY <4>3, <4>4
    <3>5. Waived' = Waived \cup {<<m, c>>}
      BY <3>4 DEF Waived, Pairs
    <3> QED
      BY <3>5
  <2> QED
    BY <1>1, <2>1, <2>2
<1>5. SettledMsgs' = SettledMsgs
  BY <1>1, SettledSame
<1> QED
  BY <1>1, <1>2, <1>3, <1>4, <1>5 DEF Contract!FDeliver, SettledMsgs, Accounted

LEMMA ForgetIsFForget ==
    ASSUME NEW c \in Subs, Forgets(c)
    PROVE  Contract!FForget(c)
<1>1. /\ UNCHANGED <<log, ckpt, got, stranded, dlq, unacked, expired>>
      /\ owed' \subseteq owed /\ \A p \in owed \ owed' : p[2] = c
  BY ForgetsTo
<1>2. Waived' = Waived
  BY <1>1 DEF Waived, Excused, Stranded
<1>3. SettledMsgs' = SettledMsgs
  BY <1>1, SettledSame
<1> QED
  BY <1>1, <1>2, <1>3 DEF Contract!FForget, SettledMsgs, Accounted

\* Every other step waives and settles, or does nothing the contract sees.
LEMMA OtherIsFSettle ==
    ASSUME StateOK, StateOK', CoverOK, CoverOK', InTurn, InTurn', Next,
           \A m \in Msgs : ~Publish(m), UNCHANGED <<got, owed>>
    PROVE  Contract!FSettle
<1>1. Waived \subseteq Waived' /\ Waived' \subseteq Pairs
  BY WaivedGrows DEF Waived
<1>2. SettledMsgs \subseteq SettledMsgs' /\ SettledMsgs' \subseteq Msgs
  BY SettledStays DEF SettledMsgs
<1>3. ASSUME NEW m \in SettledMsgs' \ SettledMsgs, NEW c \in Subs, <<m, c>> \in owed
      PROVE  got[m][c] > 0 \/ <<m, c>> \in Waived'
  <2>1. m \in Msgs /\ m \in Published /\ Accounted(m)'
    BY <1>3 DEF SettledMsgs, Accounted
  <2>2. Settled(m)'
    BY <2>1, PublishedNext DEF Accounted
  <2>3. Safe(m, c)' \/ Pending(m, c)'
    BY <1>3, <2>1 DEF CoverOK, Covered
  <2>4. ~Pending(m, c)'
    <3>1. ckpt' \in Nat /\ Len(log') \in Nat
      BY DEF StateOK, TypeOK, StreamTypes
    <3>2. PICK k \in Nat, n \in Nat : k = ckpt' /\ n = Len(log')
      BY <3>1
    <3>3. \A i \in (k + 1)..n : log'[i].msg # m
      BY <2>2, <3>2 DEF Settled
    <3>4. \A i \in 1..n : i > k => log'[i].msg # m
      BY <3>3
    <3> QED
      BY <3>2, <3>4 DEF Pending, Carries
  <2>5. ~HeldLate(m, c)'
    BY DEF HeldLate, InTurn, NoneAbandoned
  <2>6. got'[m][c] > 0 \/ Excused(m, c)'
    BY <2>3, <2>4, <2>5 DEF Safe
  <2>7. Excused(m, c)' => <<m, c>> \in Waived'
    BY <2>1 DEF Waived, Pairs
  <2> QED
    BY <2>6, <2>7
<1> QED
  BY <1>1, <1>2, <1>3 DEF Contract!FSettle, Contract!Pairs, Pairs, SettledMsgs, Accounted

\* At the start nothing is owed, and every message is settled.
LEMMA ContractInit == Init => Contract!FInit
<1> SUFFICES ASSUME Init PROVE Contract!FInit
  OBVIOUS
<1>1. /\ owed = {} /\ got = [m \in Msgs |-> [c \in Subs |-> 0]]
      /\ log = <<>> /\ stranded = {} /\ dlq = {}
      /\ \A m \in Msgs, c \in Subs : unacked[m][c] = 0 /\ expired[m][c] = 0
  BY DEF Init
<1>2. Waived = {}
  BY <1>1 DEF Waived, Excused, Stranded, Pairs
<1>3. SettledMsgs = Msgs
  BY <1>1 DEF SettledMsgs, Accounted, Published
<1> QED
  BY <1>1, <1>2, <1>3 DEF Contract!FInit, SettledMsgs, Accounted

LEMMA ContractStep ==
    ASSUME StateOK, StateOK', CoverOK, CoverOK', InTurn, InTurn', LedgerOK, [Next]_vars
    PROVE  [Contract!FNext]_(Contract!fvars)
<1>1. CASE UNCHANGED vars
  <2>1. UNCHANGED <<log, ckpt, dlq, got, owed, stranded, unacked, expired>>
    BY <1>1 DEF vars, streamVars, histVars
  <2>2. Waived' = Waived /\ SettledMsgs' = SettledMsgs
    BY <2>1, SettledSame DEF Waived, Excused, Stranded
  <2> QED
    BY <2>1, <2>2 DEF Contract!fvars, SettledMsgs, Accounted
<1>2. ASSUME NEW m \in Msgs, Publish(m) PROVE Contract!FNext
  BY <1>2, PublishIsFPublish DEF Contract!FNext
<1>3. ASSUME NEW r \in Runs, NEW t \in Topics, NEW c \in Subs, Sends(r, t, c)
      PROVE  Contract!FNext
  <2>1. PICK m \in Msgs : m = MsgOf(r, t)
    BY <1>3, SendsTo
  <2> QED
    BY <1>3, <2>1, SendIsFDeliver DEF Contract!FNext
<1>4. ASSUME NEW c \in Subs, Forgets(c) PROVE Contract!FNext
  BY <1>4, ForgetIsFForget DEF Contract!FNext
<1>5. CASE Next /\ UNCHANGED <<got, owed>> /\ \A m \in Msgs : ~Publish(m)
  BY <1>5, OtherIsFSettle DEF Contract!FNext
<1>6. ASSUME NEW r \in Runs, NEW t \in Topics, Requeues(r, t) PROVE UNCHANGED <<got, owed>>
  BY <1>6, RequeuesTo
<1> QED
  BY <1>1, <1>2, <1>3, <1>4, <1>5, <1>6, Effects

\* As long as the poller loses sight of no invocation, durable fan-out is the
\* contract of Fanout: whatever flush() and its surroundings do is a publish, a
\* delivery that was owed once, a subscriber that goes, or messages settled with
\* every pair served or waived by a named failure.
THEOREM OutboxIsAFanout ==
    ASSUME "abandon" \notin Faults
    PROVE  Spec => Contract!FInit /\ [][Contract!FNext]_(Contract!fvars)
<1>1. InTurn /\ StateOK /\ StateOK' /\ [Next]_vars => InTurn'
  BY InTurnStep
<1>2. StateOK /\ StateOK' /\ CoverOK /\ CoverOK' /\ InTurn /\ InTurn' /\ LedgerOK /\ [Next]_vars
      => [Contract!FNext]_(Contract!fvars)
  BY ContractStep
<1> QED
  BY <1>1, <1>2, StateOKInit, StateOKStep, CoverOKInit, CoverOKStep, LedgerOKInit, LedgerOKStep,
     InTurnInit, ContractInit, PTL DEF Spec
=============================================================================
