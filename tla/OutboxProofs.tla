---------------------------- MODULE OutboxProofs ----------------------------
(***************************************************************************)
(* Type correctness of Outbox, and that frames are duplicated only by the  *)
(* failures named in DuplicatesExplained.                                  *)
(***************************************************************************)
EXTENDS Outbox, WellFoundedInduction, TLAPS

\* The least element of a set of naturals exists, and MinOf finds it.
LEMMA MinOfNat ==
    ASSUME NEW S \in SUBSET Nat, S # {}
    PROVE  MinOf(S) \in S /\ \A j \in S : MinOf(S) <= j
<1> DEFINE Below == {p \in Nat \X Nat : p[1] < p[2]}
<1>1. IsWellFoundedOn(Below, Nat)
  BY NatLessThanWellFounded DEF OpToRel
<1>2. \E x \in S : \A y \in S : ~(<<y, x>> \in Below)
  <2> HIDE DEF Below
  <2> QED
    BY <1>1, WFMin, Zenon
<1>3. PICK x \in S : \A y \in S : ~(<<y, x>> \in Below)
  BY <1>2
<1>4. ASSUME NEW y \in S PROVE x <= y
  <2>1. ~(y < x)
    BY <1>3, <<y, x>> \in Nat \X Nat, <<y, x>>[1] = y, <<y, x>>[2] = x
  <2> QED
    BY <2>1
<1> QED
  BY <1>4 DEF MinOf

\* What a group remembers points into the stream: its record is one of its
\* topic's, and it holds deliveries only while it sends. The running invocation
\* still has an attempt left.
BatchOK    == \A r \in Runs : hi[r] <= Len(log)
AtOK       == \A r \in Runs, t \in Topics :
                pc[r][t] # "none" => at[r][t] \in 1..Len(log) /\ TopicOf[log[at[r][t]].msg] = t
TasksOK    == \A r \in Runs, t \in Topics : pc[r][t] # "send" => task[r][t] = NoTasks
AttemptsOK == \A r \in Runs : run[r] = "active" => attempts < MaxAttempts

GroupsOK == BatchOK /\ AtOK /\ TasksOK /\ AttemptsOK
StateOK == TypeOK /\ GroupsOK

USE OutboxAssumption

LEMMA StateOKInit == Init => StateOK
<1> SUFFICES ASSUME Init PROVE StateOK
  OBVIOUS
<1>1. NoTasks \in [Subs -> TaskStates]
  BY DEF NoTasks, TaskStates
<1>2. StreamTypes /\ TableTypes /\ RunTypes /\ HistTypes
  BY DEF Init, StreamTypes, TableTypes, RunTypes, HistTypes, Pairs
<1>3. GroupTypes
  BY <1>1 DEF Init, GroupTypes
<1>4. GroupsOK
  BY DEF Init, GroupsOK, BatchOK, AtOK, TasksOK, AttemptsOK
<1> QED
  BY <1>2, <1>3, <1>4 DEF StateOK, TypeOK

-----------------------------------------------------------------------------
(* What the helpers of the model do.                                       *)

\* What a nested EXCEPT is, for the state each group keeps.
LEMMA GroupUpdate ==
    ASSUME NEW S, NEW f \in [Runs -> [Topics -> S]], NEW r \in Runs, NEW t \in Topics,
           NEW v \in S, NEW g, g = [f EXCEPT ![r][t] = v]
    PROVE  /\ g \in [Runs -> [Topics -> S]]
           /\ \A q \in Runs, u \in Topics :
                g[q][u] = IF q = r /\ u = t THEN v ELSE f[q][u]
  OBVIOUS

\* The same for the state a whole invocation keeps.
LEMMA RunUpdate ==
    ASSUME NEW S, NEW f \in [Runs -> [Topics -> S]], NEW r \in Runs,
           NEW v \in [Topics -> S], NEW g, g = [f EXCEPT ![r] = v]
    PROVE  /\ g \in [Runs -> [Topics -> S]]
           /\ \A q \in Runs, u \in Topics :
                g[q][u] = IF q = r THEN v[u] ELSE f[q][u]
  OBVIOUS

\* And what counting one more frame for a pair does.
LEMMA CountUp ==
    ASSUME NEW f \in [Msgs -> [Subs -> Nat]], NEW m \in Msgs, NEW c \in Subs,
           NEW g, g = [f EXCEPT ![m][c] = @ + 1]
    PROVE  /\ g \in [Msgs -> [Subs -> Nat]]
           /\ \A n \in Msgs, d \in Subs :
                g[n][d] = IF n = m /\ d = c THEN f[n][d] + 1 ELSE f[n][d]
<1> DEFINE h == [f[m] EXCEPT ![c] = f[m][c] + 1]
<1>1. h \in [Subs -> Nat] /\ \A d \in Subs : h[d] = IF d = c THEN f[m][d] + 1 ELSE f[m][d]
  OBVIOUS
<1>2. g = [f EXCEPT ![m] = h]
  OBVIOUS
<1> HIDE DEF h
<1>3. g \in [Msgs -> [Subs -> Nat]] /\ \A n \in Msgs : g[n] = IF n = m THEN h ELSE f[n]
  BY <1>1, <1>2
<1> QED
  BY <1>1, <1>3

LEMMA NoTasksType == NoTasks \in [Subs -> TaskStates]
  BY DEF NoTasks, TaskStates

LEMMA RecordFields ==
    ASSUME StreamTypes, NEW i \in 1..Len(log)
    PROVE  log[i].msg \in Msgs /\ log[i].cursor \in Subs \cup {0}
<1>1. log[i] \in Records
  <2>1. log \in Seq(Records)
    BY DEF StreamTypes
  <2> QED
    BY <2>1
<1> QED
  BY <1>1 DEF Records

LEMMA EntriesAreRecords ==
    ASSUME NEW t, NEW lo \in Nat, NEW h \in Nat, StreamTypes, lo > 0, h <= Len(log)
    PROVE  /\ Entries(t, lo, h) \in SUBSET Nat
           /\ \A i \in Entries(t, lo, h) : i \in 1..Len(log) /\ TopicOf[log[i].msg] = t
  BY DEF Entries, StreamTypes

LEMMA AppendOK ==
    ASSUME StreamTypes, NEW rec \in Records, Len(log) < MaxLog, log' = Append(log, rec)
    PROVE  /\ log' \in Seq(Records) /\ Len(log') = Len(log) + 1 /\ Len(log') <= MaxLog
           /\ \A i \in 1..Len(log) : i \in 1..Len(log') /\ log'[i] = log[i]
  BY DEF StreamTypes

\* What a step owes StateOK when only one group of a run moves on.
GroupMoved ==
    /\ GroupTypes'
    /\ TasksOK'
    /\ \A r \in Runs, t \in Topics : pc'[r][t] # "none" =>
         at'[r][t] \in 1..Len(log) /\ TopicOf[log[at'[r][t]].msg] = t

LEMMA GroupTo ==
    ASSUME StateOK, NEW r \in Runs, NEW t \in Topics,
           NEW p \in {"none", "page", "failed"}, NEW i \in Nat,
           NEW k \in Subs \cup {0}, NEW n \in Subs \cup {0},
           pc' = [pc EXCEPT ![r][t] = p], at' = [at EXCEPT ![r][t] = i],
           cur' = [cur EXCEPT ![r][t] = k], next' = [next EXCEPT ![r][t] = n],
           task' = [task EXCEPT ![r][t] = NoTasks],
           p # "none" => i \in 1..Len(log) /\ TopicOf[log[i].msg] = t
    PROVE  GroupMoved
<1> USE DEF StateOK, TypeOK, GroupTypes
<1>1. /\ pc' \in [Runs -> [Topics -> {"none", "page", "send", "failed"}]]
      /\ \A q \in Runs, u \in Topics : pc'[q][u] = IF q = r /\ u = t THEN p ELSE pc[q][u]
  BY GroupUpdate
<1>2. /\ at' \in [Runs -> [Topics -> Nat]]
      /\ \A q \in Runs, u \in Topics : at'[q][u] = IF q = r /\ u = t THEN i ELSE at[q][u]
  BY GroupUpdate
<1>3. cur' \in [Runs -> [Topics -> Subs \cup {0}]] /\ next' \in [Runs -> [Topics -> Subs \cup {0}]]
  BY GroupUpdate
<1>4. /\ task' \in [Runs -> [Topics -> [Subs -> TaskStates]]]
      /\ \A q \in Runs, u \in Topics :
           task'[q][u] = IF q = r /\ u = t THEN NoTasks ELSE task[q][u]
  BY NoTasksType, GroupUpdate
<1>5. GroupTypes'
  BY <1>1, <1>2, <1>3, <1>4
<1>6. TasksOK'
  BY <1>1, <1>4 DEF GroupsOK, TasksOK
<1>7. \A q \in Runs, u \in Topics : pc'[q][u] # "none" =>
         at'[q][u] \in 1..Len(log) /\ TopicOf[log[at'[q][u]].msg] = u
  BY <1>1, <1>2 DEF GroupsOK, AtOK
<1> QED
  BY <1>5, <1>6, <1>7 DEF GroupMoved

LEMMA RecordDoneMoves ==
    ASSUME StateOK, NEW r \in Runs, NEW t \in Topics, pc[r][t] # "none", RecordDone(r, t)
    PROVE  GroupMoved
<1> DEFINE later == Entries(t, at[r][t] + 1, hi[r])
<1>1. at[r][t] + 1 \in Nat /\ at[r][t] + 1 > 0 /\ hi[r] \in Nat /\ hi[r] <= Len(log)
  BY DEF StateOK, TypeOK, GroupsOK, BatchOK, AtOK, RunTypes, StreamTypes
<1>2. later \in SUBSET Nat
      /\ \A i \in later : i \in 1..Len(log) /\ TopicOf[log[i].msg] = t
  BY <1>1, EntriesAreRecords DEF StateOK, TypeOK
<1> HIDE DEF later
<1>3. CASE later = {}
  <2>1. /\ pc' = [pc EXCEPT ![r][t] = "none"] /\ at' = [at EXCEPT ![r][t] = 0]
        /\ cur' = [cur EXCEPT ![r][t] = 0] /\ next' = [next EXCEPT ![r][t] = 0]
        /\ task' = [task EXCEPT ![r][t] = NoTasks]
    BY <1>3 DEF RecordDone, ClearTasks, later
  <2> QED
    BY <2>1, GroupTo
<1>4. CASE later # {}
  <2> DEFINE i == MinOf(later)
  <2>1. i \in 1..Len(log) /\ TopicOf[log[i].msg] = t /\ i \in Nat
    BY <1>2, <1>4, MinOfNat
  <2>2. /\ pc' = [pc EXCEPT ![r][t] = "page"] /\ at' = [at EXCEPT ![r][t] = i]
        /\ cur' = [cur EXCEPT ![r][t] = log[i].cursor] /\ next' = [next EXCEPT ![r][t] = 0]
        /\ task' = [task EXCEPT ![r][t] = NoTasks]
    BY <1>4 DEF RecordDone, ClearTasks, later
  <2> HIDE DEF i
  <2>3. log[i].cursor \in Subs \cup {0}
    BY <2>1, RecordFields DEF StateOK, TypeOK
  <2> QED
    BY <2>1, <2>2, <2>3, GroupTo
<1> QED
  BY <1>3, <1>4

LEMMA RecordFailedMoves ==
    ASSUME StateOK, NEW r \in Runs, NEW t \in Topics, pc[r][t] # "none", RecordFailed(r, t)
    PROVE  GroupMoved
<1>1. at[r][t] \in Nat /\ at' = [at EXCEPT ![r][t] = at[r][t]]
  BY DEF RecordFailed, StateOK, TypeOK, GroupTypes
<1>2. at[r][t] \in 1..Len(log) /\ TopicOf[log[at[r][t]].msg] = t
  BY DEF StateOK, GroupsOK, AtOK
<1> QED
  BY <1>1, <1>2, GroupTo DEF RecordFailed, ClearTasks

LEMMA SetTaskMoves ==
    ASSUME StateOK, NEW r \in Runs, NEW t \in Topics, NEW c \in Subs,
           task[r][t][c] # "idle", NEW s \in TaskStates, SetTask(r, t, c, s)
    PROVE  /\ pc[r][t] = "send"
           /\ task' \in [Runs -> [Topics -> [Subs -> TaskStates]]]
           /\ \A q \in Runs, u \in Topics, d \in Subs :
                task'[q][u][d] = IF q = r /\ u = t /\ d = c THEN s ELSE task[q][u][d]
           /\ \A q \in Runs, u \in Topics : pc[q][u] # "send" => task'[q][u] = NoTasks
<1>1. pc[r][t] = "send"
  <2>1. task[r][t] # NoTasks
    BY DEF NoTasks
  <2>2. pc[r][t] # "send" => task[r][t] = NoTasks
    BY DEF StateOK, GroupsOK, TasksOK
  <2> QED
    BY <2>1, <2>2
<1>2. task \in [Runs -> [Topics -> [Subs -> TaskStates]]]
  BY DEF StateOK, TypeOK, GroupTypes
<1>3. task' = [task EXCEPT ![r][t] = [task[r][t] EXCEPT ![c] = s]]
  BY <1>2 DEF SetTask
<1> DEFINE tc == [task[r][t] EXCEPT ![c] = s]
<1>4. tc \in [Subs -> TaskStates] /\ \A d \in Subs : tc[d] = IF d = c THEN s ELSE task[r][t][d]
  BY <1>2
<1> HIDE DEF tc
<1>5. /\ task' \in [Runs -> [Topics -> [Subs -> TaskStates]]]
      /\ \A q \in Runs, u \in Topics :
           task'[q][u] = IF q = r /\ u = t THEN tc ELSE task[q][u]
  BY <1>2, <1>3, <1>4, GroupUpdate DEF tc
<1>6. \A q \in Runs, u \in Topics, d \in Subs :
        task'[q][u][d] = IF q = r /\ u = t /\ d = c THEN s ELSE task[q][u][d]
  BY <1>4, <1>5
<1>7. \A q \in Runs, u \in Topics : pc[q][u] # "send" => task'[q][u] = NoTasks
  BY <1>1, <1>5 DEF StateOK, GroupsOK, TasksOK
<1> QED
  BY <1>1, <1>5, <1>6, <1>7

LEMMA TaskMoved ==
    ASSUME StateOK, NEW r \in Runs, NEW t \in Topics, NEW c \in Subs,
           task[r][t][c] # "idle", NEW s \in TaskStates, SetTask(r, t, c, s),
           UNCHANGED groupVars
    PROVE  GroupMoved
<1>1. UNCHANGED <<pc, at, cur, next>>
  BY DEF groupVars
<1>2. GroupTypes' /\ TasksOK'
  BY <1>1, SetTaskMoves DEF StateOK, TypeOK, GroupTypes, TasksOK
<1>3. \A q \in Runs, u \in Topics : pc'[q][u] # "none" =>
         at'[q][u] \in 1..Len(log) /\ TopicOf[log[at'[q][u]].msg] = u
  BY <1>1 DEF StateOK, GroupsOK, AtOK
<1> QED
  BY <1>2, <1>3 DEF GroupMoved

\* A group moves on, and the stream at most grows.
LEMMA GroupMovedKeeps ==
    ASSUME StateOK, GroupMoved, TableTypes', HistTypes',
           UNCHANGED <<ckpt, attempts, dlq, blamed, run, hi>>,
           log' = log \/ \E rec \in Records : Len(log) < MaxLog /\ log' = Append(log, rec)
    PROVE  StateOK'
<1>1. /\ log' \in Seq(Records) /\ Len(log') <= MaxLog /\ Len(log) <= Len(log')
      /\ Len(log) \in Nat /\ Len(log') \in Nat
      /\ \A i \in 1..Len(log) : i \in 1..Len(log') /\ log'[i] = log[i]
  <2>1. CASE log' = log
    BY <2>1 DEF StateOK, TypeOK, StreamTypes
  <2>2. ASSUME NEW rec \in Records, Len(log) < MaxLog, log' = Append(log, rec)
        PROVE  <1>1!:
    BY <2>2, AppendOK DEF StateOK, TypeOK, StreamTypes
  <2> QED
    BY <2>1, <2>2
<1>2. StreamTypes'
  BY <1>1 DEF StateOK, TypeOK, StreamTypes
<1>3. RunTypes'
  BY DEF StateOK, TypeOK, RunTypes
<1>4. BatchOK' /\ AttemptsOK'
  BY <1>1 DEF StateOK, TypeOK, RunTypes, GroupsOK, BatchOK, AttemptsOK
<1>5. AtOK'
  BY <1>1 DEF GroupMoved, AtOK
<1> QED
  BY <1>2, <1>3, <1>4, <1>5 DEF StateOK, TypeOK, GroupsOK, GroupMoved

-----------------------------------------------------------------------------
(* Every step keeps StateOK.                                               *)

LEMMA StateOKOutside ==
    ASSUME StateOK,
           \/ \E m \in Msgs : Publish(m)
           \/ \E t \in Topics, c \in Subs : Join(t, c) \/ Leave(t, c)
           \/ \E c \in Subs : HangUp(c) \/ Disconnected(c)
    PROVE  StateOK'
<1> USE DEF StateOK, TypeOK, groupVars
<1>1. /\ GroupTypes /\ TasksOK /\ UNCHANGED <<pc, at, cur, next, task>> => GroupMoved
  BY DEF GroupMoved, GroupTypes, TasksOK, AtOK, GroupsOK
<1>2. ASSUME NEW m \in Msgs, Publish(m) PROVE StateOK'
  <2>1. [msg |-> m, cursor |-> 0] \in Records
    BY DEF Records
  <2>2. TableTypes' /\ HistTypes'
    BY <1>2 DEF Publish, TableTypes, HistTypes, Pairs, tableVars
  <2> QED
    BY <1>1, <1>2, <2>1, <2>2, GroupMovedKeeps DEF Publish, GroupsOK
<1>3. ASSUME NEW t \in Topics, NEW c \in Subs, Join(t, c) \/ Leave(t, c) PROVE StateOK'
  <2>1. TableTypes'
    <3>1. members' \in [Topics -> SUBSET Subs]
      BY <1>3 DEF Join, Leave, TableTypes
    <3>2. churn' \in 0..MaxChurn /\ open' = open /\ ledger' = ledger
      BY <1>3 DEF Join, Leave, Churn, TableTypes
    <3> QED
      BY <3>1, <3>2 DEF TableTypes
  <2>2. HistTypes'
    BY <1>3 DEF Join, Leave, histVars, HistTypes
  <2> QED
    BY <1>1, <1>3, <2>1, <2>2, GroupMovedKeeps DEF Join, Leave, streamVars, GroupsOK
<1>4. ASSUME NEW c \in Subs, HangUp(c) \/ Disconnected(c) PROVE StateOK'
  <2>1. TableTypes'
    <3>1. members' \in [Topics -> SUBSET Subs]
      BY <1>4 DEF HangUp, Disconnected, RemoveRows, TableTypes
    <3>2. churn' \in 0..MaxChurn /\ open' \subseteq open /\ ledger' = ledger
      BY <1>4 DEF HangUp, Disconnected, Churn, TableTypes
    <3> QED
      BY <3>1, <3>2 DEF TableTypes
  <2>2. HistTypes'
    BY <1>4 DEF HangUp, Disconnected, histVars, HistTypes
  <2> QED
    BY <1>1, <1>4, <2>1, <2>2, GroupMovedKeeps DEF HangUp, Disconnected, streamVars, GroupsOK
<1> QED
  BY <1>2, <1>3, <1>4

LEMMA FaultCounts == ASSUME NEW kind, HistTypes, Fault(kind) PROVE faults' \in 0..MaxFaults
  BY DEF HistTypes, Fault

\* The message a sending group is on is a message.
LEMMA MsgOfType ==
    ASSUME StateOK, NEW r \in Runs, NEW t \in Topics, pc[r][t] # "none"
    PROVE  MsgOf(r, t) \in Msgs /\ TopicOf[MsgOf(r, t)] = t
<1>1. at[r][t] \in 1..Len(log) /\ TopicOf[log[at[r][t]].msg] = t
  BY DEF StateOK, GroupsOK, AtOK
<1> QED
  BY <1>1, RecordFields DEF StateOK, TypeOK, MsgOf

\* A step of deliverOne moves one task, and counts a frame at most.
LEMMA StateOKDeliver ==
    ASSUME StateOK, NEW r \in Runs, NEW t \in Topics, NEW c \in Subs,
           \/ DeliverStep(r, t, c) \/ ClaimFails(r, t, c) \/ ClaimUnconfirmed(r, t, c)
           \/ SendFails(r, t, c) \/ SendUnanswered(r, t, c)
           \/ ReapFails(r, t, c) \/ ReleaseFails(r, t, c)
    PROVE  StateOK'
<1> DEFINE m == MsgOf(r, t)
<1>1. task[r][t][c] # "idle" /\ UNCHANGED <<log, ckpt, attempts, dlq, blamed, run, hi, pc, at, cur, next>>
  BY DEF DeliverStep, Claim, Send, SendGone, Reap, Release, ClaimFails, ClaimUnconfirmed,
         SendFails, SendUnanswered, ReapFails, ReleaseFails, streamVars, groupVars
<1>2. \E s \in TaskStates : SetTask(r, t, c, s)
  BY DEF DeliverStep, Claim, Send, SendGone, Reap, Release, ClaimFails, ClaimUnconfirmed,
         SendFails, SendUnanswered, ReapFails, ReleaseFails, TaskStates, InFlight
<1>3. pc[r][t] = "send"
  BY <1>1, <1>2, SetTaskMoves
<1>4. m \in Msgs
  BY <1>3, MsgOfType
<1>5. GroupMoved
  BY <1>1, <1>2, TaskMoved DEF groupVars
<1>6. TableTypes'
  <2>1. members' \in [Topics -> SUBSET Subs] /\ open' = open /\ churn' = churn
    BY DEF DeliverStep, Claim, Send, SendGone, Reap, Release, ClaimFails, ClaimUnconfirmed,
           SendFails, SendUnanswered, ReapFails, ReleaseFails, tableVars, RemoveRows,
           StateOK, TypeOK, TableTypes
  <2>2. ledger' \subseteq ledger \cup {<<m, c>>}
    BY DEF DeliverStep, Claim, Send, SendGone, Reap, Release, ClaimFails, ClaimUnconfirmed,
           SendFails, SendUnanswered, ReapFails, ReleaseFails, GiveBack
  <2> QED
    BY <1>4, <2>1, <2>2 DEF StateOK, TypeOK, TableTypes, Pairs
<1>7. HistTypes'
  <2> HIDE DEF m
  <2>1. /\ got' = got \/ got' = [got EXCEPT ![m][c] = @ + 1]
        /\ unacked' = unacked \/ unacked' = [unacked EXCEPT ![m][c] = @ + 1]
        /\ owed' = owed /\ expired' = expired
    BY DEF m, DeliverStep, Claim, Send, SendGone, Reap, Release, ClaimFails, ClaimUnconfirmed,
           SendFails, SendUnanswered, ReapFails, ReleaseFails, histVars
  <2>2. stranded' \subseteq stranded \cup {<<m, c, why>> : why \in Causes}
    BY DEF m, DeliverStep, Claim, Send, SendGone, Reap, Release, ClaimFails, ClaimUnconfirmed,
           SendFails, SendUnanswered, ReapFails, ReleaseFails, histVars, Causes
  <2>3. faults' \in 0..MaxFaults
    BY FaultCounts DEF DeliverStep, Claim, Send, SendGone, Reap, Release, ClaimFails,
           ClaimUnconfirmed, SendFails, SendUnanswered, ReapFails, ReleaseFails, histVars,
           StateOK, TypeOK, HistTypes
  <2>4. got' \in [Msgs -> [Subs -> Nat]] /\ unacked' \in [Msgs -> [Subs -> Nat]]
    <3>1. got \in [Msgs -> [Subs -> Nat]] /\ unacked \in [Msgs -> [Subs -> Nat]]
      BY DEF StateOK, TypeOK, HistTypes
    <3>2. got' \in [Msgs -> [Subs -> Nat]]
      BY <1>4, <2>1, <3>1, CountUp
    <3>3. unacked' \in [Msgs -> [Subs -> Nat]]
      <4>1. unacked' = unacked \/ unacked' = [unacked EXCEPT ![m][c] = @ + 1]
        BY <2>1
      <4> QED
        BY <1>4, <3>1, <4>1, CountUp
    <3> QED
      BY <3>2, <3>3
  <2>5. owed' \subseteq Pairs /\ stranded' \subseteq Msgs \X Subs \X Causes
    BY <1>4, <2>1, <2>2 DEF StateOK, TypeOK, HistTypes
  <2>6. expired' \in [Msgs -> [Subs -> Nat]]
    BY <2>1 DEF StateOK, TypeOK, HistTypes
  <2> QED
    BY <2>3, <2>4, <2>5, <2>6 DEF HistTypes
<1> QED
  BY <1>1, <1>5, <1>6, <1>7, GroupMovedKeeps

\* Reading a page and taking a batch only fill in the group's tasks.
LEMMA StateOKPage ==
    ASSUME StateOK, NEW r \in Runs, NEW t \in Topics,
           ReadPage(r, t) \/ NextBatch(r, t)
    PROVE  StateOK'
<1>1. /\ UNCHANGED <<log, ckpt, attempts, dlq, blamed, run, hi, at, cur>>
      /\ TableTypes' /\ HistTypes'
  BY DEF ReadPage, NextBatch, streamVars, tableVars, groupVars, histVars, StateOK, TypeOK,
         TableTypes, HistTypes
<1>2. \E f \in [Subs -> TaskStates] : task' = [task EXCEPT ![r][t] = f]
  <2>1. CASE ReadPage(r, t)
    <3>1. PICK end \in Subs \cup {0} : task' = [task EXCEPT ![r][t] =
                 [c \in Subs |-> IF c \in {d \in members[t] : d > cur[r][t]} /\ (end = 0 \/ c <= end)
                                 THEN "queued" ELSE "idle"]]
      BY <2>1 DEF ReadPage, StateOK, TypeOK, TableTypes
    <3>2. [c \in Subs |-> IF c \in {d \in members[t] : d > cur[r][t]} /\ (end = 0 \/ c <= end)
                          THEN "queued" ELSE "idle"] \in [Subs -> TaskStates]
      BY DEF TaskStates
    <3> QED
      BY <3>1, <3>2
  <2>2. CASE NextBatch(r, t)
    <3>1. PICK batch \in SUBSET Subs : task' = [task EXCEPT ![r][t] =
                 [c \in Subs |-> IF c \in batch THEN "todo" ELSE task[r][t][c]]]
      BY <2>2 DEF NextBatch
    <3>2. [c \in Subs |-> IF c \in batch THEN "todo" ELSE task[r][t][c]] \in [Subs -> TaskStates]
      <4>1. task[r][t] \in [Subs -> TaskStates] /\ "todo" \in TaskStates
        BY DEF StateOK, TypeOK, GroupTypes, TaskStates, InFlight
      <4> QED
        BY <4>1
    <3> QED
      BY <3>1, <3>2
  <2> QED
    BY <2>1, <2>2
<1>3. /\ pc[r][t] \in {"page", "send"}
      /\ pc' \in [Runs -> [Topics -> {"none", "page", "send", "failed"}]]
      /\ \A q \in Runs, u \in Topics : pc'[q][u] = IF q = r /\ u = t THEN "send" ELSE pc[q][u]
      /\ next' \in [Runs -> [Topics -> Subs \cup {0}]]
  <2> USE DEF StateOK, TypeOK, GroupTypes
  <2>1. CASE ReadPage(r, t)
    <3>1. PICK n \in Subs \cup {0} : next' = [next EXCEPT ![r][t] = n]
      BY <2>1 DEF ReadPage, TableTypes
    <3>2. pc[r][t] = "page" /\ pc' = [pc EXCEPT ![r][t] = "send"]
      BY <2>1 DEF ReadPage
    <3> QED
      BY <3>1, <3>2, GroupUpdate
  <2>2. CASE NextBatch(r, t)
    BY <2>2 DEF NextBatch, groupVars
  <2> QED
    BY <2>1, <2>2
<1>4. GroupMoved
  <2> USE DEF StateOK, TypeOK, GroupTypes
  <2>1. PICK f \in [Subs -> TaskStates] : task' = [task EXCEPT ![r][t] = f]
    BY <1>2
  <2>2. /\ task' \in [Runs -> [Topics -> [Subs -> TaskStates]]]
        /\ \A q \in Runs, u \in Topics : task'[q][u] = IF q = r /\ u = t THEN f ELSE task[q][u]
    BY <2>1, GroupUpdate
  <2>3. GroupTypes'
    BY <1>1, <1>3, <2>2
  <2>4. TasksOK'
    BY <1>3, <2>2 DEF GroupsOK, TasksOK
  <2>5. \A q \in Runs, u \in Topics : pc'[q][u] # "none" =>
           at'[q][u] \in 1..Len(log) /\ TopicOf[log[at'[q][u]].msg] = u
    <3>1. at' = at /\ \A q \in Runs, u \in Topics : pc'[q][u] # "none" => pc[q][u] # "none"
      BY <1>1, <1>3
    <3>2. AtOK
      BY DEF GroupsOK
    <3> QED
      BY <3>1, <3>2 DEF AtOK
  <2> QED
    BY <2>3, <2>4, <2>5 DEF GroupMoved
<1> QED
  BY <1>1, <1>4, GroupMovedKeeps

\* The end of a page: the record is done, failed, requeued or goes on.
LEMMA StateOKRecord ==
    ASSUME StateOK, NEW r \in Runs, NEW t \in Topics,
           \/ PageUnreadable(r, t) \/ PageFailed(r, t) \/ LastPageDone(r, t) \/ NextPage(r, t)
           \/ Requeue(r, t) \/ RequeueFails(r, t) \/ RequeueUnconfirmed(r, t)
    PROVE  StateOK'
<1>1. pc[r][t] # "none" /\ UNCHANGED <<ckpt, attempts, dlq, blamed, run, hi>>
  BY DEF PageUnreadable, PageFailed, LastPageDone, NextPage, Requeue, RequeueFails,
         RequeueUnconfirmed, PageDone, PageSettled, streamVars
<1>2. TableTypes'
  BY DEF PageUnreadable, PageFailed, LastPageDone, NextPage, Requeue, RequeueFails,
         RequeueUnconfirmed, tableVars, StateOK, TypeOK, TableTypes
<1>3. HistTypes'
  <2>1. faults' \in 0..MaxFaults
    BY FaultCounts DEF PageUnreadable, PageFailed, LastPageDone, NextPage, Requeue,
           RequeueFails, RequeueUnconfirmed, StateOK, TypeOK, HistTypes
  <2> QED
    BY <2>1 DEF PageUnreadable, PageFailed, LastPageDone, NextPage, Requeue, RequeueFails,
           RequeueUnconfirmed, histVars, StateOK, TypeOK, HistTypes
<1>4. log' = log \/ \E rec \in Records : Len(log) < MaxLog /\ log' = Append(log, rec)
  <2>1. CASE Requeue(r, t) \/ RequeueUnconfirmed(r, t)
    <3>1. Continuation(r, t) \in Records
      BY <1>1, MsgOfType DEF Continuation, Records, StateOK, TypeOK, GroupTypes
    <3> QED
      BY <2>1, <3>1 DEF Requeue, RequeueUnconfirmed
  <2>2. CASE ~(Requeue(r, t) \/ RequeueUnconfirmed(r, t))
    BY <2>2 DEF PageUnreadable, PageFailed, LastPageDone, NextPage, RequeueFails, streamVars
  <2> QED
    BY <2>1, <2>2
<1>5. GroupMoved
  <2>1. CASE RecordFailed(r, t)
    BY <1>1, <2>1, RecordFailedMoves
  <2>2. CASE RecordDone(r, t)
    BY <1>1, <2>2, RecordDoneMoves
  <2>3. CASE NextPage(r, t)
    <3>1. at' = [at EXCEPT ![r][t] = at[r][t]] /\ at[r][t] \in Nat /\ next[r][t] \in Subs \cup {0}
      BY <2>3 DEF NextPage, StateOK, TypeOK, GroupTypes
    <3>2. at[r][t] \in 1..Len(log) /\ TopicOf[log[at[r][t]].msg] = t
      BY <1>1 DEF StateOK, GroupsOK, AtOK
    <3> QED
      BY <2>3, <3>1, <3>2, GroupTo DEF NextPage, ClearTasks
  <2> QED
    BY <2>1, <2>2, <2>3 DEF PageUnreadable, PageFailed, LastPageDone, Requeue, RequeueFails,
           RequeueUnconfirmed
<1> QED
  BY <1>1, <1>2, <1>3, <1>4, <1>5, GroupMovedKeeps

\* An invocation starts with each group at a record of its topic.
LEMMA StateOKStart ==
    ASSUME StateOK, NEW r \in Runs, NEW h \in 1..MaxLog, StartRun(r, h)
    PROVE  StateOK'
<1> USE DEF StateOK, TypeOK
<1> DEFINE busy(t)  == Entries(t, ckpt + 1, h) # {}
           first(t) == MinOf(Entries(t, ckpt + 1, h))
           p == [t \in Topics |-> IF busy(t) THEN "page" ELSE "none"]
           i == [t \in Topics |-> IF busy(t) THEN first(t) ELSE 0]
           k == [t \in Topics |-> IF busy(t) THEN log[first(t)].cursor ELSE 0]
<1>1. /\ h \in Nat /\ h <= Len(log) /\ ckpt + 1 \in Nat /\ ckpt + 1 > 0
      /\ UNCHANGED <<log, ckpt, attempts, dlq, blamed, members, open, churn, ledger,
                     got, owed, stranded, unacked, expired, faults>>
  BY DEF StartRun, StreamTypes, streamVars, tableVars, histVars
<1>2. ASSUME NEW t \in Topics, busy(t)
      PROVE  first(t) \in Nat /\ first(t) \in 1..Len(log) /\ TopicOf[log[first(t)].msg] = t
             /\ log[first(t)].cursor \in Subs \cup {0}
  <2>1. /\ Entries(t, ckpt + 1, h) \in SUBSET Nat
        /\ \A j \in Entries(t, ckpt + 1, h) : j \in 1..Len(log) /\ TopicOf[log[j].msg] = t
    BY <1>1, EntriesAreRecords
  <2>2. first(t) \in Nat /\ first(t) \in 1..Len(log) /\ TopicOf[log[first(t)].msg] = t
    BY <1>2, <2>1, MinOfNat
  <2> HIDE DEF first
  <2> QED
    BY <2>2, RecordFields
<1>3. /\ pc' = [pc EXCEPT ![r] = p] /\ at' = [at EXCEPT ![r] = i]
      /\ cur' = [cur EXCEPT ![r] = k]
      /\ next' = [next EXCEPT ![r] = [t \in Topics |-> 0]]
      /\ task' = [task EXCEPT ![r] = [t \in Topics |-> NoTasks]]
      /\ run' = [run EXCEPT ![r] = "active"] /\ hi' = [hi EXCEPT ![r] = h]
      /\ \A q \in Runs : run[q] # "active"
      /\ attempts < MaxAttempts
  BY DEF StartRun
<1> HIDE DEF first
<1>4. /\ p \in [Topics -> {"none", "page", "send", "failed"}]
      /\ i \in [Topics -> Nat] /\ k \in [Topics -> Subs \cup {0}]
      /\ \A t \in Topics : p[t] # "send"
      /\ \A t \in Topics : p[t] # "none" => i[t] \in 1..Len(log) /\ TopicOf[log[i[t]].msg] = t
  BY <1>2
<1> HIDE DEF p, i, k
<1>5. /\ pc' \in [Runs -> [Topics -> {"none", "page", "send", "failed"}]]
      /\ \A q \in Runs, t \in Topics : pc'[q][t] = IF q = r THEN p[t] ELSE pc[q][t]
  BY <1>3, <1>4, RunUpdate DEF GroupTypes
<1>6. /\ at' \in [Runs -> [Topics -> Nat]]
      /\ \A q \in Runs, t \in Topics : at'[q][t] = IF q = r THEN i[t] ELSE at[q][t]
  BY <1>3, <1>4, RunUpdate DEF GroupTypes
<1>7. cur' \in [Runs -> [Topics -> Subs \cup {0}]] /\ next' \in [Runs -> [Topics -> Subs \cup {0}]]
  BY <1>3, <1>4, RunUpdate DEF GroupTypes
<1>8. /\ task' \in [Runs -> [Topics -> [Subs -> TaskStates]]]
      /\ \A q \in Runs, t \in Topics : task'[q][t] = IF q = r THEN NoTasks ELSE task[q][t]
  BY <1>3, NoTasksType, RunUpdate DEF GroupTypes
<1>9. GroupTypes'
  BY <1>5, <1>6, <1>7, <1>8 DEF GroupTypes
<1>10. ASSUME NEW q \in Runs, NEW t \in Topics
       PROVE  /\ pc'[q][t] # "send" => task'[q][t] = NoTasks
              /\ pc'[q][t] # "none" =>
                   at'[q][t] \in 1..Len(log') /\ TopicOf[log'[at'[q][t]].msg] = t
  <2>1. AtOK /\ TasksOK /\ log' = log
    BY <1>1 DEF GroupsOK
  <2>2. CASE q = r
    <3>1. pc'[q][t] = p[t] /\ at'[q][t] = i[t] /\ task'[q][t] = NoTasks
      BY <1>5, <1>6, <1>8, <2>2
    <3> QED
      BY <1>4, <2>1, <3>1
  <2>3. CASE q # r
    <3>1. pc'[q][t] = pc[q][t] /\ at'[q][t] = at[q][t] /\ task'[q][t] = task[q][t]
      BY <1>5, <1>6, <1>8, <2>3
    <3> QED
      BY <2>1, <3>1 DEF AtOK, TasksOK
  <2> QED
    BY <2>2, <2>3
<1>11. AtOK' /\ TasksOK'
  BY <1>10 DEF AtOK, TasksOK
<1>12. RunTypes' /\ BatchOK' /\ AttemptsOK'
  <2>1. RunTypes'
    BY <1>1, <1>3 DEF RunTypes
  <2>2. BatchOK /\ log' = log /\ hi \in [Runs -> Nat] /\ h <= Len(log)
    BY <1>1 DEF GroupsOK, RunTypes
  <2>3. BatchOK'
    BY <1>3, <2>2 DEF BatchOK
  <2>4. AttemptsOK'
    BY <1>1, <1>3 DEF AttemptsOK
  <2> QED
    BY <2>1, <2>3, <2>4
<1>13. StreamTypes' /\ TableTypes' /\ HistTypes'
  BY <1>1 DEF StreamTypes, TableTypes, HistTypes
<1> QED
  BY <1>9, <1>11, <1>12, <1>13 DEF GroupsOK

\* What is left of a run that ended: nothing.
LEMMA ForgetRunKeeps ==
    ASSUME StateOK, NEW r \in Runs, ForgetRun(r), log' = log
    PROVE  /\ GroupTypes' /\ TasksOK' /\ AtOK' /\ RunTypes' /\ BatchOK'
           /\ \A q \in Runs : run'[q] = IF q = r THEN "idle" ELSE run[q]
<1> USE DEF StateOK, TypeOK
<1>1. /\ pc' \in [Runs -> [Topics -> {"none", "page", "send", "failed"}]]
      /\ \A q \in Runs, t \in Topics : pc'[q][t] = IF q = r THEN "none" ELSE pc[q][t]
  BY RunUpdate DEF ForgetRun, GroupTypes
<1>2. /\ at' \in [Runs -> [Topics -> Nat]]
      /\ \A q \in Runs, t \in Topics : at'[q][t] = IF q = r THEN 0 ELSE at[q][t]
  BY RunUpdate DEF ForgetRun, GroupTypes
<1>3. cur' \in [Runs -> [Topics -> Subs \cup {0}]] /\ next' \in [Runs -> [Topics -> Subs \cup {0}]]
  BY RunUpdate DEF ForgetRun, GroupTypes
<1>4. /\ task' \in [Runs -> [Topics -> [Subs -> TaskStates]]]
      /\ \A q \in Runs, t \in Topics : task'[q][t] = IF q = r THEN NoTasks ELSE task[q][t]
  BY NoTasksType, RunUpdate DEF ForgetRun, GroupTypes
<1>5. GroupTypes'
  BY <1>1, <1>2, <1>3, <1>4 DEF GroupTypes
<1>6. TasksOK' /\ AtOK'
  <2>1. AtOK /\ TasksOK
    BY DEF GroupsOK
  <2>2. ASSUME NEW q \in Runs, NEW t \in Topics
        PROVE  /\ pc'[q][t] # "send" => task'[q][t] = NoTasks
               /\ pc'[q][t] # "none" =>
                    at'[q][t] \in 1..Len(log') /\ TopicOf[log'[at'[q][t]].msg] = t
    <3>1. CASE q = r
      BY <1>1, <1>4, <3>1
    <3>2. CASE q # r
      <4>1. pc'[q][t] = pc[q][t] /\ at'[q][t] = at[q][t] /\ task'[q][t] = task[q][t]
        BY <1>1, <1>2, <1>4, <3>2
      <4> QED
        BY <2>1, <4>1 DEF AtOK, TasksOK
    <3> QED
      BY <3>1, <3>2
  <2> QED
    BY <2>2 DEF AtOK, TasksOK
<1>7. /\ RunTypes' /\ BatchOK'
      /\ \A q \in Runs : run'[q] = IF q = r THEN "idle" ELSE run[q]
  BY DEF ForgetRun, RunTypes, GroupsOK, BatchOK, StreamTypes
<1> QED
  BY <1>5, <1>6, <1>7

LEMMA HeadedType == StreamTypes => Headed \subseteq Msgs
  BY RecordFields DEF Headed, StreamTypes

LEMMA StateOKRuns ==
    ASSUME StateOK,
           \/ Discard
           \/ \E r \in Runs : EndRun(r) \/ Kill(r) \/ Abandon(r)
           \/ \E m \in Msgs, c \in Subs : Expire(m, c)
    PROVE  StateOK'
<1> USE DEF StateOK, TypeOK
<1>1. CASE Discard
  <2>1. UNCHANGED <<log, blamed, members, open, churn, ledger, run, hi, pc, at, cur, next, task,
                    got, owed, stranded, unacked, expired, faults>>
    BY <1>1 DEF Discard, tableVars, groupVars, histVars
  <2>2. ckpt' \in 0..Len(log) /\ attempts' = 0 /\ log[ckpt + 1].msg \in Msgs
    BY <1>1, RecordFields DEF Discard, StreamTypes
  <2>3. StreamTypes'
    BY <1>1, <2>1, <2>2 DEF Discard, StreamTypes
  <2>4. TableTypes' /\ RunTypes' /\ GroupTypes' /\ HistTypes'
    BY <2>1 DEF TableTypes, RunTypes, GroupTypes, HistTypes
  <2>5. GroupsOK'
    BY <1>1, <2>1 DEF Discard, GroupsOK, BatchOK, AtOK, TasksOK, AttemptsOK
  <2> QED
    BY <2>3, <2>4, <2>5
<1>2. ASSUME NEW r \in Runs, EndRun(r) PROVE StateOK'
  <2>1. /\ UNCHANGED <<log, dlq, members, open, churn, ledger,
                       got, owed, stranded, unacked, expired, faults>>
        /\ ForgetRun(r)
    BY <1>2 DEF EndRun, tableVars, histVars
  <2>2. /\ GroupTypes' /\ TasksOK' /\ AtOK' /\ RunTypes' /\ BatchOK'
        /\ \A q \in Runs : run'[q] = IF q = r THEN "idle" ELSE run[q]
    BY <2>1, ForgetRunKeeps
  <2>3. Checkpoint(r) \in 0..Len(log)
    <3>1. hi[r] \in 0..Len(log)
      BY DEF RunTypes, GroupsOK, BatchOK, StreamTypes
    <3>2. Failing(r) \in SUBSET Nat /\ \A i \in Failing(r) : i \in 1..Len(log)
      BY DEF Failing, FailedGroups, GroupsOK, AtOK, GroupTypes
    <3>3. CASE Failing(r) # {}
      <4>1. MinOf(Failing(r)) \in 1..Len(log)
        BY <3>2, <3>3, MinOfNat
      <4> QED
        BY <3>3, <4>1 DEF Checkpoint, StreamTypes
    <3> QED
      BY <3>1, <3>3 DEF Checkpoint
  <2>4. /\ ckpt' \in 0..Len(log) /\ attempts' \in 0..MaxAttempts
        /\ \A q \in Runs : q # r /\ run[q] = "active" => attempts' < MaxAttempts
    <3>1. CASE run[r] = "active"
      BY <1>2, <2>3, <3>1 DEF EndRun, StreamTypes, RunTypes, GroupsOK, AttemptsOK
    <3>2. CASE run[r] # "active"
      BY <1>2, <3>2 DEF EndRun, StreamTypes, GroupsOK, AttemptsOK
    <3> QED
      BY <3>1, <3>2
  <2>5. blamed' \subseteq Msgs
    <3>1. \A t \in FailedGroups(r) : MsgOf(r, t) \in Msgs
      BY RecordFields DEF FailedGroups, MsgOf, GroupsOK, AtOK, StreamTypes
    <3> QED
      BY <1>2, <3>1 DEF EndRun, StreamTypes
  <2>6. StreamTypes' /\ AttemptsOK'
    BY <2>1, <2>2, <2>4, <2>5 DEF StreamTypes, AttemptsOK
  <2>7. TableTypes' /\ HistTypes'
    BY <2>1 DEF TableTypes, HistTypes
  <2> QED
    BY <2>2, <2>6, <2>7 DEF GroupsOK
<1>3. ASSUME NEW r \in Runs, Kill(r) PROVE StateOK'
  <2>1. /\ UNCHANGED <<log, ckpt, dlq, members, open, churn, ledger, got, owed, unacked, expired>>
        /\ ForgetRun(r)
    BY <1>3 DEF Kill, tableVars
  <2>2. /\ GroupTypes' /\ TasksOK' /\ AtOK' /\ RunTypes' /\ BatchOK'
        /\ \A q \in Runs : run'[q] = IF q = r THEN "idle" ELSE run[q]
    BY <2>1, ForgetRunKeeps
  <2>3. /\ attempts' \in 0..MaxAttempts
        /\ \A q \in Runs : q # r /\ run[q] = "active" => attempts' < MaxAttempts
    <3>1. CASE run[r] = "active"
      BY <1>3, <3>1 DEF Kill, StreamTypes, RunTypes, GroupsOK, AttemptsOK
    <3>2. CASE run[r] # "active"
      BY <1>3, <3>2 DEF Kill, StreamTypes, GroupsOK, AttemptsOK
    <3> QED
      BY <3>1, <3>2
  <2>4. StreamTypes' /\ AttemptsOK'
    <3>1. blamed' \subseteq Msgs
      BY <1>3, HeadedType DEF Kill, StreamTypes
    <3> QED
      BY <2>1, <2>2, <2>3, <3>1 DEF StreamTypes, AttemptsOK
  <2>5. stranded' \subseteq Msgs \X Subs \X Causes /\ faults' \in 0..MaxFaults
    BY <1>3, FaultCounts DEF Kill, HistTypes, Pairs, Causes
  <2>6. TableTypes' /\ HistTypes'
    BY <2>1, <2>5 DEF TableTypes, HistTypes
  <2> QED
    BY <2>2, <2>4, <2>6 DEF GroupsOK
<1>4. ASSUME NEW r \in Runs, Abandon(r) PROVE StateOK'
  <2>1. /\ UNCHANGED <<log, ckpt, dlq, members, open, churn, ledger, hi, pc, at, cur, next,
                       task, got, owed, stranded, unacked, expired>>
        /\ run[r] = "active" /\ run' = [run EXCEPT ![r] = "abandoned"]
        /\ attempts' = attempts + 1 /\ blamed' = blamed \cup Headed
    BY <1>4 DEF Abandon, tableVars, groupVars, histVars
  <2>2. faults' \in 0..MaxFaults
    BY <1>4, FaultCounts DEF Abandon
  <2>3. StreamTypes'
    BY <2>1, HeadedType DEF StreamTypes, GroupsOK, AttemptsOK
  <2>4. RunTypes' /\ AttemptsOK'
    BY <2>1 DEF RunTypes, AttemptsOK
  <2>5. TableTypes' /\ GroupTypes' /\ HistTypes'
    BY <2>1, <2>2 DEF TableTypes, GroupTypes, HistTypes
  <2>6. BatchOK' /\ AtOK' /\ TasksOK'
    BY <2>1 DEF GroupsOK, BatchOK, AtOK, TasksOK
  <2> QED
    BY <2>3, <2>4, <2>5, <2>6 DEF GroupsOK
<1>5. ASSUME NEW m \in Msgs, NEW c \in Subs, Expire(m, c) PROVE StateOK'
  <2>1. /\ UNCHANGED <<log, ckpt, attempts, dlq, blamed, members, open, churn, run, hi, pc, at, cur,
                       next, task, got, owed, stranded, unacked>>
        /\ ledger' \subseteq ledger /\ expired' = [expired EXCEPT ![m][c] = @ + 1]
    BY <1>5 DEF Expire, streamVars, tableVars, groupVars
  <2>2. expired' \in [Msgs -> [Subs -> Nat]]
    BY <2>1, CountUp DEF HistTypes
  <2>3. faults' \in 0..MaxFaults
    BY <1>5, FaultCounts DEF Expire
  <2>4. TypeOK'
    BY <2>1, <2>2, <2>3 DEF StreamTypes, TableTypes, RunTypes, GroupTypes, HistTypes
  <2>5. GroupsOK'
    BY <2>1 DEF GroupsOK, BatchOK, AtOK, TasksOK, AttemptsOK
  <2> QED
    BY <2>4, <2>5
<1> QED
  BY <1>1, <1>2, <1>3, <1>4, <1>5

LEMMA StateOKStep == StateOK /\ [Next]_vars => StateOK'
<1> SUFFICES ASSUME StateOK, [Next]_vars PROVE StateOK'
  OBVIOUS
<1>1. CASE UNCHANGED vars
  <2>1. TypeOK'
    BY <1>1 DEF vars, streamVars, tableVars, groupVars, histVars, StateOK, TypeOK,
                StreamTypes, TableTypes, RunTypes, GroupTypes, HistTypes
  <2>2. GroupsOK'
    BY <1>1 DEF vars, streamVars, groupVars, StateOK, GroupsOK, BatchOK, AtOK, TasksOK, AttemptsOK
  <2> QED
    BY <2>1, <2>2 DEF StateOK
<1>2. CASE Next
  <2>1. ASSUME NEW r \in Runs, NEW t \in Topics, GroupStep(r, t) PROVE StateOK'
    BY <2>1, StateOKPage, StateOKRecord, StateOKDeliver DEF GroupStep
  <2>2. ASSUME NEW r \in Runs, NEW t \in Topics, Requeue(r, t) PROVE StateOK'
    BY <2>2, StateOKRecord
  <2>3. ASSUME NEW r \in Runs, NEW t \in Topics, GroupFault(r, t) PROVE StateOK'
    BY <2>3, StateOKRecord, StateOKDeliver DEF GroupFault
  <2>4. CASE Poll
    BY <2>4, StateOKRuns, StateOKStart DEF Poll
  <2> QED
    BY <1>2, <2>1, <2>2, <2>3, <2>4, StateOKOutside, StateOKRuns DEF Next
<1> QED
  BY <1>1, <1>2

\* The variables keep to their types for any topics, subscribers, number of
\* invocations, batch sizes and failures.
THEOREM TypeCorrect == Spec => []TypeOK
<1>1. StateOK => TypeOK
  BY DEF StateOK
<1> QED
  BY <1>1, StateOKInit, StateOKStep, PTL DEF Spec

-----------------------------------------------------------------------------
(* Duplicates. The ledger makes every claimed pair somebody's: whoever is    *)
(* between claim and outcome is the only one there, and while a pair is not  *)
(* claimed, or its claim is not yet spent, every frame that reached the      *)
(* subscriber is accounted for by a failure.                                 *)

Holding == {"sending", "releasing", "reaping"}
Unspent == {"sending", "releasing"}
Explained(m, c) == unacked[m][c] + expired[m][c]

ClaimsRecorded == \A r \in Runs, t \in Topics, c \in Subs :
    task[r][t][c] \in Holding => <<MsgOf(r, t), c>> \in ledger
OneHolder == \A r, q \in Runs, t, u \in Topics, c \in Subs :
    /\ task[r][t][c] \in Holding /\ task[q][u][c] \in Holding
    /\ MsgOf(r, t) = MsgOf(q, u)
    => r = q /\ t = u
UnspentClaims == \A r \in Runs, t \in Topics, c \in Subs :
    task[r][t][c] \in Unspent => got[MsgOf(r, t)][c] <= Explained(MsgOf(r, t), c)
FreePairs == \A m \in Msgs, c \in Subs :
    <<m, c>> \notin ledger => got[m][c] <= Explained(m, c)

LedgerOK == ClaimsRecorded /\ OneHolder /\ UnspentClaims /\ FreePairs /\ DuplicatesExplained

LEMMA HolderSends ==
    ASSUME StateOK, NEW r \in Runs, NEW t \in Topics, NEW c \in Subs,
           task[r][t][c] # "idle"
    PROVE  pc[r][t] = "send"
<1>1. TasksOK
  BY DEF StateOK, GroupsOK
<1>2. NoTasks[c] = "idle"
  BY DEF NoTasks
<1> QED
  BY <1>1, <1>2 DEF TasksOK

LEMMA Counts ==
    ASSUME StateOK, NEW m \in Msgs, NEW c \in Subs
    PROVE  got[m][c] \in Nat /\ unacked[m][c] \in Nat /\ expired[m][c] \in Nat
  BY DEF StateOK, TypeOK, HistTypes

\* A step that makes no new claim, sends nothing and gives nothing back.
LEMMA FewerHolders ==
    ASSUME LedgerOK, UNCHANGED <<ledger, got, unacked, expired>>,
           \A r \in Runs, t \in Topics, c \in Subs :
             task'[r][t][c] \in Holding =>
                /\ task[r][t][c] \in Holding
                /\ task'[r][t][c] \in Unspent => task[r][t][c] \in Unspent
                /\ MsgOf(r, t)' = MsgOf(r, t)
    PROVE  LedgerOK'
<1>1. ClaimsRecorded'
  BY DEF LedgerOK, ClaimsRecorded
<1>2. OneHolder'
  BY DEF LedgerOK, OneHolder
<1>3. UnspentClaims'
  <2>1. Unspent \subseteq Holding
    BY DEF Unspent, Holding
  <2> QED
    BY <2>1 DEF LedgerOK, UnspentClaims, Explained
<1>4. FreePairs' /\ DuplicatesExplained'
  BY DEF LedgerOK, FreePairs, DuplicatesExplained, Explained
<1> QED
  BY <1>1, <1>2, <1>3, <1>4 DEF LedgerOK

\* Groups other than (r, t) keep their record, and the stream at most grows.
LEMMA SameMsg ==
    ASSUME StateOK, NEW r \in Runs, NEW t \in Topics, pc[r][t] # "none",
           at'[r][t] = at[r][t],
           log' = log \/ \E rec \in Records : Len(log) < MaxLog /\ log' = Append(log, rec)
    PROVE  MsgOf(r, t)' = MsgOf(r, t)
<1>1. at[r][t] \in 1..Len(log)
  BY DEF StateOK, GroupsOK, AtOK
<1>2. \A i \in 1..Len(log) : log'[i] = log[i]
  BY AppendOK DEF StateOK, TypeOK
<1> QED
  BY <1>1, <1>2 DEF MsgOf

\* The step of one group that does not leave it holding anything.
LEMMA LedgerOKGroup ==
    ASSUME StateOK, LedgerOK, NEW r \in Runs, NEW t \in Topics,
           UNCHANGED <<ledger, got, unacked, expired>>,
           \A c \in Subs : task'[r][t][c] \notin Holding,
           \A q \in Runs, u \in Topics : ~(q = r /\ u = t) =>
              task'[q][u] = task[q][u] /\ at'[q][u] = at[q][u],
           log' = log \/ \E rec \in Records : Len(log) < MaxLog /\ log' = Append(log, rec)
    PROVE  LedgerOK'
<1>1. ASSUME NEW q \in Runs, NEW u \in Topics, NEW c \in Subs, task'[q][u][c] \in Holding
      PROVE  /\ task[q][u][c] \in Holding
             /\ task'[q][u][c] \in Unspent => task[q][u][c] \in Unspent
             /\ MsgOf(q, u)' = MsgOf(q, u)
  <2>1. task'[q][u] = task[q][u] /\ at'[q][u] = at[q][u]
    BY <1>1
  <2>2. task[q][u][c] # "idle"
    BY <1>1, <2>1 DEF Holding
  <2>3. pc[q][u] # "none"
    BY <2>2, HolderSends
  <2> QED
    BY <1>1, <2>1, <2>3, SameMsg
<1> QED
  BY <1>1, FewerHolders

-----------------------------------------------------------------------------
(* The steps of deliverOne.                                                *)

LEMMA LedgerOKClaim ==
    ASSUME StateOK, LedgerOK, NEW r \in Runs, NEW t \in Topics, NEW c \in Subs,
           task[r][t][c] = "todo", Unclaimed(MsgOf(r, t), c),
           ledger' = ledger \cup {<<MsgOf(r, t), c>>},
           SetTask(r, t, c, "sending"),
           UNCHANGED <<log, at, got, unacked, expired>>
    PROVE  LedgerOK'
<1> DEFINE m == MsgOf(r, t)
<1>1. \A q \in Runs, u \in Topics, d \in Subs :
        task'[q][u][d] = IF q = r /\ u = t /\ d = c THEN "sending" ELSE task[q][u][d]
  BY SetTaskMoves DEF TaskStates, InFlight
<1>2. \A q \in Runs, u \in Topics : MsgOf(q, u)' = MsgOf(q, u)
  BY DEF MsgOf
<1>3. m \in Msgs
  BY HolderSends, MsgOfType
<1>4. <<m, c>> \notin ledger
  BY DEF Unclaimed
<1> HIDE DEF m
<1>5. \A q \in Runs, u \in Topics : task[q][u][c] \in Holding => MsgOf(q, u) # m
  BY <1>4 DEF LedgerOK, ClaimsRecorded
<1>6. ClaimsRecorded'
  BY <1>1, <1>2 DEF LedgerOK, ClaimsRecorded, m
<1>7. OneHolder'
  BY <1>1, <1>2, <1>5 DEF LedgerOK, OneHolder, m
<1>8. UnspentClaims'
  <2>1. got[m][c] <= Explained(m, c)
    BY <1>3, <1>4 DEF LedgerOK, FreePairs
  <2> QED
    BY <1>1, <1>2, <2>1 DEF LedgerOK, UnspentClaims, Explained, m
<1>9. FreePairs' /\ DuplicatesExplained'
  BY DEF LedgerOK, FreePairs, DuplicatesExplained, Explained
<1> QED
  BY <1>6, <1>7, <1>8, <1>9 DEF LedgerOK

\* The holder's frame arrives: a first one, or one more with its excuse.
LEMMA LedgerOKSend ==
    ASSUME StateOK, LedgerOK, NEW r \in Runs, NEW t \in Topics, NEW c \in Subs,
           Send(r, t, c) \/ SendUnanswered(r, t, c)
    PROVE  LedgerOK'
<1> DEFINE m == MsgOf(r, t)
<1>1. PICK s \in {"done", "releasing"} :
        /\ SetTask(r, t, c, s)
        /\ got' = [got EXCEPT ![m][c] = @ + 1]
        /\ \/ s = "done" /\ unacked' = unacked
           \/ s = "releasing" /\ unacked' = [unacked EXCEPT ![m][c] = @ + 1]
  BY DEF Send, SendUnanswered
<1>2. /\ task[r][t][c] = "sending" /\ UNCHANGED <<log, at, ledger, expired>>
  BY DEF Send, SendUnanswered, streamVars, groupVars
<1>3. \A q \in Runs, u \in Topics, d \in Subs :
        task'[q][u][d] = IF q = r /\ u = t /\ d = c THEN s ELSE task[q][u][d]
  BY <1>1, <1>2, SetTaskMoves DEF TaskStates, InFlight
<1>4. \A q \in Runs, u \in Topics : MsgOf(q, u)' = MsgOf(q, u)
  BY <1>2 DEF MsgOf
<1>5. m \in Msgs
  BY <1>2, HolderSends, MsgOfType
<1> HIDE DEF m
<1>6. /\ \A n \in Msgs, d \in Subs : n # m \/ d # c =>
           got'[n][d] = got[n][d] /\ unacked'[n][d] = unacked[n][d]
      /\ got'[m][c] = got[m][c] + 1
      /\ unacked'[m][c] = IF s = "done" THEN unacked[m][c] ELSE unacked[m][c] + 1
  <2>1. got \in [Msgs -> [Subs -> Nat]] /\ unacked \in [Msgs -> [Subs -> Nat]]
    BY DEF StateOK, TypeOK, HistTypes
  <2>2. \A n \in Msgs, d \in Subs :
          got'[n][d] = IF n = m /\ d = c THEN got[n][d] + 1 ELSE got[n][d]
    BY <1>1, <1>5, <2>1, CountUp
  <2>3. CASE s = "done"
    BY <1>1, <1>5, <2>2, <2>3
  <2>4. CASE s = "releasing"
    <3>1. \A n \in Msgs, d \in Subs :
            unacked'[n][d] = IF n = m /\ d = c THEN unacked[n][d] + 1 ELSE unacked[n][d]
      BY <1>1, <1>5, <2>1, <2>4, CountUp
    <3> QED
      BY <1>5, <2>2, <2>4, <3>1
  <2> QED
    BY <2>3, <2>4
<1>7. got[m][c] <= Explained(m, c) /\ <<m, c>> \in ledger
  BY <1>2 DEF LedgerOK, UnspentClaims, ClaimsRecorded, Unspent, Holding, m
<1>8. /\ got[m][c] \in Nat /\ unacked[m][c] \in Nat /\ expired[m][c] \in Nat
  BY <1>5, Counts
<1>9. \A q \in Runs, u \in Topics : task[q][u][c] \in Holding /\ MsgOf(q, u) = m => q = r /\ u = t
  BY <1>2 DEF LedgerOK, OneHolder, Holding, m
<1>10. ClaimsRecorded' /\ OneHolder'
  <2>1. \A q \in Runs, u \in Topics, d \in Subs :
          task'[q][u][d] \in Holding => task[q][u][d] \in Holding
    BY <1>2, <1>3 DEF Holding
  <2>2. ClaimsRecorded'
    BY <1>2, <1>4, <2>1 DEF LedgerOK, ClaimsRecorded
  <2>3. OneHolder'
    <3> SUFFICES ASSUME NEW q \in Runs, NEW p \in Runs, NEW u \in Topics, NEW w \in Topics,
                        NEW d \in Subs, task'[q][u][d] \in Holding, task'[p][w][d] \in Holding,
                        MsgOf(q, u)' = MsgOf(p, w)'
                 PROVE  q = p /\ u = w
      BY DEF OneHolder
    <3>1. MsgOf(q, u) = MsgOf(p, w)
      BY <1>4
    <3>2. task[q][u][d] \in Holding /\ task[p][w][d] \in Holding
      BY <2>1
    <3> QED
      BY <3>1, <3>2 DEF LedgerOK, OneHolder
  <2> QED
    BY <2>2, <2>3
<1>11. UnspentClaims'
  <2> SUFFICES ASSUME NEW q \in Runs, NEW u \in Topics, NEW d \in Subs,
                      task'[q][u][d] \in Unspent
               PROVE  got'[MsgOf(q, u)][d] <= unacked'[MsgOf(q, u)][d] + expired[MsgOf(q, u)][d]
    BY <1>2, <1>4 DEF UnspentClaims, Explained
  <2>1. CASE q = r /\ u = t /\ d = c
    <3>1. s = "releasing" /\ MsgOf(q, u) = m
      BY <1>1, <1>3, <2>1 DEF Unspent, m
    <3> QED
      BY <1>6, <1>7, <1>8, <2>1, <3>1 DEF Explained
  <2>2. CASE ~(q = r /\ u = t /\ d = c)
    <3>1. task[q][u][d] \in Unspent /\ task[q][u][d] \in Holding
      BY <1>3, <2>2 DEF Unspent, Holding
    <3>2. MsgOf(q, u) # m \/ d # c
      BY <1>9, <2>2, <3>1
    <3>3. MsgOf(q, u) \in Msgs
      BY <3>1, HolderSends, MsgOfType DEF Holding
    <3>4. got[MsgOf(q, u)][d] <= unacked[MsgOf(q, u)][d] + expired[MsgOf(q, u)][d]
      BY <3>1 DEF LedgerOK, UnspentClaims, Explained
    <3> QED
      BY <1>6, <3>2, <3>3, <3>4
  <2> QED
    BY <2>1, <2>2
<1>12. FreePairs'
  <2> SUFFICES ASSUME NEW n \in Msgs, NEW d \in Subs, <<n, d>> \notin ledger
               PROVE  got'[n][d] <= unacked'[n][d] + expired[n][d]
    BY <1>2 DEF FreePairs, Explained
  <2>1. n # m \/ d # c
    BY <1>7
  <2>2. got[n][d] <= unacked[n][d] + expired[n][d]
    BY DEF LedgerOK, FreePairs, Explained
  <2> QED
    BY <1>6, <2>1, <2>2
<1>13. DuplicatesExplained'
  <2> SUFFICES ASSUME NEW n \in Msgs, NEW d \in Subs
               PROVE  got'[n][d] <= 1 + unacked'[n][d] + expired[n][d]
    BY <1>2 DEF DuplicatesExplained
  <2>1. CASE n = m /\ d = c
    BY <1>6, <1>7, <1>8, <2>1 DEF Explained
  <2>2. CASE ~(n = m /\ d = c)
    BY <1>6, <2>2 DEF LedgerOK, DuplicatesExplained
  <2> QED
    BY <2>1, <2>2
<1> QED
  BY <1>10, <1>11, <1>12, <1>13 DEF LedgerOK

\* The holder gives its unspent claim back: the pair is free, and everything
\* that reached the subscriber so far is explained.
LEMMA LedgerOKRelease ==
    ASSUME StateOK, LedgerOK, NEW r \in Runs, NEW t \in Topics, NEW c \in Subs,
           Release(r, t, c)
    PROVE  LedgerOK'
<1> DEFINE m == MsgOf(r, t)
<1>1. /\ task[r][t][c] = "releasing" /\ SetTask(r, t, c, "failed")
      /\ ledger' = ledger \ {<<m, c>>}
      /\ UNCHANGED <<log, at, got, unacked, expired>>
  BY DEF Release, GiveBack, streamVars, groupVars
<1>2. \A q \in Runs, u \in Topics, d \in Subs :
        task'[q][u][d] = IF q = r /\ u = t /\ d = c THEN "failed" ELSE task[q][u][d]
  BY <1>1, SetTaskMoves DEF TaskStates, InFlight
<1>3. \A q \in Runs, u \in Topics : MsgOf(q, u)' = MsgOf(q, u)
  BY <1>1 DEF MsgOf
<1> HIDE DEF m
<1>4. got[m][c] <= Explained(m, c)
  BY <1>1 DEF LedgerOK, UnspentClaims, Unspent, m
<1>5. \A q \in Runs, u \in Topics : task[q][u][c] \in Holding /\ MsgOf(q, u) = m => q = r /\ u = t
  BY <1>1 DEF LedgerOK, OneHolder, Holding, m
<1>6. \A q \in Runs, u \in Topics, d \in Subs : task'[q][u][d] \in Holding =>
        task'[q][u][d] = task[q][u][d] /\ ~(q = r /\ u = t /\ d = c)
  BY <1>2 DEF Holding
<1>7. ClaimsRecorded'
  <2> SUFFICES ASSUME NEW q \in Runs, NEW u \in Topics, NEW d \in Subs, task'[q][u][d] \in Holding
               PROVE  <<MsgOf(q, u), d>> \in ledger'
    BY <1>3 DEF ClaimsRecorded
  <2>1. task[q][u][d] \in Holding /\ ~(q = r /\ u = t /\ d = c)
    BY <1>6
  <2>2. <<MsgOf(q, u), d>> \in ledger
    BY <2>1 DEF LedgerOK, ClaimsRecorded
  <2>3. ~(MsgOf(q, u) = m /\ d = c)
    BY <1>5, <2>1
  <2> QED
    BY <1>1, <2>2, <2>3
<1>8. OneHolder'
  BY <1>3, <1>6 DEF LedgerOK, OneHolder
<1>9. UnspentClaims'
  <2>1. Unspent \subseteq Holding
    BY DEF Unspent, Holding
  <2> QED
    BY <1>1, <1>3, <1>6, <2>1 DEF LedgerOK, UnspentClaims, Explained
<1>10. FreePairs'
  <2> SUFFICES ASSUME NEW n \in Msgs, NEW d \in Subs, <<n, d>> \notin ledger'
               PROVE  got[n][d] <= Explained(n, d)
    BY <1>1 DEF FreePairs, Explained
  <2>1. CASE n = m /\ d = c
    BY <1>4, <2>1
  <2>2. CASE ~(n = m /\ d = c)
    BY <1>1, <2>2 DEF LedgerOK, FreePairs
  <2> QED
    BY <2>1, <2>2
<1>11. DuplicatesExplained'
  BY <1>1 DEF LedgerOK, DuplicatesExplained
<1> QED
  BY <1>7, <1>8, <1>9, <1>10, <1>11 DEF LedgerOK

\* A claim nobody is using expires; the pair is free, at the price of one.
LEMMA LedgerOKExpire ==
    ASSUME StateOK, LedgerOK, NEW m \in Msgs, NEW c \in Subs, Expire(m, c)
    PROVE  LedgerOK'
<1>1. /\ ledger' = ledger \ {<<m, c>>} /\ expired' = [expired EXCEPT ![m][c] = @ + 1]
      /\ UNCHANGED <<log, at, task, got, unacked>>
      /\ \A r \in Runs : ~Held(r, m, c)
  BY DEF Expire, streamVars, groupVars
<1>2. \A q \in Runs, u \in Topics : MsgOf(q, u)' = MsgOf(q, u)
  BY <1>1 DEF MsgOf
<1>3. \A q \in Runs, u \in Topics : task[q][u][c] \in Holding => MsgOf(q, u) # m
  BY <1>1, HolderSends DEF Held, Holding
<1>4. /\ \A n \in Msgs, d \in Subs : n # m \/ d # c => expired'[n][d] = expired[n][d]
      /\ expired'[m][c] = expired[m][c] + 1
  <2>1. expired \in [Msgs -> [Subs -> Nat]]
    BY DEF StateOK, TypeOK, HistTypes
  <2>2. \A n \in Msgs, d \in Subs :
          expired'[n][d] = IF n = m /\ d = c THEN expired[n][d] + 1 ELSE expired[n][d]
    BY <1>1, <2>1, CountUp
  <2> QED
    BY <2>2
<1>5. /\ got[m][c] \in Nat /\ unacked[m][c] \in Nat /\ expired[m][c] \in Nat
  BY Counts
<1>6. ClaimsRecorded' /\ OneHolder'
  BY <1>1, <1>2, <1>3 DEF LedgerOK, ClaimsRecorded, OneHolder
<1>7. UnspentClaims'
  <2> SUFFICES ASSUME NEW q \in Runs, NEW u \in Topics, NEW d \in Subs, task[q][u][d] \in Unspent
               PROVE  got[MsgOf(q, u)][d] <= unacked[MsgOf(q, u)][d] + expired'[MsgOf(q, u)][d]
    BY <1>1, <1>2 DEF UnspentClaims, Explained
  <2>1. MsgOf(q, u) # m \/ d # c
    BY <1>3 DEF Unspent, Holding
  <2>2. MsgOf(q, u) \in Msgs
    BY HolderSends, MsgOfType DEF Unspent
  <2> QED
    BY <1>4, <2>1, <2>2 DEF LedgerOK, UnspentClaims, Explained
<1>8. FreePairs'
  <2> SUFFICES ASSUME NEW n \in Msgs, NEW d \in Subs, <<n, d>> \notin ledger'
               PROVE  got[n][d] <= unacked[n][d] + expired'[n][d]
    BY <1>1 DEF FreePairs, Explained
  <2>1. CASE n = m /\ d = c
    BY <1>4, <1>5, <2>1 DEF LedgerOK, DuplicatesExplained
  <2>2. CASE ~(n = m /\ d = c)
    BY <1>1, <1>4, <2>2 DEF LedgerOK, FreePairs, Explained
  <2> QED
    BY <2>1, <2>2
<1>9. DuplicatesExplained'
  <2> SUFFICES ASSUME NEW n \in Msgs, NEW d \in Subs
               PROVE  got[n][d] <= 1 + unacked[n][d] + expired'[n][d]
    BY <1>1 DEF DuplicatesExplained
  <2>1. expired'[n][d] = expired[n][d] \/ expired'[n][d] = expired[n][d] + 1
    BY <1>4
  <2>2. got[n][d] \in Nat /\ unacked[n][d] \in Nat /\ expired[n][d] \in Nat
    BY Counts
  <2> QED
    BY <2>1, <2>2 DEF LedgerOK, DuplicatesExplained
<1> QED
  BY <1>6, <1>7, <1>8, <1>9 DEF LedgerOK

-----------------------------------------------------------------------------

LEMMA LedgerOKDeliver ==
    ASSUME StateOK, LedgerOK, NEW r \in Runs, NEW t \in Topics, NEW c \in Subs,
           \/ DeliverStep(r, t, c) \/ ClaimFails(r, t, c) \/ ClaimUnconfirmed(r, t, c)
           \/ SendFails(r, t, c) \/ SendUnanswered(r, t, c)
           \/ ReapFails(r, t, c) \/ ReleaseFails(r, t, c)
    PROVE  LedgerOK'
<1>1. CASE Claim(r, t, c) /\ Unclaimed(MsgOf(r, t), c)
  BY <1>1, LedgerOKClaim DEF Claim, streamVars, groupVars, histVars
<1>2. CASE Send(r, t, c) \/ SendUnanswered(r, t, c)
  BY <1>2, LedgerOKSend
<1>3. CASE Release(r, t, c)
  BY <1>3, LedgerOKRelease
<1>4. CASE ClaimUnconfirmed(r, t, c)
  <2>1. /\ task[r][t][c] = "todo" /\ \E s \in {"done", "failed"} : SetTask(r, t, c, s)
        /\ ledger \subseteq ledger'
        /\ UNCHANGED <<log, at, got, unacked, expired>>
    BY <1>4 DEF ClaimUnconfirmed, streamVars, groupVars
  <2>2. \A q \in Runs, u \in Topics, d \in Subs :
          task'[q][u][d] \in Holding => task'[q][u][d] = task[q][u][d]
    <3>1. PICK s \in TaskStates : SetTask(r, t, c, s) /\ s \notin Holding
      BY <2>1 DEF TaskStates, Holding
    <3>2. s \notin Holding /\ task[r][t][c] # "idle"
      BY <2>1, <3>1
    <3>3. \A q \in Runs, u \in Topics, d \in Subs :
            task'[q][u][d] = IF q = r /\ u = t /\ d = c THEN s ELSE task[q][u][d]
      BY <3>1, <3>2, SetTaskMoves
    <3>4. ASSUME NEW q \in Runs, NEW u \in Topics, NEW d \in Subs, task'[q][u][d] \in Holding
          PROVE  task'[q][u][d] = task[q][u][d]
      <4>1. task'[q][u][d] = IF q = r /\ u = t /\ d = c THEN s ELSE task[q][u][d]
        BY <3>3
      <4>2. ~(q = r /\ u = t /\ d = c)
        BY <3>2, <3>4, <4>1
      <4> QED
        BY <4>1, <4>2
    <3> QED
      BY <3>4
  <2>3. \A q \in Runs, u \in Topics : MsgOf(q, u)' = MsgOf(q, u)
    BY <2>1 DEF MsgOf
  <2>4. ClaimsRecorded'
    BY <2>1, <2>2, <2>3 DEF LedgerOK, ClaimsRecorded
  <2>5. OneHolder'
    BY <2>2, <2>3 DEF LedgerOK, OneHolder
  <2>6. UnspentClaims'
    <3>1. Unspent \subseteq Holding
      BY DEF Unspent, Holding
    <3> QED
      BY <2>1, <2>2, <2>3, <3>1 DEF LedgerOK, UnspentClaims, Explained
  <2>7. FreePairs' /\ DuplicatesExplained'
    BY <2>1 DEF LedgerOK, FreePairs, DuplicatesExplained, Explained
  <2> QED
    BY <2>4, <2>5, <2>6, <2>7 DEF LedgerOK
<1>5. CASE \/ Claim(r, t, c) /\ ~Unclaimed(MsgOf(r, t), c)
           \/ SendGone(r, t, c) \/ Reap(r, t, c)
           \/ ClaimFails(r, t, c) \/ SendFails(r, t, c)
           \/ ReapFails(r, t, c) \/ ReleaseFails(r, t, c)
  <2>1. /\ UNCHANGED <<log, at, ledger, got, unacked, expired>>
        /\ \E s \in TaskStates :
             /\ SetTask(r, t, c, s) /\ task[r][t][c] # "idle"
             /\ s \in Holding => task[r][t][c] = "sending"
    BY <1>5 DEF Claim, SendGone, Reap, ClaimFails, SendFails, ReapFails, ReleaseFails,
                streamVars, groupVars, histVars, TaskStates, InFlight, Holding
  <2>2. PICK s \in TaskStates :
          /\ SetTask(r, t, c, s) /\ task[r][t][c] # "idle"
          /\ s \in Holding => task[r][t][c] = "sending"
    BY <2>1
  <2>3. \A q \in Runs, u \in Topics, d \in Subs :
          task'[q][u][d] = IF q = r /\ u = t /\ d = c THEN s ELSE task[q][u][d]
    BY <2>2, SetTaskMoves
  <2>4. \A q \in Runs, u \in Topics : MsgOf(q, u)' = MsgOf(q, u)
    BY <2>1 DEF MsgOf
  <2> QED
    BY <2>1, <2>2, <2>3, <2>4, FewerHolders DEF Holding, Unspent
<1> QED
  BY <1>1, <1>2, <1>3, <1>4, <1>5 DEF DeliverStep

LEMMA LedgerOKPages ==
    ASSUME StateOK, LedgerOK, NEW r \in Runs, NEW t \in Topics,
           \/ ReadPage(r, t) \/ NextBatch(r, t)
           \/ PageUnreadable(r, t) \/ PageFailed(r, t) \/ LastPageDone(r, t) \/ NextPage(r, t)
           \/ Requeue(r, t) \/ RequeueFails(r, t) \/ RequeueUnconfirmed(r, t)
    PROVE  LedgerOK'
<1>1. UNCHANGED <<ledger, got, unacked, expired>>
  BY DEF ReadPage, NextBatch, PageUnreadable, PageFailed, LastPageDone, NextPage, Requeue,
         RequeueFails, RequeueUnconfirmed, histVars
<1>2. log' = log \/ \E rec \in Records : Len(log) < MaxLog /\ log' = Append(log, rec)
  <2>1. CASE Requeue(r, t) \/ RequeueUnconfirmed(r, t)
    <3>1. pc[r][t] # "none"
      BY <2>1 DEF Requeue, RequeueUnconfirmed, PageDone, PageSettled
    <3>2. Continuation(r, t) \in Records
      BY <3>1, MsgOfType DEF Continuation, Records, StateOK, TypeOK, GroupTypes
    <3> QED
      BY <2>1, <3>2 DEF Requeue, RequeueUnconfirmed
  <2>2. CASE ~(Requeue(r, t) \/ RequeueUnconfirmed(r, t))
    BY <2>2 DEF ReadPage, NextBatch, PageUnreadable, PageFailed, LastPageDone, NextPage,
                RequeueFails, streamVars
  <2> QED
    BY <2>1, <2>2
<1>3. PICK f \in [Subs -> TaskStates] :
        /\ task' = [task EXCEPT ![r][t] = f]
        /\ \A c \in Subs : f[c] \notin Holding
  <2>1. CASE ReadPage(r, t)
    <3> DEFINE f(end) == [c \in Subs |-> IF c \in {d \in members[t] : d > cur[r][t]}
                                           /\ (end = 0 \/ c <= end)
                                        THEN "queued" ELSE "idle"]
    <3>1. \E end \in Subs \cup {0} : task' = [task EXCEPT ![r][t] = f(end)]
      BY <2>1 DEF ReadPage, StateOK, TypeOK, TableTypes
    <3>2. \A end \in Subs \cup {0} : f(end) \in [Subs -> TaskStates]
                                     /\ \A c \in Subs : f(end)[c] \notin Holding
      BY DEF TaskStates, Holding
    <3> QED
      BY <3>1, <3>2
  <2>2. CASE NextBatch(r, t)
    <3>1. PICK batch \in SUBSET Subs : task' = [task EXCEPT ![r][t] =
                 [c \in Subs |-> IF c \in batch THEN "todo" ELSE task[r][t][c]]]
      BY <2>2 DEF NextBatch
    <3> DEFINE f == [c \in Subs |-> IF c \in batch THEN "todo" ELSE task[r][t][c]]
    <3>2. task[r][t] \in [Subs -> TaskStates] /\ "todo" \in TaskStates
      BY DEF StateOK, TypeOK, GroupTypes, TaskStates, InFlight
    <3>3. f \in [Subs -> TaskStates]
      BY <3>2
    <3>4. \A c \in Subs : f[c] \notin Holding
      BY <2>2 DEF NextBatch, Holding, InFlight
    <3> QED
      BY <3>1, <3>3, <3>4
  <2>3. CASE ~(ReadPage(r, t) \/ NextBatch(r, t))
    <3>1. task' = [task EXCEPT ![r][t] = NoTasks]
      BY <2>3 DEF PageUnreadable, PageFailed, LastPageDone, NextPage, Requeue, RequeueFails,
                  RequeueUnconfirmed, RecordDone, RecordFailed, ClearTasks
    <3>2. \A c \in Subs : NoTasks[c] \notin Holding
      BY DEF NoTasks, Holding
    <3> QED
      BY <3>1, <3>2, NoTasksType
  <2> QED
    BY <2>1, <2>2, <2>3
<1>4. \A q \in Runs, u \in Topics : task'[q][u] = IF q = r /\ u = t THEN f ELSE task[q][u]
  BY <1>3, GroupUpdate DEF StateOK, TypeOK, GroupTypes
<1>5. \A q \in Runs, u \in Topics : ~(q = r /\ u = t) => at'[q][u] = at[q][u]
  <2>1. at' = at \/ \E i : at' = [at EXCEPT ![r][t] = i]
    BY DEF ReadPage, NextBatch, PageUnreadable, PageFailed, LastPageDone, NextPage, Requeue,
           RequeueFails, RequeueUnconfirmed, RecordDone, RecordFailed, groupVars
  <2> QED
    BY <2>1 DEF StateOK, TypeOK, GroupTypes
<1> QED
  BY <1>1, <1>2, <1>3, <1>4, <1>5, LedgerOKGroup

\* An invocation that starts or ends holds nothing; the others keep what they had.
LEMMA LedgerOKRun ==
    ASSUME StateOK, LedgerOK, NEW r \in Runs, NEW i \in [Topics -> Nat],
           UNCHANGED <<log, ledger, got, unacked, expired>>,
           at' = [at EXCEPT ![r] = i],
           task' = [task EXCEPT ![r] = [t \in Topics |-> NoTasks]]
    PROVE  LedgerOK'
<1>1. \A q \in Runs, t \in Topics : task'[q][t] = IF q = r THEN NoTasks ELSE task[q][t]
  BY NoTasksType, RunUpdate DEF StateOK, TypeOK, GroupTypes
<1>2. \A q \in Runs, t \in Topics : at'[q][t] = IF q = r THEN i[t] ELSE at[q][t]
  BY RunUpdate DEF StateOK, TypeOK, GroupTypes
<1>3. ASSUME NEW q \in Runs, NEW t \in Topics, NEW c \in Subs, task'[q][t][c] \in Holding
      PROVE  task[q][t][c] = task'[q][t][c] /\ MsgOf(q, t)' = MsgOf(q, t)
  <2>1. q # r
    BY <1>1, <1>3 DEF NoTasks, Holding
  <2> QED
    BY <1>1, <1>2, <2>1 DEF MsgOf
<1> QED
  BY <1>3, FewerHolders

\* Nor do the steps that touch neither claims nor deliveries matter.
LEMMA LedgerOKElsewhere ==
    ASSUME StateOK, LedgerOK, UNCHANGED <<at, task, ledger, got, unacked, expired>>,
           log' = log \/ \E rec \in Records : Len(log) < MaxLog /\ log' = Append(log, rec)
    PROVE  LedgerOK'
<1>1. ASSUME NEW q \in Runs, NEW t \in Topics, NEW c \in Subs, task'[q][t][c] \in Holding
      PROVE  task[q][t][c] = task'[q][t][c] /\ MsgOf(q, t)' = MsgOf(q, t)
  <2>1. task[q][t][c] # "idle"
    BY <1>1 DEF Holding
  <2>2. pc[q][t] # "none"
    BY <2>1, HolderSends
  <2> QED
    BY <2>2, SameMsg
<1> QED
  BY <1>1, FewerHolders

LEMMA LedgerOKInit == Init => LedgerOK
<1> SUFFICES ASSUME Init PROVE LedgerOK
  OBVIOUS
<1>1. ClaimsRecorded /\ OneHolder /\ UnspentClaims
  <2>1. \A r \in Runs, t \in Topics, c \in Subs : task[r][t][c] = "idle"
    BY DEF Init, NoTasks
  <2> QED
    BY <2>1 DEF ClaimsRecorded, OneHolder, UnspentClaims, Holding, Unspent
<1>2. FreePairs /\ DuplicatesExplained
  <2>1. \A m \in Msgs, c \in Subs : got[m][c] = 0 /\ unacked[m][c] = 0 /\ expired[m][c] = 0
    BY DEF Init
  <2>2. \A m \in Msgs, c \in Subs :
          got[m][c] <= Explained(m, c) /\ got[m][c] <= 1 + unacked[m][c] + expired[m][c]
    <3> TAKE m \in Msgs, c \in Subs
    <3>1. got[m][c] = 0 /\ unacked[m][c] = 0 /\ expired[m][c] = 0
      BY <2>1
    <3> QED
      BY <3>1 DEF Explained
  <2> QED
    BY <2>2 DEF FreePairs, DuplicatesExplained
<1> QED
  BY <1>1, <1>2 DEF LedgerOK

LEMMA LedgerOKStep == StateOK /\ LedgerOK /\ [Next]_vars => LedgerOK'
<1> SUFFICES ASSUME StateOK, LedgerOK, [Next]_vars PROVE LedgerOK'
  OBVIOUS
<1>1. CASE UNCHANGED vars
  BY <1>1, LedgerOKElsewhere DEF vars, streamVars, groupVars, histVars
<1>2. ASSUME NEW m \in Msgs, Publish(m) PROVE LedgerOK'
  <2>1. [msg |-> m, cursor |-> 0] \in Records
    BY DEF Records
  <2> QED
    BY <1>2, <2>1, LedgerOKElsewhere DEF Publish, groupVars
<1>3. ASSUME NEW t \in Topics, NEW c \in Subs, Join(t, c) \/ Leave(t, c) PROVE LedgerOK'
  BY <1>3, LedgerOKElsewhere DEF Join, Leave, streamVars, groupVars, histVars
<1>4. ASSUME NEW c \in Subs, HangUp(c) \/ Disconnected(c) PROVE LedgerOK'
  BY <1>4, LedgerOKElsewhere DEF HangUp, Disconnected, streamVars, groupVars, histVars
<1>5. ASSUME NEW r \in Runs, NEW t \in Topics, GroupStep(r, t) PROVE LedgerOK'
  BY <1>5, LedgerOKPages, LedgerOKDeliver DEF GroupStep
<1>6. ASSUME NEW r \in Runs, NEW t \in Topics, Requeue(r, t) PROVE LedgerOK'
  BY <1>6, LedgerOKPages
<1>7. ASSUME NEW r \in Runs, NEW t \in Topics, GroupFault(r, t) PROVE LedgerOK'
  BY <1>7, LedgerOKPages, LedgerOKDeliver DEF GroupFault
<1>8. CASE Discard
  BY <1>8, LedgerOKElsewhere DEF Discard, groupVars, histVars
<1>9. ASSUME NEW r \in Runs, EndRun(r) PROVE LedgerOK'
  <2>1. [t \in Topics |-> 0] \in [Topics -> Nat]
    OBVIOUS
  <2> QED
    BY <1>9, <2>1, LedgerOKRun DEF EndRun, ForgetRun, histVars
<1>10. ASSUME NEW r \in Runs, NEW h \in 1..MaxLog, StartRun(r, h) PROVE LedgerOK'
  <2>1. PICK i : at' = [at EXCEPT ![r] = i] /\ i = [t \in Topics |->
          IF Entries(t, ckpt + 1, h) # {} THEN MinOf(Entries(t, ckpt + 1, h)) ELSE 0]
    BY <1>10 DEF StartRun
  <2>2. i \in [Topics -> Nat]
    <3>1. \A t \in Topics : Entries(t, ckpt + 1, h) \in SUBSET Nat
      BY DEF Entries, StateOK, TypeOK, StreamTypes
    <3>2. \A t \in Topics : Entries(t, ckpt + 1, h) # {} => MinOf(Entries(t, ckpt + 1, h)) \in Nat
      BY <3>1, MinOfNat
    <3> QED
      BY <2>1, <3>2
  <2>3. /\ UNCHANGED <<log, ledger, got, unacked, expired>>
        /\ task' = [task EXCEPT ![r] = [t \in Topics |-> NoTasks]]
    BY <1>10 DEF StartRun, streamVars, histVars
  <2> QED
    BY <2>1, <2>2, <2>3, LedgerOKRun
<1>11. ASSUME NEW r \in Runs, Kill(r) PROVE LedgerOK'
  <2>1. [t \in Topics |-> 0] \in [Topics -> Nat]
    OBVIOUS
  <2> QED
    BY <1>11, <2>1, LedgerOKRun DEF Kill, ForgetRun
<1>12. ASSUME NEW r \in Runs, Abandon(r) PROVE LedgerOK'
  BY <1>12, LedgerOKElsewhere DEF Abandon, groupVars, histVars
<1>13. ASSUME NEW m \in Msgs, NEW c \in Subs, Expire(m, c) PROVE LedgerOK'
  BY <1>13, LedgerOKExpire
<1> QED
  BY <1>1, <1>2, <1>3, <1>4, <1>5, <1>6, <1>7, <1>8, <1>9, <1>10, <1>11, <1>12, <1>13
  DEF Next, Poll

\* However many topics, subscribers, retries, continuations and concurrent
\* invocations there are, a subscriber gets a frame twice only as often as a send
\* that arrived was reported failed or a ledger row expired.
THEOREM DuplicatesAreExplained == Spec => []DuplicatesExplained
<1>1. LedgerOK => DuplicatesExplained
  BY DEF LedgerOK
<1> QED
  BY <1>1, StateOKInit, StateOKStep, LedgerOKInit, LedgerOKStep, PTL DEF Spec
=============================================================================
