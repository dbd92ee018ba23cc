------------------------ MODULE SubscriptionsProofs ------------------------
(***************************************************************************)
(* Proofs about Subscriptions: its type invariant, that the registry holds *)
(* what the client does, and that every due frame is served, for every     *)
(* number of ids, topics, pages, invocations and messages.                 *)
(***************************************************************************)
EXTENDS Subscriptions, FiniteSetTheorems, SequenceTheorems, TLAPS

-----------------------------------------------------------------------------
(* Pages                                                                    *)

\* The greatest element of a set of naturals up to n exists.
LEMMA Greatest ==
    ASSUME NEW n \in Nat, NEW S \in SUBSET (1..n), S # {}
    PROVE  \E x \in S : \A y \in S : y <= x
<1> DEFINE Below == {p \in Nat \X Nat : p[1] < p[2]}
           T == {n - x : x \in S}
<1>1. IsWellFoundedOn(Below, Nat)
  BY NatLessThanWellFounded DEF OpToRel
<1>2. T \subseteq Nat /\ T # {}
  <2>1. \A x \in S : x \in 1..n /\ n - x \in Nat
    OBVIOUS
  <2>2. ASSUME NEW y \in T PROVE y \in Nat
    BY <2>1
  <2> QED
    BY <2>2
<1>3. \E x \in T : \A y \in T : ~(<<y, x>> \in Below)
  <2> HIDE DEF Below, T
  <2> QED
    BY <1>1, <1>2, WFMin, Zenon
<1>4. PICK x \in T : \A y \in T : ~(<<y, x>> \in Below)
  BY <1>3
<1>5. \A y \in T : x <= y
  <2> SUFFICES ASSUME NEW y \in T PROVE x <= y
    OBVIOUS
  <2>1. x \in Nat /\ y \in Nat
    BY <1>2
  <2>2. ~(y < x)
    BY <1>4, <2>1, <<y, x>> \in Nat \X Nat, <<y, x>>[1] = y, <<y, x>>[2] = x
  <2> QED
    BY <2>1, <2>2
<1>6. PICK z \in S : x = n - z
  OBVIOUS
<1>7. \A y \in S : y <= z
  <2> SUFFICES ASSUME NEW y \in S PROVE y <= z
    OBVIOUS
  <2>1. x <= n - y
    BY <1>5
  <2> QED
    BY <1>6, <2>1
<1> QED
  BY <1>7

\* The least one too.
LEMMA Least ==
    ASSUME NEW S \in SUBSET Nat, S # {}
    PROVE  \E x \in S : \A y \in S : x <= y
<1> DEFINE Below == {p \in Nat \X Nat : p[1] < p[2]}
<1>1. IsWellFoundedOn(Below, Nat)
  BY NatLessThanWellFounded DEF OpToRel
<1>2. \E x \in S : \A y \in S : ~(<<y, x>> \in Below)
  <2> HIDE DEF Below
  <2> QED
    BY <1>1, WFMin, Zenon
<1>3. PICK x \in S : \A y \in S : ~(<<y, x>> \in Below)
  BY <1>2
<1>4. ASSUME NEW y \in S PROVE x <= y
  <2>1. ~(y < x)
    BY <1>3, <<y, x>> \in Nat \X Nat, <<y, x>>[1] = y, <<y, x>>[2] = x
  <2> QED
    BY <2>1
<1> QED
  BY <1>4

\* A page is what it says: rows of the partition after the cursor, and every one
\* of them up to where the next page goes on from.
LEMMA PageFacts ==
    ASSUME NEW part, NEW after \in Nat
    PROVE  /\ PageOf(part, after) \subseteq Ids
           /\ \A id \in PageOf(part, after) : id > after /\ rows[<<part, id>>] # 0
           /\ After(PageOf(part, after)) \in 1..End
           /\ \A id \in Ids : id > after /\ rows[<<part, id>>] # 0 =>
                id \in PageOf(part, after) \/ id > After(PageOf(part, after))
<1> DEFINE left == {id \in Ids : id > after /\ rows[<<part, id>>] # 0}
           before(id) == {j \in left : j < id}
           page == {id \in left : Cardinality(before(id)) < PageSize}
<1>1. PageOf(part, after) = page
  BY DEF PageOf
<1>2. NIds \in Nat /\ PageSize \in Nat /\ PageSize > 0 /\ End = NIds + 1 /\ Ids = 1..NIds
  BY SubscriptionsAssumption DEF End, Ids
<1>3. IsFiniteSet(Ids)
  BY <1>2, FS_Interval
<1>4. IsFiniteSet(left) /\ left \subseteq Ids
  BY <1>3, FS_Subset
<1>5. \A id : IsFiniteSet(before(id)) /\ Cardinality(before(id)) \in Nat
  BY <1>4, FS_Subset, FS_CardinalityType
<1>6. IsFiniteSet(page) /\ Cardinality(page) \in Nat /\ page \subseteq left
  BY <1>4, FS_Subset, FS_CardinalityType
<1>12. \A i \in left : i \in Nat /\ i \in Ids /\ i >= 1 /\ i <= NIds
  BY <1>2, <1>4
<1>7. CASE Cardinality(page) < PageSize
  <2>1. After(page) = End
    BY <1>7 DEF After
  <2>2. left \subseteq page
    <3> SUFFICES ASSUME left \ page # {} PROVE FALSE
      OBVIOUS
    <3> DEFINE rest == left \ page
    <3>1. rest \in SUBSET Nat /\ rest # {}
      BY <1>12
    <3>2. PICK x \in rest : \A y \in rest : x <= y
      <4> HIDE DEF rest
      <4> QED
        BY <3>1, Least
    <3>3. before(x) \subseteq page
      BY <1>12, <3>2
    <3>4. Cardinality(before(x)) <= Cardinality(page)
      BY <1>6, <3>3, FS_Subset
    <3>5. Cardinality(before(x)) < PageSize
      <4> HIDE DEF before, page
      <4> QED
        BY <1>2, <1>5, <1>6, <1>7, <3>4
    <3> QED
      BY <3>2, <3>5
  <2> QED
    BY <1>1, <1>2, <1>4, <1>6, <2>1, <2>2
<1>8. CASE ~(Cardinality(page) < PageSize)
  <2>1. page # {}
    BY <1>2, <1>8, FS_EmptySet
  <2>2. PICK x \in page : \A y \in page : y <= x
    <3> HIDE DEF page
    <3> QED
      BY <1>2, <1>4, <1>6, <2>1, Greatest
  <2>3. After(page) = CHOOSE id \in page : \A j \in page : j <= id
    BY <1>8 DEF After
  <2>4. After(page) \in page /\ \A j \in page : j <= After(page)
    <3> HIDE DEF page
    <3> QED
      BY <2>2, <2>3
  <2>5. PICK a : a = After(page)
    OBVIOUS
  <2>6. ASSUME NEW id \in left, id <= a PROVE id \in page
    <3>1. before(id) \subseteq before(a)
      BY <1>6, <1>12, <2>4, <2>5, <2>6
    <3>2. Cardinality(before(id)) <= Cardinality(before(a))
      <4> HIDE DEF before
      <4> QED
        BY <1>5, <3>1, FS_Subset
    <3>3. Cardinality(before(a)) < PageSize
      BY <2>4, <2>5
    <3>4. Cardinality(before(id)) < PageSize
      <4> HIDE DEF before
      <4> QED
        BY <1>2, <1>5, <3>2, <3>3
    <3> QED
      BY <3>4
  <2>7. \A id \in left : id \in page \/ id > a
    <3> HIDE DEF page, left
    <3> QED
      BY <1>6, <1>12, <2>4, <2>5, <2>6
  <2>8. a \in left /\ a \in 1..End /\ a = After(page)
    BY <1>2, <1>6, <1>12, <2>4, <2>5
  <2>9. \A id \in page : id \in left
    BY <1>6
  <2> QED
    BY <1>1, <1>2, <1>4, <2>7, <2>8, <2>9
<1> QED
  BY <1>7, <1>8

-----------------------------------------------------------------------------
(* The record of an invocation, with some fields replaced                   *)

Rec(pc, id, sub, msg, cursor, targets, sweep, mode, todo) ==
    [pc |-> pc, id |-> id, sub |-> sub, msg |-> msg, cursor |-> cursor, targets |-> targets,
     sweep |-> sweep, mode |-> mode, todo |-> todo]

IsRec(r) == r = Rec(r.pc, r.id, r.sub, r.msg, r.cursor, r.targets, r.sweep, r.mode, r.todo)

\* Some fields of the record of an invocation replaced.
LEMMA EditPc ==
    ASSUME NEW r, IsRec(r), NEW x
    PROVE  [r EXCEPT !.pc = x] =
             Rec(x, r.id, r.sub, r.msg, r.cursor, r.targets, r.sweep, r.mode, r.todo)
BY DEF Rec, IsRec

LEMMA EditTodo ==
    ASSUME NEW r, IsRec(r), NEW x
    PROVE  [r EXCEPT !.todo = x] =
             Rec(r.pc, r.id, r.sub, r.msg, r.cursor, r.targets, r.sweep, r.mode, x)
BY DEF Rec, IsRec

LEMMA EditMode ==
    ASSUME NEW r, IsRec(r), NEW x
    PROVE  [r EXCEPT !.mode = x] =
             Rec(r.pc, r.id, r.sub, r.msg, r.cursor, r.targets, r.sweep, x, r.todo)
BY DEF Rec, IsRec

LEMMA EditTargets ==
    ASSUME NEW r, IsRec(r), NEW x
    PROVE  [r EXCEPT !.targets = x] =
             Rec(r.pc, r.id, r.sub, r.msg, r.cursor, x, r.sweep, r.mode, r.todo)
BY DEF Rec, IsRec

LEMMA EditPcTodo ==
    ASSUME NEW r, IsRec(r), NEW x, NEW y
    PROVE  [r EXCEPT !.pc = x, !.todo = y] =
             Rec(x, r.id, r.sub, r.msg, r.cursor, r.targets, r.sweep, r.mode, y)
<1>1. PICK s : s = [r EXCEPT !.pc = x]
  OBVIOUS
<1>2. s = Rec(x, r.id, r.sub, r.msg, r.cursor, r.targets, r.sweep, r.mode, r.todo)
  BY <1>1 DEF Rec, IsRec
<1>3. [r EXCEPT !.pc = x, !.todo = y] = [s EXCEPT !.todo = y]
  BY <1>1, Zenon
<1> QED
  BY <1>2, <1>3 DEF Rec

LEMMA EditSweepTodo ==
    ASSUME NEW r, IsRec(r), NEW x, NEW y
    PROVE  [r EXCEPT !.sweep = x, !.todo = y] =
             Rec(r.pc, r.id, r.sub, r.msg, r.cursor, r.targets, x, r.mode, y)
<1>1. PICK s : s = [r EXCEPT !.sweep = x]
  OBVIOUS
<1>2. s = Rec(r.pc, r.id, r.sub, r.msg, r.cursor, r.targets, x, r.mode, r.todo)
  BY <1>1 DEF Rec, IsRec
<1>3. [r EXCEPT !.sweep = x, !.todo = y] = [s EXCEPT !.todo = y]
  BY <1>1, Zenon
<1> QED
  BY <1>2, <1>3 DEF Rec

-----------------------------------------------------------------------------
(* What holds of invocations and of the client, failures or none            *)

\* At each point of its way an invocation has what it needs there, and nothing
\* left of an earlier call.
RecordOK(r) ==
    /\ r.mode = {}
    /\ r.pc = "idle" => r = Idle
    /\ r.pc \in {"capture", "adding"} => r.id # 0 /\ r.sub # 0 /\ r.msg = 0 /\ asked[r.sub].id = r.id
    /\ r.pc \in {"lookup", "removing", "replay"} => r.id # 0
    /\ r.pc \in {"page", "targets", "replay"} => r.msg # 0
    /\ r.pc = "replay" => r.sub # 0
    /\ r.pc \notin {"adding", "removing", "owned", "clearing"} => r.todo = {}
    /\ r.pc \notin {"owned", "clearing"} => r.sweep = 0

TasksOK == task \in [Tasks -> TaskRecords] /\ \A k \in Tasks : RecordOK(task[k])

\* Everything the type invariant says of another variable than task.
DataOK ==
    /\ socket \in {"open", "closed"} /\ bye \in BOOLEAN
    /\ asked \in Seq([id : Ids, wants : SUBSET Topics, topics : SUBSET Topics])
    /\ rows \in [Keys -> Subs] /\ ready \subseteq DOMAIN asked
    /\ messages \in Seq(Topics) /\ flushed \subseteq DOMAIN messages /\ late \subseteq DOMAIN messages
    /\ claims \subseteq (DOMAIN messages) \X Ids /\ owed \subseteq Frames /\ got \subseteq Frames
    /\ live \in [Ids -> Subs]
    /\ excuses \subseteq {"reuse", "crossed", "overtaken", "row", "send", "crash", "drift", "lostBye"}
    /\ faults \in 0..MaxFaults /\ starts \in 0..MaxStarts

StateOK == DataOK /\ TasksOK

LEMMA TypesAreOK == ASSUME StateOK PROVE TypeOK
BY DEF StateOK, DataOK, TasksOK, TypeOK

\* Only invocation k moves, and its record becomes r.
Turned(k, r) ==
    /\ task'[k] = r
    /\ \A q \in Tasks \ {k} : task'[q] = task[q]
    /\ task' = [q \in Tasks |-> task'[q]]

LEMMA TurnedBy ==
    ASSUME StateOK, NEW k \in Tasks, NEW r, task' = [task EXCEPT ![k] = r]
    PROVE  Turned(k, r)
<1>1. task = [q \in Tasks |-> task[q]]
  BY DEF StateOK, TasksOK
<1>2. task' = [q \in Tasks |-> IF q = k THEN r ELSE task[q]]
  BY <1>1
<1> QED
  BY <1>2 DEF Turned

\* The record of an invocation, and the fields it has.
LEMMA RecordTypes ==
    ASSUME StateOK, NEW k \in Tasks
    PROVE  /\ IsRec(task[k]) /\ RecordOK(task[k])
           /\ task[k].pc \in TaskPcs /\ task[k].id \in Ids \cup {0} /\ task[k].sub \in Subs
           /\ task[k].msg \in {0} \cup DOMAIN messages /\ task[k].cursor \in 0..End
           /\ task[k].targets \subseteq Ids \X (DOMAIN asked) /\ task[k].sweep \in 0..NIds
           /\ task[k].mode = {} /\ task[k].todo \subseteq Ops
<1>1. task[k] \in TaskRecords /\ RecordOK(task[k])
  BY DEF StateOK, TasksOK
<1>2. IsRec(task[k])
  BY <1>1 DEF TaskRecords, IsRec, Rec
<1> QED
  BY <1>1, <1>2 DEF TaskRecords, RecordOK

LEMMA IdleIs == Idle = Rec("idle", 0, 0, 0, 0, {}, 0, {}, {}) /\ IsRec(Idle)
BY DEF Idle, Rec, IsRec

LEMMA RecFields ==
    ASSUME NEW pc, NEW id, NEW sub, NEW msg, NEW cursor, NEW targets, NEW sweep, NEW mode, NEW todo,
           NEW r, r = Rec(pc, id, sub, msg, cursor, targets, sweep, mode, todo)
    PROVE  /\ r.pc = pc /\ r.id = id /\ r.sub = sub /\ r.msg = msg /\ r.cursor = cursor
           /\ r.targets = targets /\ r.sweep = sweep /\ r.mode = mode /\ r.todo = todo
BY DEF Rec

\* Several fields of one invocation's record replaced.
LEMMA EditsOfTask ==
    ASSUME StateOK, NEW k \in Tasks, NEW x, NEW y, NEW z
    PROVE  /\ [task EXCEPT ![k].pc = x] = [task EXCEPT ![k] = [task[k] EXCEPT !.pc = x]]
           /\ [task EXCEPT ![k].todo = x] = [task EXCEPT ![k] = [task[k] EXCEPT !.todo = x]]
           /\ [task EXCEPT ![k].pc = x, ![k].todo = y] =
                [task EXCEPT ![k] = [task[k] EXCEPT !.pc = x, !.todo = y]]
           /\ [task EXCEPT ![k].pc = x, ![k].cursor = y, ![k].targets = z] =
                [task EXCEPT ![k] = [task[k] EXCEPT !.pc = x, !.cursor = y, !.targets = z]]
<1>1. PICK T : T = task
  OBVIOUS
<1>2. T = [q \in Tasks |-> T[q]]
  BY <1>1 DEF StateOK, TasksOK
<1>3. [T EXCEPT ![k].pc = x] = [T EXCEPT ![k] = [T[k] EXCEPT !.pc = x]]
  BY <1>2
<1>4. [T EXCEPT ![k].todo = x] = [T EXCEPT ![k] = [T[k] EXCEPT !.todo = x]]
  BY <1>2
<1>5. [T EXCEPT ![k].pc = x, ![k].todo = y] =
        [T EXCEPT ![k] = [T[k] EXCEPT !.pc = x, !.todo = y]]
  BY <1>2
<1>6. [T EXCEPT ![k].pc = x, ![k].cursor = y, ![k].targets = z] =
        [T EXCEPT ![k] = [T[k] EXCEPT !.pc = x, !.cursor = y, !.targets = z]]
  BY <1>2
<1> QED
  BY <1>1, <1>3, <1>4, <1>5, <1>6, Zenon

-----------------------------------------------------------------------------
(* What each action makes of its invocation's record                        *)

\* Invocation k goes on at pc, with these row operations to wait for.
Goes(k, pc, todo) ==
    Turned(k, Rec(pc, task[k].id, task[k].sub, task[k].msg, task[k].cursor, task[k].targets,
                  task[k].sweep, {}, todo))

\* The record a registry call ends with.
Ends(k) == Turned(k, IF task[k].msg # 0
                     THEN Rec("targets", task[k].id, task[k].sub, task[k].msg, task[k].cursor,
                              task[k].targets, 0, {}, {})
                     ELSE Idle)

LEMMA IdleEdits ==
    /\ \A x, y : [Idle EXCEPT !.pc = x, !.id = y] = Rec(x, y, 0, 0, 0, {}, 0, {}, {})
    /\ \A x, y, z : [Idle EXCEPT !.pc = x, !.id = y, !.sub = z] = Rec(x, y, z, 0, 0, {}, 0, {}, {})
    /\ \A x, y : [Idle EXCEPT !.pc = x, !.msg = y] = Rec(x, 0, 0, y, 0, {}, 0, {}, {})
<1>1. \A x : [Idle EXCEPT !.pc = x] = Rec(x, 0, 0, 0, 0, {}, 0, {}, {})
  BY DEF Idle, Rec
<1>2. ASSUME NEW x, NEW y PROVE [Idle EXCEPT !.pc = x, !.id = y] = Rec(x, y, 0, 0, 0, {}, 0, {}, {})
  <2>1. PICK s : s = [Idle EXCEPT !.pc = x]
    OBVIOUS
  <2>2. s = Rec(x, 0, 0, 0, 0, {}, 0, {}, {})
    BY <1>1, <2>1
  <2>3. [Idle EXCEPT !.pc = x, !.id = y] = [s EXCEPT !.id = y]
    BY <2>1, Zenon
  <2> QED
    BY <2>2, <2>3 DEF Rec
<1>3. ASSUME NEW x, NEW y, NEW z
      PROVE  [Idle EXCEPT !.pc = x, !.id = y, !.sub = z] = Rec(x, y, z, 0, 0, {}, 0, {}, {})
  <2>1. PICK s : s = [Idle EXCEPT !.pc = x, !.id = y]
    OBVIOUS
  <2>2. s = Rec(x, y, 0, 0, 0, {}, 0, {}, {})
    BY <1>2, <2>1
  <2>3. [Idle EXCEPT !.pc = x, !.id = y, !.sub = z] = [s EXCEPT !.sub = z]
    BY <2>1, Zenon
  <2> QED
    BY <2>2, <2>3 DEF Rec
<1>4. ASSUME NEW x, NEW y PROVE [Idle EXCEPT !.pc = x, !.msg = y] = Rec(x, 0, 0, y, 0, {}, 0, {}, {})
  <2>1. PICK s : s = [Idle EXCEPT !.pc = x]
    OBVIOUS
  <2>2. s = Rec(x, 0, 0, 0, 0, {}, 0, {}, {})
    BY <1>1, <2>1
  <2>3. [Idle EXCEPT !.pc = x, !.msg = y] = [s EXCEPT !.msg = y]
    BY <2>1, Zenon
  <2> QED
    BY <2>2, <2>3 DEF Rec
<1> QED
  BY <1>2, <1>3, <1>4

LEMMA IdleTask == ASSUME StateOK, NEW k \in Tasks, At(k, "idle") PROVE task[k] = Idle
BY RecordTypes DEF RecordOK, At

\* A frame that comes in.
LEMMA AnswerInlineTo ==
    ASSUME StateOK, NEW k \in Tasks, NEW id, AnswerInline(k, id)
    PROVE  task[k] = Idle /\ Turned(k, Rec("reply", id, 0, 0, 0, {}, 0, {}, {}))
<1>1. At(k, "idle") /\ task' = [task EXCEPT ![k] = [Idle EXCEPT !.pc = "reply", !.id = id]]
  BY DEF AnswerInline, Frame, Become
<1>2. task' = [task EXCEPT ![k] = Rec("reply", id, 0, 0, 0, {}, 0, {}, {})]
  BY <1>1, IdleEdits
<1> QED
  BY <1>1, <1>2, TurnedBy, IdleTask

LEMMA SubscribeTo ==
    ASSUME StateOK, NEW k \in Tasks, NEW id, NEW topics, Subscribe(k, id, topics)
    PROVE  task[k] = Idle /\ Turned(k, Rec("capture", id, Len(asked) + 1, 0, 0, {}, 0, {}, {}))
<1>1. /\ At(k, "idle")
      /\ task' = [task EXCEPT ![k] =
                    [Idle EXCEPT !.pc = "capture", !.id = id, !.sub = Len(asked) + 1]]
  BY DEF Subscribe, Frame, Become
<1>2. task' = [task EXCEPT ![k] = Rec("capture", id, Len(asked) + 1, 0, 0, {}, 0, {}, {})]
  BY <1>1, IdleEdits
<1> QED
  BY <1>1, <1>2, TurnedBy, IdleTask

LEMMA CompleteTo ==
    ASSUME StateOK, NEW k \in Tasks, NEW id, Complete(k, id)
    PROVE  task[k] = Idle /\ Turned(k, Rec("lookup", id, 0, 0, 0, {}, 0, {}, {}))
<1>1. At(k, "idle") /\ task' = [task EXCEPT ![k] = [Idle EXCEPT !.pc = "lookup", !.id = id]]
  BY DEF Complete, Frame, Become
<1>2. task' = [task EXCEPT ![k] = Rec("lookup", id, 0, 0, 0, {}, 0, {}, {})]
  BY <1>1, IdleEdits
<1> QED
  BY <1>1, <1>2, TurnedBy, IdleTask

LEMMA StartFlushTo ==
    ASSUME StateOK, NEW k \in Tasks, StartFlush(k)
    PROVE  /\ task[k] = Idle
           /\ \E m \in DOMAIN messages \ flushed :
                /\ Turned(k, Rec("page", 0, 0, m, 0, {}, 0, {}, {}))
                /\ \A q \in Tasks : task[q].msg # m
<1>1. PICK m \in DOMAIN messages \ flushed :
         /\ At(k, "idle") /\ task' = [task EXCEPT ![k] = [Idle EXCEPT !.pc = "page", !.msg = m]]
         /\ \A q \in Tasks : task[q].msg # m
  BY DEF StartFlush, Become
<1>2. task' = [task EXCEPT ![k] = Rec("page", 0, 0, m, 0, {}, 0, {}, {})]
  BY <1>1, IdleEdits
<1> QED
  BY <1>1, <1>2, TurnedBy, IdleTask

\* The same edits with what is known of mode: no dispatch collects for another.
LEMMA TaskPc ==
    ASSUME StateOK, NEW k \in Tasks
    PROVE  \A x : [task[k] EXCEPT !.pc = x] =
             Rec(x, task[k].id, task[k].sub, task[k].msg, task[k].cursor, task[k].targets,
                 task[k].sweep, {}, task[k].todo)
<1>1. IsRec(task[k]) /\ task[k].mode = {}
  BY RecordTypes
<1>2. ASSUME NEW x
      PROVE  [task[k] EXCEPT !.pc = x] =
               Rec(x, task[k].id, task[k].sub, task[k].msg, task[k].cursor, task[k].targets,
               task[k].sweep, {}, task[k].todo)
  BY <1>1, EditPc
<1> QED
  BY <1>2

LEMMA TaskTodo ==
    ASSUME StateOK, NEW k \in Tasks
    PROVE  \A x : [task[k] EXCEPT !.todo = x] =
             Rec(task[k].pc, task[k].id, task[k].sub, task[k].msg, task[k].cursor,
                 task[k].targets, task[k].sweep, {}, x)
<1>1. IsRec(task[k]) /\ task[k].mode = {}
  BY RecordTypes
<1>2. ASSUME NEW x
      PROVE  [task[k] EXCEPT !.todo = x] =
               Rec(task[k].pc, task[k].id, task[k].sub, task[k].msg, task[k].cursor,
               task[k].targets, task[k].sweep, {}, x)
  BY <1>1, EditTodo
<1> QED
  BY <1>2

LEMMA TaskTargets ==
    ASSUME StateOK, NEW k \in Tasks
    PROVE  \A x : [task[k] EXCEPT !.targets = x] =
             Rec(task[k].pc, task[k].id, task[k].sub, task[k].msg, task[k].cursor, x,
                 task[k].sweep, {}, task[k].todo)
<1>1. IsRec(task[k]) /\ task[k].mode = {}
  BY RecordTypes
<1>2. ASSUME NEW x
      PROVE  [task[k] EXCEPT !.targets = x] =
               Rec(task[k].pc, task[k].id, task[k].sub, task[k].msg, task[k].cursor, x,
               task[k].sweep, {}, task[k].todo)
  BY <1>1, EditTargets
<1> QED
  BY <1>2

LEMMA TaskPcTodo ==
    ASSUME StateOK, NEW k \in Tasks
    PROVE  \A x, y : [task[k] EXCEPT !.pc = x, !.todo = y] =
             Rec(x, task[k].id, task[k].sub, task[k].msg, task[k].cursor, task[k].targets,
                 task[k].sweep, {}, y)
<1>1. IsRec(task[k]) /\ task[k].mode = {}
  BY RecordTypes
<1>2. ASSUME NEW x, NEW y
      PROVE  [task[k] EXCEPT !.pc = x, !.todo = y] =
               Rec(x, task[k].id, task[k].sub, task[k].msg, task[k].cursor, task[k].targets,
               task[k].sweep, {}, y)
  BY <1>1, EditPcTodo
<1> QED
  BY <1>2

LEMMA TaskSweepTodo ==
    ASSUME StateOK, NEW k \in Tasks
    PROVE  \A x, y : [task[k] EXCEPT !.sweep = x, !.todo = y] =
             Rec(task[k].pc, task[k].id, task[k].sub, task[k].msg, task[k].cursor,
                 task[k].targets, x, {}, y)
<1>1. IsRec(task[k]) /\ task[k].mode = {}
  BY RecordTypes
<1>2. ASSUME NEW x, NEW y
      PROVE  [task[k] EXCEPT !.sweep = x, !.todo = y] =
               Rec(task[k].pc, task[k].id, task[k].sub, task[k].msg, task[k].cursor,
               task[k].targets, x, {}, y)
  BY <1>1, EditSweepTodo
<1> QED
  BY <1>2

\* Capture mode has found the topics the field wants.
LEMMA CaptureTo ==
    ASSUME StateOK, NEW k \in Tasks, Capture(k)
    PROVE  LET w == asked[task[k].sub].wants
           IN /\ task[k].pc = "capture"
              /\ asked' = [asked EXCEPT ![task[k].sub].topics = w]
              /\ w = {} => Goes(k, "reply", {})
              /\ w # {} => Goes(k, "adding", PutRows(task[k].id, task[k].sub, w))
<1> DEFINE w == asked[task[k].sub].wants
<1>1. PICK modes : modes = [q \in Tasks |-> task[q].mode \cup
                              (IF q = Store(k) THEN asked[task[k].sub].wants ELSE {})]
  OBVIOUS
<1>2. \A q \in Tasks : task[q].mode = {} /\ IsRec(task[q])
  BY RecordTypes
<1>3. modes[k] = w /\ \A q \in Tasks \ {k} : modes[q] = {}
  BY <1>1, <1>2 DEF Store
<1>4. /\ task[k].pc = "capture" /\ asked' = [asked EXCEPT ![task[k].sub].topics = modes[k]]
      /\ task' = [q \in Tasks |->
           IF q # k THEN [task[q] EXCEPT !.mode = modes[q]]
           ELSE IF modes[k] = {} THEN [task[k] EXCEPT !.pc = "reply"]
           ELSE [task[k] EXCEPT !.pc = "adding", !.todo = PutRows(task[k].id, task[k].sub, modes[k])]]
  BY <1>1 DEF Capture, At
<1>5. \A q \in Tasks \ {k} : [task[q] EXCEPT !.mode = {}] = task[q]
  <2> SUFFICES ASSUME NEW q \in Tasks \ {k} PROVE [task[q] EXCEPT !.mode = {}] = task[q]
    OBVIOUS
  <2>1. [task[q] EXCEPT !.mode = {}] =
          Rec(task[q].pc, task[q].id, task[q].sub, task[q].msg, task[q].cursor, task[q].targets,
              task[q].sweep, {}, task[q].todo)
    BY <1>2, EditMode
  <2> QED
    BY <1>2, <2>1 DEF IsRec
<1>6. task[k].todo = {}
  BY <1>4, RecordTypes DEF RecordOK
<1>7. /\ [task[k] EXCEPT !.pc = "reply"] =
           Rec("reply", task[k].id, task[k].sub, task[k].msg, task[k].cursor, task[k].targets,
               task[k].sweep, {}, {})
      /\ [task[k] EXCEPT !.pc = "adding", !.todo = PutRows(task[k].id, task[k].sub, w)] =
           Rec("adding", task[k].id, task[k].sub, task[k].msg, task[k].cursor, task[k].targets,
               task[k].sweep, {}, PutRows(task[k].id, task[k].sub, w))
  <2>1. [task[k] EXCEPT !.pc = "reply"] =
           Rec("reply", task[k].id, task[k].sub, task[k].msg, task[k].cursor, task[k].targets,
               task[k].sweep, {}, task[k].todo)
    BY TaskPc
  <2>2. PICK ops : ops = PutRows(task[k].id, task[k].sub, w)
    OBVIOUS
  <2>3. [task[k] EXCEPT !.pc = "adding", !.todo = ops] =
           Rec("adding", task[k].id, task[k].sub, task[k].msg, task[k].cursor, task[k].targets,
               task[k].sweep, {}, ops)
    BY TaskPcTodo
  <2> QED
    BY <1>6, <2>1, <2>2, <2>3
<1>8. \A q \in Tasks \ {k} : task'[q] = task[q]
  BY <1>3, <1>4, <1>5
<1>9. task' = [q \in Tasks |-> task'[q]]
  BY <1>4
<1>10. w = {} => task'[k] = [task[k] EXCEPT !.pc = "reply"]
  BY <1>3, <1>4
<1>11. w # {} => task'[k] = [task[k] EXCEPT !.pc = "adding",
                                            !.todo = PutRows(task[k].id, task[k].sub, w)]
  BY <1>3, <1>4
<1>12. w = {} => Goes(k, "reply", {})
  BY <1>7, <1>8, <1>9, <1>10 DEF Goes, Turned
<1>13. w # {} => Goes(k, "adding", PutRows(task[k].id, task[k].sub, w))
  BY <1>7, <1>8, <1>9, <1>11 DEF Goes, Turned
<1> QED
  BY <1>3, <1>4, <1>12, <1>13

LEMMA GoesBy ==
    ASSUME StateOK, NEW k \in Tasks, NEW pc, NEW todo,
           task' = [task EXCEPT ![k] = [task[k] EXCEPT !.pc = pc, !.todo = todo]]
    PROVE  Goes(k, pc, todo)
<1>1. [task[k] EXCEPT !.pc = pc, !.todo = todo] =
        Rec(pc, task[k].id, task[k].sub, task[k].msg, task[k].cursor, task[k].targets,
            task[k].sweep, {}, todo)
  BY TaskPcTodo
<1> QED
  BY <1>1, TurnedBy DEF Goes

\* Invocation k goes on at pc with no row operation: it has none before either.
LEMMA GoesTo ==
    ASSUME StateOK, NEW k \in Tasks, NEW pc, task[k].todo = {},
           task' = [task EXCEPT ![k].pc = pc]
    PROVE  Goes(k, pc, {})
<1>1. task' = [task EXCEPT ![k] = [task[k] EXCEPT !.pc = pc]]
  BY EditsOfTask
<1>2. [task[k] EXCEPT !.pc = pc] =
        Rec(pc, task[k].id, task[k].sub, task[k].msg, task[k].cursor, task[k].targets,
            task[k].sweep, {}, {})
  BY TaskPc
<1> QED
  BY <1>1, <1>2, TurnedBy DEF Goes

LEMMA BeginCleanupTo ==
    ASSUME StateOK, NEW k \in Tasks, task[k].todo = {}, BeginCleanup(k)
    PROVE  /\ Goes(k, "owned", {})
           /\ excuses' = excuses \cup
                (Crossed(k, Ids) \cup (IF \E q \in Tasks : At(q, "capture") THEN {"overtaken"} ELSE {}))
<1>1. task' = [task EXCEPT ![k].pc = "owned"]
  BY DEF BeginCleanup
<1>2. Goes(k, "owned", {})
  BY <1>1, GoesTo
<1> QED
  BY <1>2 DEF BeginCleanup, Excuse

LEMMA BecomesIdle ==
    ASSUME StateOK, NEW k \in Tasks, Become(k, Idle)
    PROVE  Turned(k, Idle)
BY TurnedBy DEF Become

\* A registry call is over.
LEMMA ReturnedIs ==
    ASSUME StateOK, NEW k \in Tasks, Become(k, Returned(k))
    PROVE  Ends(k)
<1>1. task' = [task EXCEPT ![k] = Returned(k)]
  BY DEF Become
<1>2. CASE task[k].msg # 0
  <2>1. [task[k] EXCEPT !.pc = "targets", !.sweep = 0, !.todo = {}] =
          Rec("targets", task[k].id, task[k].sub, task[k].msg, task[k].cursor, task[k].targets,
              0, {}, {})
    <3>1. PICK s : s = [task[k] EXCEPT !.pc = "targets"]
      OBVIOUS
    <3>2. PICK u : u = [s EXCEPT !.sweep = 0]
      OBVIOUS
    <3>3. s = Rec("targets", task[k].id, task[k].sub, task[k].msg, task[k].cursor,
                  task[k].targets, task[k].sweep, {}, task[k].todo)
      BY <3>1, TaskPc
    <3>4. u = Rec("targets", task[k].id, task[k].sub, task[k].msg, task[k].cursor,
                  task[k].targets, 0, {}, task[k].todo)
      BY <3>2, <3>3 DEF Rec
    <3>5. [task[k] EXCEPT !.pc = "targets", !.sweep = 0, !.todo = {}] = [u EXCEPT !.todo = {}]
      BY <3>1, <3>2, Zenon
    <3> QED
      BY <3>4, <3>5 DEF Rec
  <2>2. Returned(k) = [task[k] EXCEPT !.pc = "targets", !.sweep = 0, !.todo = {}]
    BY <1>2 DEF Returned
  <2>3. Turned(k, Returned(k))
    BY <1>1, TurnedBy
  <2> QED
    BY <1>2, <2>1, <2>2, <2>3 DEF Ends
<1>3. CASE task[k].msg = 0
  <2>1. Returned(k) = Idle
    BY <1>3 DEF Returned
  <2>2. Turned(k, Idle)
    BY <1>1, <2>1, TurnedBy
  <2> QED
    BY <1>3, <2>2 DEF Ends
<1> QED
  BY <1>2, <1>3

LEMMA ReplyTo ==
    ASSUME StateOK, NEW k \in Tasks, Reply(k)
    PROVE  /\ task[k].pc = "reply" /\ task[k].todo = {}
           /\ \/ /\ socket = "open" /\ Turned(k, Idle)
                 /\ IF task[k].id = 0 THEN UNCHANGED <<clientVars, excuses>>
                    ELSE Ended(task[k].id) /\ Excuse(Reuse(task[k].id, {}))
                 /\ UNCHANGED faults
              \/ socket = "closed" /\ BeginCleanup(k) /\ UNCHANGED <<clientVars, faults>>
              \/ Fault("send") /\ Turned(k, Idle) /\ Excuse({"send"}) /\ UNCHANGED clientVars
<1>1. task[k].pc = "reply"
  BY DEF Reply, At
<1>2. task[k].todo = {}
  BY <1>1, RecordTypes DEF RecordOK
<1> QED
  BY <1>1, <1>2, BecomesIdle DEF Reply

LEMMA LookedUpTo ==
    ASSUME StateOK, NEW k \in Tasks, LookedUp(k)
    PROVE  task[k].pc = "lookup" /\ Goes(k, "removing", DeleteRows(task[k].id))
<1>1. task[k].pc = "lookup"
  BY DEF LookedUp, At
<1>2. PICK ops : ops = DeleteRows(task[k].id)
  OBVIOUS
<1>3. task' = [task EXCEPT ![k].pc = "removing", ![k].todo = ops]
  BY <1>2 DEF LookedUp
<1>4. task' = [task EXCEPT ![k] = [task[k] EXCEPT !.pc = "removing", !.todo = ops]]
  BY <1>3, EditsOfTask
<1>5. Goes(k, "removing", ops)
  BY <1>4, GoesBy
<1> QED
  BY <1>1, <1>2, <1>5

\* What a page of removeAll() finds to delete, with what it has found before.
Found(k) == task[k].todo \cup UNION {DeleteRows(id) : id \in PageOf("rev", task[k].sweep)}

LEMMA OwnedTo ==
    ASSUME StateOK, NEW k \in Tasks, Owned(k)
    PROVE  LET next == After(PageOf("rev", task[k].sweep))
           IN /\ task[k].pc = "owned"
              /\ next # End => Turned(k, Rec("owned", task[k].id, task[k].sub, task[k].msg,
                                             task[k].cursor, task[k].targets, next, {}, Found(k)))
              /\ next = End /\ Found(k) = {} => Ends(k)
              /\ next = End /\ Found(k) # {} => Goes(k, "clearing", Found(k))
<1>1. task[k].pc = "owned"
  BY DEF Owned, At
<1>2. PICK next : next = After(PageOf("rev", task[k].sweep))
  OBVIOUS
<1>3. PICK ops : ops = Found(k)
  OBVIOUS
<1>4. Become(k, IF next # End THEN [task[k] EXCEPT !.sweep = next, !.todo = ops]
                ELSE IF ops = {} THEN Returned(k)
                ELSE [task[k] EXCEPT !.pc = "clearing", !.todo = ops])
  BY <1>2, <1>3 DEF Owned, Found
<1>5. CASE next # End
  <2>1. task' = [task EXCEPT ![k] = [task[k] EXCEPT !.sweep = next, !.todo = ops]]
    BY <1>4, <1>5 DEF Become
  <2>2. [task[k] EXCEPT !.sweep = next, !.todo = ops] =
          Rec(task[k].pc, task[k].id, task[k].sub, task[k].msg, task[k].cursor, task[k].targets,
              next, {}, ops)
    BY TaskSweepTodo
  <2>3. Turned(k, Rec("owned", task[k].id, task[k].sub, task[k].msg, task[k].cursor,
                      task[k].targets, next, {}, ops))
    BY <1>1, <2>1, <2>2, TurnedBy
  <2> QED
    BY <1>1, <1>2, <1>3, <1>5, <2>3
<1>6. CASE next = End /\ ops = {}
  <2>1. Become(k, Returned(k))
    BY <1>4, <1>6
  <2> QED
    BY <1>1, <1>2, <1>3, <1>6, <2>1, ReturnedIs
<1>7. CASE next = End /\ ops # {}
  <2>1. task' = [task EXCEPT ![k] = [task[k] EXCEPT !.pc = "clearing", !.todo = ops]]
    BY <1>4, <1>7 DEF Become
  <2>2. Goes(k, "clearing", ops)
    BY <2>1, GoesBy
  <2> QED
    BY <1>1, <1>2, <1>3, <1>7, <2>2
<1> QED
  BY <1>5, <1>6, <1>7

LEMMA RowDoneTo ==
    ASSUME StateOK, NEW k \in Tasks, RowDone(k)
    PROVE  \E op \in task[k].todo :
              /\ task[k].pc \in {"adding", "removing", "clearing"}
              /\ rows' = [rows EXCEPT ![op[1]] = op[2]]
              /\ task[k].todo = {op} =>
                   /\ Ends(k)
                   /\ ready' = IF task[k].pc = "adding" THEN ready \cup {task[k].sub} ELSE ready
              /\ task[k].todo # {op} =>
                   Goes(k, task[k].pc, task[k].todo \ {op}) /\ ready' = ready
<1>1. PICK op \in Sent(k) :
         /\ rows' = [rows EXCEPT ![op[1]] = op[2]]
         /\ IF task[k].todo = {op}
            THEN /\ Become(k, Returned(k))
                 /\ ready' = IF At(k, "adding") THEN ready \cup {task[k].sub} ELSE ready
            ELSE task' = [task EXCEPT ![k].todo = @ \ {op}] /\ UNCHANGED ready
  BY DEF RowDone
<1>2. op \in task[k].todo /\ task[k].pc # "owned"
  BY <1>1 DEF Sent, At
<1>3. task[k].pc \in {"adding", "removing", "clearing"}
  BY <1>2, RecordTypes DEF RecordOK
<1>4. task[k].todo = {op} => Ends(k)
  BY <1>1, ReturnedIs
<1>5. ASSUME task[k].todo # {op} PROVE Goes(k, task[k].pc, task[k].todo \ {op})
  <2>1. PICK ops : ops = task[k].todo \ {op}
    OBVIOUS
  <2>2. task' = [task EXCEPT ![k].todo = ops]
    BY <1>1, <1>5, <2>1
  <2>3. task' = [task EXCEPT ![k] = [task[k] EXCEPT !.todo = ops]]
    BY <2>2, EditsOfTask
  <2>4. [task[k] EXCEPT !.todo = ops] =
          Rec(task[k].pc, task[k].id, task[k].sub, task[k].msg, task[k].cursor, task[k].targets,
              task[k].sweep, {}, ops)
    BY TaskTodo
  <2> QED
    BY <2>1, <2>3, <2>4, TurnedBy DEF Goes
<1> QED
  BY <1>1, <1>2, <1>3, <1>4, <1>5 DEF At

LEMMA FanoutPageTo ==
    ASSUME StateOK, NEW k \in Tasks, FanoutPage(k)
    PROVE  LET page == PageByTopic(messages[task[k].msg], task[k].cursor)
           IN /\ task[k].pc = "page"
              /\ Turned(k, Rec("targets", task[k].id, task[k].sub, task[k].msg,
                               After({x[1] : x \in page}), page, task[k].sweep, {}, task[k].todo))
<1>1. task[k].pc = "page"
  BY DEF FanoutPage, At
<1>2. PICK page : page = PageByTopic(messages[task[k].msg], task[k].cursor)
  OBVIOUS
<1>3. PICK next : next = After({x[1] : x \in page})
  OBVIOUS
<1>4. task' = [task EXCEPT ![k].pc = "targets", ![k].cursor = next, ![k].targets = page]
  BY <1>2, <1>3 DEF FanoutPage
<1>5. task' = [task EXCEPT ![k] =
                 [task[k] EXCEPT !.pc = "targets", !.cursor = next, !.targets = page]]
  BY <1>4, EditsOfTask
<1>6. [task[k] EXCEPT !.pc = "targets", !.cursor = next, !.targets = page] =
        Rec("targets", task[k].id, task[k].sub, task[k].msg, next, page, task[k].sweep, {},
            task[k].todo)
  <2>1. PICK s : s = [task[k] EXCEPT !.pc = "targets"]
    OBVIOUS
  <2>2. PICK u : u = [s EXCEPT !.cursor = next]
    OBVIOUS
  <2>3. s = Rec("targets", task[k].id, task[k].sub, task[k].msg, task[k].cursor,
                task[k].targets, task[k].sweep, {}, task[k].todo)
    BY <2>1, TaskPc
  <2>4. u = Rec("targets", task[k].id, task[k].sub, task[k].msg, next,
                task[k].targets, task[k].sweep, {}, task[k].todo)
    BY <2>2, <2>3 DEF Rec
  <2>5. [task[k] EXCEPT !.pc = "targets", !.cursor = next, !.targets = page] =
          [u EXCEPT !.targets = page]
    BY <2>1, <2>2, Zenon
  <2> QED
    BY <2>4, <2>5 DEF Rec
<1>7. Turned(k, Rec("targets", task[k].id, task[k].sub, task[k].msg, next, page, task[k].sweep,
                    {}, task[k].todo))
  BY <1>5, <1>6, TurnedBy
<1> QED
  BY <1>1, <1>2, <1>3, <1>7

LEMMA ClaimTo ==
    ASSUME StateOK, NEW k \in Tasks, Claim(k)
    PROVE  \E target \in task[k].targets :
              /\ task[k].pc = "targets" /\ claims' = claims \cup {<<task[k].msg, target[1]>>}
              /\ <<task[k].msg, target[1]>> \in claims =>
                   Turned(k, Rec("targets", task[k].id, task[k].sub, task[k].msg, task[k].cursor,
                                 task[k].targets \ {target}, task[k].sweep, {}, task[k].todo))
              /\ <<task[k].msg, target[1]>> \notin claims =>
                   Turned(k, Rec("replay", target[1], target[2], task[k].msg, task[k].cursor,
                                 task[k].targets \ {target}, task[k].sweep, {}, task[k].todo))
<1>1. PICK target \in task[k].targets :
        LET left == [task[k] EXCEPT !.targets = @ \ {target}]
            key  == <<task[k].msg, Key(target[1])>>
        IN /\ At(k, "targets")
           /\ claims' = claims \cup {key}
           /\ Become(k, IF key \in claims THEN left
                        ELSE [left EXCEPT !.pc = "replay", !.id = target[1], !.sub = target[2]])
  BY DEF Claim
<1>2. PICK rest : rest = task[k].targets \ {target}
  OBVIOUS
<1>3. PICK left : left = [task[k] EXCEPT !.targets = rest]
  OBVIOUS
<1>4. left = Rec(task[k].pc, task[k].id, task[k].sub, task[k].msg, task[k].cursor, rest,
                 task[k].sweep, {}, task[k].todo)
  BY <1>3, TaskTargets
<1>5. left = [task[k] EXCEPT !.targets = @ \ {target}]
  BY <1>2, <1>3
<1>6. /\ task[k].pc = "targets" /\ claims' = claims \cup {<<task[k].msg, target[1]>>}
      /\ task' = [task EXCEPT ![k] =
           IF <<task[k].msg, target[1]>> \in claims THEN left
           ELSE [left EXCEPT !.pc = "replay", !.id = target[1], !.sub = target[2]]]
  BY <1>1, <1>5 DEF At, Become, Key
<1>7. PICK n, m : n = target[1] /\ m = target[2]
  OBVIOUS
<1>8. [left EXCEPT !.pc = "replay", !.id = n, !.sub = m] =
        Rec("replay", n, m, task[k].msg, task[k].cursor, rest, task[k].sweep, {}, task[k].todo)
  <2>1. PICK s : s = [left EXCEPT !.pc = "replay"]
    OBVIOUS
  <2>2. PICK u : u = [s EXCEPT !.id = n]
    OBVIOUS
  <2>3. s = Rec("replay", task[k].id, task[k].sub, task[k].msg, task[k].cursor, rest,
                task[k].sweep, {}, task[k].todo)
    BY <1>4, <2>1 DEF Rec
  <2>4. u = Rec("replay", n, task[k].sub, task[k].msg, task[k].cursor, rest,
                task[k].sweep, {}, task[k].todo)
    BY <2>2, <2>3 DEF Rec
  <2>5. [left EXCEPT !.pc = "replay", !.id = n, !.sub = m] = [u EXCEPT !.sub = m]
    BY <2>1, <2>2, Zenon
  <2> QED
    BY <2>4, <2>5 DEF Rec
<1>9. ASSUME <<task[k].msg, target[1]>> \in claims
      PROVE  Turned(k, Rec("targets", task[k].id, task[k].sub, task[k].msg, task[k].cursor,
                           rest, task[k].sweep, {}, task[k].todo))
  <2>1. task' = [task EXCEPT ![k] = left]
    BY <1>6, <1>9
  <2> QED
    BY <1>4, <1>6, <2>1, TurnedBy
<1>10. ASSUME <<task[k].msg, target[1]>> \notin claims
      PROVE  Turned(k, Rec("replay", n, m, task[k].msg, task[k].cursor,
                           rest, task[k].sweep, {}, task[k].todo))
  <2>1. PICK r : r = [left EXCEPT !.pc = "replay", !.id = n, !.sub = m]
    OBVIOUS
  <2>2. task' = [task EXCEPT ![k] = r]
    BY <1>6, <1>7, <1>10, <2>1
  <2>3. Turned(k, r)
    BY <2>2, TurnedBy
  <2> QED
    BY <1>8, <2>1, <2>3
<1> QED
  BY <1>2, <1>6, <1>7, <1>9, <1>10

LEMMA NextTargetTo ==
    ASSUME StateOK, NEW k \in Tasks, NextTarget(k)
    PROVE  Turned(k, Rec("targets", 0, 0, task[k].msg, task[k].cursor, task[k].targets,
                         task[k].sweep, {}, task[k].todo))
<1>1. PICK r : r = [task[k] EXCEPT !.pc = "targets", !.id = 0, !.sub = 0]
  OBVIOUS
<1>2. PICK s : s = [task[k] EXCEPT !.pc = "targets"]
  OBVIOUS
<1>3. PICK u : u = [s EXCEPT !.id = 0]
  OBVIOUS
<1>4. s = Rec("targets", task[k].id, task[k].sub, task[k].msg, task[k].cursor,
              task[k].targets, task[k].sweep, {}, task[k].todo)
  BY <1>2, TaskPc
<1>5. u = Rec("targets", 0, task[k].sub, task[k].msg, task[k].cursor,
              task[k].targets, task[k].sweep, {}, task[k].todo)
  BY <1>3, <1>4 DEF Rec
<1>6. r = [u EXCEPT !.sub = 0]
  BY <1>1, <1>2, <1>3, Zenon
<1>7. r = Rec("targets", 0, 0, task[k].msg, task[k].cursor, task[k].targets,
              task[k].sweep, {}, task[k].todo)
  BY <1>5, <1>6 DEF Rec
<1>8. task' = [task EXCEPT ![k] = r]
  BY <1>1 DEF NextTarget, Become
<1>9. Turned(k, r)
  BY <1>8, TurnedBy
<1> QED
  BY <1>7, <1>9

LEMMA PageDoneTo ==
    ASSUME StateOK, NEW k \in Tasks, PageDone(k)
    PROVE  /\ task[k].pc = "targets" /\ task[k].targets = {}
           /\ \/ /\ task[k].cursor = End /\ flushed' = flushed \cup {task[k].msg}
                 /\ Turned(k, Idle)
              \/ task[k].cursor # End /\ flushed' = flushed /\ Goes(k, "page", {})
<1>1. task[k].pc = "targets" /\ task[k].targets = {}
  BY DEF PageDone, At
<1>2. task[k].todo = {}
  BY <1>1, RecordTypes DEF RecordOK
<1>3. CASE task[k].cursor = End
  BY <1>1, <1>3, BecomesIdle DEF PageDone
<1>4. CASE task[k].cursor # End
  BY <1>1, <1>2, <1>4, GoesTo DEF PageDone
<1> QED
  BY <1>3, <1>4

-----------------------------------------------------------------------------
(* Which actions change what                                                *)

\* The socket closes, once.
LEMMA SocketSteps ==
    ASSUME Next
    PROVE  \/ socket' = socket
           \/ ClientCloses
<1>1. ASSUME NEW k \in Tasks, Capture(k) PROVE socket' = socket
  BY <1>1 DEF Capture, sockVars
<1>2. ASSUME NEW k \in Tasks, Reply(k) PROVE socket' = socket
  BY <1>2 DEF Reply, BeginCleanup, Ended, sockVars
<1>3. ASSUME NEW k \in Tasks, LookedUp(k) PROVE socket' = socket
  BY <1>3 DEF LookedUp, sockVars
<1>4. ASSUME NEW k \in Tasks, Owned(k) PROVE socket' = socket
  BY <1>4 DEF Owned, sockVars
<1>5. ASSUME NEW k \in Tasks, RowDone(k) PROVE socket' = socket
  BY <1>5 DEF RowDone, sockVars
<1>6. ASSUME NEW k \in Tasks, FanoutPage(k) PROVE socket' = socket
  BY <1>6 DEF FanoutPage, sockVars
<1>7. ASSUME NEW k \in Tasks, Claim(k) PROVE socket' = socket
  BY <1>7 DEF Claim, sockVars
<1>8. ASSUME NEW k \in Tasks, Deliver(k) PROVE socket' = socket
  BY <1>8 DEF Deliver, NextTarget, Gone, BeginCleanup, sockVars
<1>9. ASSUME NEW k \in Tasks, PageDone(k) PROVE socket' = socket
  BY <1>9 DEF PageDone, sockVars
<1>10. ASSUME NEW k \in Tasks, StartFlush(k) PROVE socket' = socket
  BY <1>10 DEF StartFlush, sockVars
<1>11. ASSUME NEW k \in Tasks, Disconnected(k) PROVE socket' = socket
  BY <1>11 DEF Disconnected, BeginCleanup, sockVars
<1>12. ASSUME NEW k \in Tasks, RowFails(k) PROVE socket' = socket
  BY <1>12 DEF RowFails, Release, sockVars
<1>13. ASSUME NEW k \in Tasks, Crash(k) PROVE socket' = socket
  BY <1>13 DEF Crash, sockVars
<1>14. ASSUME NEW k \in Tasks, SendFails(k) PROVE socket' = socket
  BY <1>14 DEF SendFails, Release, sockVars
<1>15. ASSUME NEW k \in Tasks, Drift(k) PROVE socket' = socket
  BY <1>15 DEF Drift, NextTarget, Ended, sockVars
<1>16. ASSUME NEW k \in Tasks, NEW id, Complete(k, id) PROVE socket' = socket
  BY <1>16 DEF Complete, Frame, Ended, sockVars
<1>17. ASSUME NEW k \in Tasks, NEW id, NEW topics, Subscribe(k, id, topics) PROVE socket' = socket
  BY <1>17 DEF Subscribe, Frame, sockVars
<1>18. ASSUME NEW k \in Tasks, NEW id, AnswerInline(k, id) PROVE socket' = socket
  BY <1>18 DEF AnswerInline, Frame, sockVars
<1>19. ASSUME NEW t \in Topics, Publish(t) PROVE socket' = socket
  BY <1>19 DEF Publish, sockVars
<1>20. ASSUME ByeLost PROVE socket' = socket
  BY <1>20 DEF ByeLost, sockVars
<1> QED
  BY <1>1, <1>2, <1>3, <1>4, <1>5, <1>6, <1>7, <1>8, <1>9, <1>10, <1>11, <1>12, <1>13, <1>14,
     <1>15, <1>16, <1>17, <1>18, <1>19, <1>20 DEF Next, Step

\* A $disconnect is due, lost or delivered.
LEMMA ByeSteps ==
    ASSUME Next
    PROVE  \/ bye' = bye
           \/ \E k \in Tasks : Disconnected(k)
           \/ ClientCloses
           \/ ByeLost
<1>1. ASSUME NEW k \in Tasks, Capture(k) PROVE bye' = bye
  BY <1>1 DEF Capture, sockVars
<1>2. ASSUME NEW k \in Tasks, Reply(k) PROVE bye' = bye
  BY <1>2 DEF Reply, BeginCleanup, Ended, sockVars
<1>3. ASSUME NEW k \in Tasks, LookedUp(k) PROVE bye' = bye
  BY <1>3 DEF LookedUp, sockVars
<1>4. ASSUME NEW k \in Tasks, Owned(k) PROVE bye' = bye
  BY <1>4 DEF Owned, sockVars
<1>5. ASSUME NEW k \in Tasks, RowDone(k) PROVE bye' = bye
  BY <1>5 DEF RowDone, sockVars
<1>6. ASSUME NEW k \in Tasks, FanoutPage(k) PROVE bye' = bye
  BY <1>6 DEF FanoutPage, sockVars
<1>7. ASSUME NEW k \in Tasks, Claim(k) PROVE bye' = bye
  BY <1>7 DEF Claim, sockVars
<1>8. ASSUME NEW k \in Tasks, Deliver(k) PROVE bye' = bye
  BY <1>8 DEF Deliver, NextTarget, Gone, BeginCleanup, sockVars
<1>9. ASSUME NEW k \in Tasks, PageDone(k) PROVE bye' = bye
  BY <1>9 DEF PageDone, sockVars
<1>10. ASSUME NEW k \in Tasks, StartFlush(k) PROVE bye' = bye
  BY <1>10 DEF StartFlush, sockVars
<1>11. ASSUME NEW k \in Tasks, RowFails(k) PROVE bye' = bye
  BY <1>11 DEF RowFails, Release, sockVars
<1>12. ASSUME NEW k \in Tasks, Crash(k) PROVE bye' = bye
  BY <1>12 DEF Crash, sockVars
<1>13. ASSUME NEW k \in Tasks, SendFails(k) PROVE bye' = bye
  BY <1>13 DEF SendFails, Release, sockVars
<1>14. ASSUME NEW k \in Tasks, Drift(k) PROVE bye' = bye
  BY <1>14 DEF Drift, NextTarget, Ended, sockVars
<1>15. ASSUME NEW k \in Tasks, NEW id, Complete(k, id) PROVE bye' = bye
  BY <1>15 DEF Complete, Frame, Ended, sockVars
<1>16. ASSUME NEW k \in Tasks, NEW id, NEW topics, Subscribe(k, id, topics) PROVE bye' = bye
  BY <1>16 DEF Subscribe, Frame, sockVars
<1>17. ASSUME NEW k \in Tasks, NEW id, AnswerInline(k, id) PROVE bye' = bye
  BY <1>17 DEF AnswerInline, Frame, sockVars
<1>18. ASSUME NEW t \in Topics, Publish(t) PROVE bye' = bye
  BY <1>18 DEF Publish, sockVars
<1> QED
  BY <1>1, <1>2, <1>3, <1>4, <1>5, <1>6, <1>7, <1>8, <1>9, <1>10, <1>11, <1>12, <1>13, <1>14,
     <1>15, <1>16, <1>17, <1>18 DEF Next, Step

\* Who adds to what was asked for.
LEMMA AskedSteps ==
    ASSUME Next
    PROVE  \/ asked' = asked
           \/ \E k \in Tasks : Capture(k)
           \/ \E k \in Tasks, id \in Ids, topics \in SUBSET Topics : Subscribe(k, id, topics)
<1>1. ASSUME NEW k \in Tasks, Reply(k) PROVE asked' = asked
  BY <1>1 DEF Reply, BeginCleanup, Ended
<1>2. ASSUME NEW k \in Tasks, LookedUp(k) PROVE asked' = asked
  BY <1>2 DEF LookedUp
<1>3. ASSUME NEW k \in Tasks, Owned(k) PROVE asked' = asked
  BY <1>3 DEF Owned
<1>4. ASSUME NEW k \in Tasks, RowDone(k) PROVE asked' = asked
  BY <1>4 DEF RowDone
<1>5. ASSUME NEW k \in Tasks, FanoutPage(k) PROVE asked' = asked
  BY <1>5 DEF FanoutPage
<1>6. ASSUME NEW k \in Tasks, Claim(k) PROVE asked' = asked
  BY <1>6 DEF Claim
<1>7. ASSUME NEW k \in Tasks, Deliver(k) PROVE asked' = asked
  BY <1>7 DEF Deliver, NextTarget, Gone, BeginCleanup
<1>8. ASSUME NEW k \in Tasks, PageDone(k) PROVE asked' = asked
  BY <1>8 DEF PageDone
<1>9. ASSUME NEW k \in Tasks, StartFlush(k) PROVE asked' = asked
  BY <1>9 DEF StartFlush
<1>10. ASSUME NEW k \in Tasks, Disconnected(k) PROVE asked' = asked
  BY <1>10 DEF Disconnected, BeginCleanup
<1>11. ASSUME NEW k \in Tasks, RowFails(k) PROVE asked' = asked
  BY <1>11 DEF RowFails, Release
<1>12. ASSUME NEW k \in Tasks, Crash(k) PROVE asked' = asked
  BY <1>12 DEF Crash
<1>13. ASSUME NEW k \in Tasks, SendFails(k) PROVE asked' = asked
  BY <1>13 DEF SendFails, Release
<1>14. ASSUME NEW k \in Tasks, Drift(k) PROVE asked' = asked
  BY <1>14 DEF Drift, NextTarget, Ended
<1>15. ASSUME NEW k \in Tasks, NEW id, Complete(k, id) PROVE asked' = asked
  BY <1>15 DEF Complete, Frame, Ended
<1>16. ASSUME NEW k \in Tasks, NEW id, AnswerInline(k, id) PROVE asked' = asked
  BY <1>16 DEF AnswerInline, Frame
<1>17. ASSUME NEW t \in Topics, Publish(t) PROVE asked' = asked
  BY <1>17 DEF Publish
<1>18. ASSUME ClientCloses PROVE asked' = asked
  BY <1>18 DEF ClientCloses
<1>19. ASSUME ByeLost PROVE asked' = asked
  BY <1>19 DEF ByeLost
<1> QED
  BY <1>1, <1>2, <1>3, <1>4, <1>5, <1>6, <1>7, <1>8, <1>9, <1>10, <1>11, <1>12, <1>13, <1>14,
     <1>15, <1>16, <1>17, <1>18, <1>19 DEF Next, Step

\* Who writes rows.
LEMMA RowsSteps ==
    ASSUME Next
    PROVE  \/ rows' = rows
           \/ \E k \in Tasks : RowDone(k) \/ RowFails(k) \/ Crash(k)
<1>1. ASSUME NEW k \in Tasks, Capture(k) PROVE rows' = rows
  BY <1>1 DEF Capture
<1>2. ASSUME NEW k \in Tasks, Reply(k) PROVE rows' = rows
  BY <1>2 DEF Reply, BeginCleanup, Ended
<1>3. ASSUME NEW k \in Tasks, LookedUp(k) PROVE rows' = rows
  BY <1>3 DEF LookedUp
<1>4. ASSUME NEW k \in Tasks, Owned(k) PROVE rows' = rows
  BY <1>4 DEF Owned
<1>5. ASSUME NEW k \in Tasks, FanoutPage(k) PROVE rows' = rows
  BY <1>5 DEF FanoutPage
<1>6. ASSUME NEW k \in Tasks, Claim(k) PROVE rows' = rows
  BY <1>6 DEF Claim
<1>7. ASSUME NEW k \in Tasks, Deliver(k) PROVE rows' = rows
  BY <1>7 DEF Deliver, NextTarget, Gone, BeginCleanup
<1>8. ASSUME NEW k \in Tasks, PageDone(k) PROVE rows' = rows
  BY <1>8 DEF PageDone
<1>9. ASSUME NEW k \in Tasks, StartFlush(k) PROVE rows' = rows
  BY <1>9 DEF StartFlush
<1>10. ASSUME NEW k \in Tasks, Disconnected(k) PROVE rows' = rows
  BY <1>10 DEF Disconnected, BeginCleanup
<1>11. ASSUME NEW k \in Tasks, SendFails(k) PROVE rows' = rows
  BY <1>11 DEF SendFails, Release
<1>12. ASSUME NEW k \in Tasks, Drift(k) PROVE rows' = rows
  BY <1>12 DEF Drift, NextTarget, Ended
<1>13. ASSUME NEW k \in Tasks, NEW id, Complete(k, id) PROVE rows' = rows
  BY <1>13 DEF Complete, Frame, Ended
<1>14. ASSUME NEW k \in Tasks, NEW id, NEW topics, Subscribe(k, id, topics) PROVE rows' = rows
  BY <1>14 DEF Subscribe, Frame
<1>15. ASSUME NEW k \in Tasks, NEW id, AnswerInline(k, id) PROVE rows' = rows
  BY <1>15 DEF AnswerInline, Frame
<1>16. ASSUME NEW t \in Topics, Publish(t) PROVE rows' = rows
  BY <1>16 DEF Publish
<1>17. ASSUME ClientCloses PROVE rows' = rows
  BY <1>17 DEF ClientCloses
<1>18. ASSUME ByeLost PROVE rows' = rows
  BY <1>18 DEF ByeLost
<1> QED
  BY <1>1, <1>2, <1>3, <1>4, <1>5, <1>6, <1>7, <1>8, <1>9, <1>10, <1>11, <1>12, <1>13, <1>14,
     <1>15, <1>16, <1>17, <1>18 DEF Next, Step

\* Who resolves a registration.
LEMMA ReadySteps ==
    ASSUME Next
    PROVE  \/ ready' = ready
           \/ \E k \in Tasks : RowDone(k)
<1>1. ASSUME NEW k \in Tasks, Capture(k) PROVE ready' = ready
  BY <1>1 DEF Capture
<1>2. ASSUME NEW k \in Tasks, Reply(k) PROVE ready' = ready
  BY <1>2 DEF Reply, BeginCleanup, Ended
<1>3. ASSUME NEW k \in Tasks, LookedUp(k) PROVE ready' = ready
  BY <1>3 DEF LookedUp
<1>4. ASSUME NEW k \in Tasks, Owned(k) PROVE ready' = ready
  BY <1>4 DEF Owned
<1>5. ASSUME NEW k \in Tasks, FanoutPage(k) PROVE ready' = ready
  BY <1>5 DEF FanoutPage
<1>6. ASSUME NEW k \in Tasks, Claim(k) PROVE ready' = ready
  BY <1>6 DEF Claim
<1>7. ASSUME NEW k \in Tasks, Deliver(k) PROVE ready' = ready
  BY <1>7 DEF Deliver, NextTarget, Gone, BeginCleanup
<1>8. ASSUME NEW k \in Tasks, PageDone(k) PROVE ready' = ready
  BY <1>8 DEF PageDone
<1>9. ASSUME NEW k \in Tasks, StartFlush(k) PROVE ready' = ready
  BY <1>9 DEF StartFlush
<1>10. ASSUME NEW k \in Tasks, Disconnected(k) PROVE ready' = ready
  BY <1>10 DEF Disconnected, BeginCleanup
<1>11. ASSUME NEW k \in Tasks, RowFails(k) PROVE ready' = ready
  BY <1>11 DEF RowFails, Release
<1>12. ASSUME NEW k \in Tasks, Crash(k) PROVE ready' = ready
  BY <1>12 DEF Crash
<1>13. ASSUME NEW k \in Tasks, SendFails(k) PROVE ready' = ready
  BY <1>13 DEF SendFails, Release
<1>14. ASSUME NEW k \in Tasks, Drift(k) PROVE ready' = ready
  BY <1>14 DEF Drift, NextTarget, Ended
<1>15. ASSUME NEW k \in Tasks, NEW id, Complete(k, id) PROVE ready' = ready
  BY <1>15 DEF Complete, Frame, Ended
<1>16. ASSUME NEW k \in Tasks, NEW id, NEW topics, Subscribe(k, id, topics) PROVE ready' = ready
  BY <1>16 DEF Subscribe, Frame
<1>17. ASSUME NEW k \in Tasks, NEW id, AnswerInline(k, id) PROVE ready' = ready
  BY <1>17 DEF AnswerInline, Frame
<1>18. ASSUME NEW t \in Topics, Publish(t) PROVE ready' = ready
  BY <1>18 DEF Publish
<1>19. ASSUME ClientCloses PROVE ready' = ready
  BY <1>19 DEF ClientCloses
<1>20. ASSUME ByeLost PROVE ready' = ready
  BY <1>20 DEF ByeLost
<1> QED
  BY <1>1, <1>2, <1>3, <1>4, <1>5, <1>6, <1>7, <1>8, <1>9, <1>10, <1>11, <1>12, <1>13, <1>14,
     <1>15, <1>16, <1>17, <1>18, <1>19, <1>20 DEF Next, Step

\* Who publishes.
LEMMA MessagesSteps ==
    ASSUME Next
    PROVE  \/ messages' = messages
           \/ \E t \in Topics : Publish(t)
<1>1. ASSUME NEW k \in Tasks, Capture(k) PROVE messages' = messages
  BY <1>1 DEF Capture, outVars
<1>2. ASSUME NEW k \in Tasks, Reply(k) PROVE messages' = messages
  BY <1>2 DEF Reply, BeginCleanup, Ended, outVars
<1>3. ASSUME NEW k \in Tasks, LookedUp(k) PROVE messages' = messages
  BY <1>3 DEF LookedUp, outVars
<1>4. ASSUME NEW k \in Tasks, Owned(k) PROVE messages' = messages
  BY <1>4 DEF Owned, outVars
<1>5. ASSUME NEW k \in Tasks, RowDone(k) PROVE messages' = messages
  BY <1>5 DEF RowDone, outVars
<1>6. ASSUME NEW k \in Tasks, FanoutPage(k) PROVE messages' = messages
  BY <1>6 DEF FanoutPage, outVars
<1>7. ASSUME NEW k \in Tasks, Claim(k) PROVE messages' = messages
  BY <1>7 DEF Claim, outVars
<1>8. ASSUME NEW k \in Tasks, Deliver(k) PROVE messages' = messages
  BY <1>8 DEF Deliver, NextTarget, Gone, BeginCleanup, outVars
<1>9. ASSUME NEW k \in Tasks, PageDone(k) PROVE messages' = messages
  BY <1>9 DEF PageDone, outVars
<1>10. ASSUME NEW k \in Tasks, StartFlush(k) PROVE messages' = messages
  BY <1>10 DEF StartFlush, outVars
<1>11. ASSUME NEW k \in Tasks, Disconnected(k) PROVE messages' = messages
  BY <1>11 DEF Disconnected, BeginCleanup, outVars
<1>12. ASSUME NEW k \in Tasks, RowFails(k) PROVE messages' = messages
  BY <1>12 DEF RowFails, Release, outVars
<1>13. ASSUME NEW k \in Tasks, Crash(k) PROVE messages' = messages
  BY <1>13 DEF Crash, outVars
<1>14. ASSUME NEW k \in Tasks, SendFails(k) PROVE messages' = messages
  BY <1>14 DEF SendFails, Release, outVars
<1>15. ASSUME NEW k \in Tasks, Drift(k) PROVE messages' = messages
  BY <1>15 DEF Drift, NextTarget, Ended, outVars
<1>16. ASSUME NEW k \in Tasks, NEW id, Complete(k, id) PROVE messages' = messages
  BY <1>16 DEF Complete, Frame, Ended, outVars
<1>17. ASSUME NEW k \in Tasks, NEW id, NEW topics, Subscribe(k, id, topics) PROVE messages' = messages
  BY <1>17 DEF Subscribe, Frame, outVars
<1>18. ASSUME NEW k \in Tasks, NEW id, AnswerInline(k, id) PROVE messages' = messages
  BY <1>18 DEF AnswerInline, Frame, outVars
<1>19. ASSUME ClientCloses PROVE messages' = messages
  BY <1>19 DEF ClientCloses, outVars
<1>20. ASSUME ByeLost PROVE messages' = messages
  BY <1>20 DEF ByeLost, outVars
<1> QED
  BY <1>1, <1>2, <1>3, <1>4, <1>5, <1>6, <1>7, <1>8, <1>9, <1>10, <1>11, <1>12, <1>13, <1>14,
     <1>15, <1>16, <1>17, <1>18, <1>19, <1>20 DEF Next, Step

\* Who is done with a record.
LEMMA FlushedSteps ==
    ASSUME Next
    PROVE  \/ flushed' = flushed
           \/ \E k \in Tasks : PageDone(k)
<1>1. ASSUME NEW k \in Tasks, Capture(k) PROVE flushed' = flushed
  BY <1>1 DEF Capture, outVars
<1>2. ASSUME NEW k \in Tasks, Reply(k) PROVE flushed' = flushed
  BY <1>2 DEF Reply, BeginCleanup, Ended, outVars
<1>3. ASSUME NEW k \in Tasks, LookedUp(k) PROVE flushed' = flushed
  BY <1>3 DEF LookedUp, outVars
<1>4. ASSUME NEW k \in Tasks, Owned(k) PROVE flushed' = flushed
  BY <1>4 DEF Owned, outVars
<1>5. ASSUME NEW k \in Tasks, RowDone(k) PROVE flushed' = flushed
  BY <1>5 DEF RowDone, outVars
<1>6. ASSUME NEW k \in Tasks, FanoutPage(k) PROVE flushed' = flushed
  BY <1>6 DEF FanoutPage, outVars
<1>7. ASSUME NEW k \in Tasks, Claim(k) PROVE flushed' = flushed
  BY <1>7 DEF Claim, outVars
<1>8. ASSUME NEW k \in Tasks, Deliver(k) PROVE flushed' = flushed
  BY <1>8 DEF Deliver, NextTarget, Gone, BeginCleanup, outVars
<1>9. ASSUME NEW k \in Tasks, StartFlush(k) PROVE flushed' = flushed
  BY <1>9 DEF StartFlush, outVars
<1>10. ASSUME NEW k \in Tasks, Disconnected(k) PROVE flushed' = flushed
  BY <1>10 DEF Disconnected, BeginCleanup, outVars
<1>11. ASSUME NEW k \in Tasks, RowFails(k) PROVE flushed' = flushed
  BY <1>11 DEF RowFails, Release, outVars
<1>12. ASSUME NEW k \in Tasks, Crash(k) PROVE flushed' = flushed
  BY <1>12 DEF Crash, outVars
<1>13. ASSUME NEW k \in Tasks, SendFails(k) PROVE flushed' = flushed
  BY <1>13 DEF SendFails, Release, outVars
<1>14. ASSUME NEW k \in Tasks, Drift(k) PROVE flushed' = flushed
  BY <1>14 DEF Drift, NextTarget, Ended, outVars
<1>15. ASSUME NEW k \in Tasks, NEW id, Complete(k, id) PROVE flushed' = flushed
  BY <1>15 DEF Complete, Frame, Ended, outVars
<1>16. ASSUME NEW k \in Tasks, NEW id, NEW topics, Subscribe(k, id, topics) PROVE flushed' = flushed
  BY <1>16 DEF Subscribe, Frame, outVars
<1>17. ASSUME NEW k \in Tasks, NEW id, AnswerInline(k, id) PROVE flushed' = flushed
  BY <1>17 DEF AnswerInline, Frame, outVars
<1>18. ASSUME NEW t \in Topics, Publish(t) PROVE flushed' = flushed
  BY <1>18 DEF Publish, outVars
<1>19. ASSUME ClientCloses PROVE flushed' = flushed
  BY <1>19 DEF ClientCloses, outVars
<1>20. ASSUME ByeLost PROVE flushed' = flushed
  BY <1>20 DEF ByeLost, outVars
<1> QED
  BY <1>1, <1>2, <1>3, <1>4, <1>5, <1>6, <1>7, <1>8, <1>9, <1>10, <1>11, <1>12, <1>13, <1>14,
     <1>15, <1>16, <1>17, <1>18, <1>19, <1>20 DEF Next, Step

\* Which records are late.
LEMMA LateSteps ==
    ASSUME Next
    PROVE  \/ late' = late
           \/ \E t \in Topics : Publish(t)
<1>1. ASSUME NEW k \in Tasks, Capture(k) PROVE late' = late
  BY <1>1 DEF Capture, outVars
<1>2. ASSUME NEW k \in Tasks, Reply(k) PROVE late' = late
  BY <1>2 DEF Reply, BeginCleanup, Ended, outVars
<1>3. ASSUME NEW k \in Tasks, LookedUp(k) PROVE late' = late
  BY <1>3 DEF LookedUp, outVars
<1>4. ASSUME NEW k \in Tasks, Owned(k) PROVE late' = late
  BY <1>4 DEF Owned, outVars
<1>5. ASSUME NEW k \in Tasks, RowDone(k) PROVE late' = late
  BY <1>5 DEF RowDone, outVars
<1>6. ASSUME NEW k \in Tasks, FanoutPage(k) PROVE late' = late
  BY <1>6 DEF FanoutPage, outVars
<1>7. ASSUME NEW k \in Tasks, Claim(k) PROVE late' = late
  BY <1>7 DEF Claim, outVars
<1>8. ASSUME NEW k \in Tasks, Deliver(k) PROVE late' = late
  BY <1>8 DEF Deliver, NextTarget, Gone, BeginCleanup, outVars
<1>9. ASSUME NEW k \in Tasks, PageDone(k) PROVE late' = late
  BY <1>9 DEF PageDone, outVars
<1>10. ASSUME NEW k \in Tasks, StartFlush(k) PROVE late' = late
  BY <1>10 DEF StartFlush, outVars
<1>11. ASSUME NEW k \in Tasks, Disconnected(k) PROVE late' = late
  BY <1>11 DEF Disconnected, BeginCleanup, outVars
<1>12. ASSUME NEW k \in Tasks, RowFails(k) PROVE late' = late
  BY <1>12 DEF RowFails, Release, outVars
<1>13. ASSUME NEW k \in Tasks, Crash(k) PROVE late' = late
  BY <1>13 DEF Crash, outVars
<1>14. ASSUME NEW k \in Tasks, SendFails(k) PROVE late' = late
  BY <1>14 DEF SendFails, Release, outVars
<1>15. ASSUME NEW k \in Tasks, Drift(k) PROVE late' = late
  BY <1>15 DEF Drift, NextTarget, Ended, outVars
<1>16. ASSUME NEW k \in Tasks, NEW id, Complete(k, id) PROVE late' = late
  BY <1>16 DEF Complete, Frame, Ended, outVars
<1>17. ASSUME NEW k \in Tasks, NEW id, NEW topics, Subscribe(k, id, topics) PROVE late' = late
  BY <1>17 DEF Subscribe, Frame, outVars
<1>18. ASSUME NEW k \in Tasks, NEW id, AnswerInline(k, id) PROVE late' = late
  BY <1>18 DEF AnswerInline, Frame, outVars
<1>19. ASSUME ClientCloses PROVE late' = late
  BY <1>19 DEF ClientCloses, outVars
<1>20. ASSUME ByeLost PROVE late' = late
  BY <1>20 DEF ByeLost, outVars
<1> QED
  BY <1>1, <1>2, <1>3, <1>4, <1>5, <1>6, <1>7, <1>8, <1>9, <1>10, <1>11, <1>12, <1>13, <1>14,
     <1>15, <1>16, <1>17, <1>18, <1>19, <1>20 DEF Next, Step

\* Who claims and releases.
LEMMA ClaimsSteps ==
    ASSUME Next
    PROVE  \/ claims' = claims
           \/ \E k \in Tasks : Claim(k) \/ RowFails(k) \/ SendFails(k)
<1>1. ASSUME NEW k \in Tasks, Capture(k) PROVE claims' = claims
  BY <1>1 DEF Capture
<1>2. ASSUME NEW k \in Tasks, Reply(k) PROVE claims' = claims
  BY <1>2 DEF Reply, BeginCleanup, Ended
<1>3. ASSUME NEW k \in Tasks, LookedUp(k) PROVE claims' = claims
  BY <1>3 DEF LookedUp
<1>4. ASSUME NEW k \in Tasks, Owned(k) PROVE claims' = claims
  BY <1>4 DEF Owned
<1>5. ASSUME NEW k \in Tasks, RowDone(k) PROVE claims' = claims
  BY <1>5 DEF RowDone
<1>6. ASSUME NEW k \in Tasks, FanoutPage(k) PROVE claims' = claims
  BY <1>6 DEF FanoutPage
<1>7. ASSUME NEW k \in Tasks, Deliver(k) PROVE claims' = claims
  BY <1>7 DEF Deliver, NextTarget, Gone, BeginCleanup
<1>8. ASSUME NEW k \in Tasks, PageDone(k) PROVE claims' = claims
  BY <1>8 DEF PageDone
<1>9. ASSUME NEW k \in Tasks, StartFlush(k) PROVE claims' = claims
  BY <1>9 DEF StartFlush
<1>10. ASSUME NEW k \in Tasks, Disconnected(k) PROVE claims' = claims
  BY <1>10 DEF Disconnected, BeginCleanup
<1>11. ASSUME NEW k \in Tasks, Crash(k) PROVE claims' = claims
  BY <1>11 DEF Crash
<1>12. ASSUME NEW k \in Tasks, Drift(k) PROVE claims' = claims
  BY <1>12 DEF Drift, NextTarget, Ended
<1>13. ASSUME NEW k \in Tasks, NEW id, Complete(k, id) PROVE claims' = claims
  BY <1>13 DEF Complete, Frame, Ended
<1>14. ASSUME NEW k \in Tasks, NEW id, NEW topics, Subscribe(k, id, topics) PROVE claims' = claims
  BY <1>14 DEF Subscribe, Frame
<1>15. ASSUME NEW k \in Tasks, NEW id, AnswerInline(k, id) PROVE claims' = claims
  BY <1>15 DEF AnswerInline, Frame
<1>16. ASSUME NEW t \in Topics, Publish(t) PROVE claims' = claims
  BY <1>16 DEF Publish
<1>17. ASSUME ClientCloses PROVE claims' = claims
  BY <1>17 DEF ClientCloses
<1>18. ASSUME ByeLost PROVE claims' = claims
  BY <1>18 DEF ByeLost
<1> QED
  BY <1>1, <1>2, <1>3, <1>4, <1>5, <1>6, <1>7, <1>8, <1>9, <1>10, <1>11, <1>12, <1>13, <1>14,
     <1>15, <1>16, <1>17, <1>18 DEF Next, Step

\* Who sends.
LEMMA GotSteps ==
    ASSUME Next
    PROVE  \/ got' = got
           \/ \E k \in Tasks : Deliver(k)
<1>1. ASSUME NEW k \in Tasks, Capture(k) PROVE got' = got
  BY <1>1 DEF Capture
<1>2. ASSUME NEW k \in Tasks, Reply(k) PROVE got' = got
  BY <1>2 DEF Reply, BeginCleanup, Ended
<1>3. ASSUME NEW k \in Tasks, LookedUp(k) PROVE got' = got
  BY <1>3 DEF LookedUp
<1>4. ASSUME NEW k \in Tasks, Owned(k) PROVE got' = got
  BY <1>4 DEF Owned
<1>5. ASSUME NEW k \in Tasks, RowDone(k) PROVE got' = got
  BY <1>5 DEF RowDone
<1>6. ASSUME NEW k \in Tasks, FanoutPage(k) PROVE got' = got
  BY <1>6 DEF FanoutPage
<1>7. ASSUME NEW k \in Tasks, Claim(k) PROVE got' = got
  BY <1>7 DEF Claim
<1>8. ASSUME NEW k \in Tasks, PageDone(k) PROVE got' = got
  BY <1>8 DEF PageDone
<1>9. ASSUME NEW k \in Tasks, StartFlush(k) PROVE got' = got
  BY <1>9 DEF StartFlush
<1>10. ASSUME NEW k \in Tasks, Disconnected(k) PROVE got' = got
  BY <1>10 DEF Disconnected, BeginCleanup
<1>11. ASSUME NEW k \in Tasks, RowFails(k) PROVE got' = got
  BY <1>11 DEF RowFails, Release
<1>12. ASSUME NEW k \in Tasks, Crash(k) PROVE got' = got
  BY <1>12 DEF Crash
<1>13. ASSUME NEW k \in Tasks, SendFails(k) PROVE got' = got
  BY <1>13 DEF SendFails, Release
<1>14. ASSUME NEW k \in Tasks, Drift(k) PROVE got' = got
  BY <1>14 DEF Drift, NextTarget, Ended
<1>15. ASSUME NEW k \in Tasks, NEW id, Complete(k, id) PROVE got' = got
  BY <1>15 DEF Complete, Frame, Ended
<1>16. ASSUME NEW k \in Tasks, NEW id, NEW topics, Subscribe(k, id, topics) PROVE got' = got
  BY <1>16 DEF Subscribe, Frame
<1>17. ASSUME NEW k \in Tasks, NEW id, AnswerInline(k, id) PROVE got' = got
  BY <1>17 DEF AnswerInline, Frame
<1>18. ASSUME NEW t \in Topics, Publish(t) PROVE got' = got
  BY <1>18 DEF Publish
<1>19. ASSUME ClientCloses PROVE got' = got
  BY <1>19 DEF ClientCloses
<1>20. ASSUME ByeLost PROVE got' = got
  BY <1>20 DEF ByeLost
<1> QED
  BY <1>1, <1>2, <1>3, <1>4, <1>5, <1>6, <1>7, <1>8, <1>9, <1>10, <1>11, <1>12, <1>13, <1>14,
     <1>15, <1>16, <1>17, <1>18, <1>19, <1>20 DEF Next, Step

\* What the client begins and ends.
LEMMA LiveSteps ==
    ASSUME Next
    PROVE  \/ live' = live
           \/ \E k \in Tasks : Reply(k) \/ Drift(k)
           \/ \E k \in Tasks, id \in Ids : Complete(k, id)
           \/ \E k \in Tasks, id \in Ids, topics \in SUBSET Topics : Subscribe(k, id, topics)
           \/ ClientCloses
<1>1. ASSUME NEW k \in Tasks, Capture(k) PROVE live' = live
  BY <1>1 DEF Capture, clientVars
<1>2. ASSUME NEW k \in Tasks, LookedUp(k) PROVE live' = live
  BY <1>2 DEF LookedUp, clientVars
<1>3. ASSUME NEW k \in Tasks, Owned(k) PROVE live' = live
  BY <1>3 DEF Owned, clientVars
<1>4. ASSUME NEW k \in Tasks, RowDone(k) PROVE live' = live
  BY <1>4 DEF RowDone, clientVars
<1>5. ASSUME NEW k \in Tasks, FanoutPage(k) PROVE live' = live
  BY <1>5 DEF FanoutPage, clientVars
<1>6. ASSUME NEW k \in Tasks, Claim(k) PROVE live' = live
  BY <1>6 DEF Claim, clientVars
<1>7. ASSUME NEW k \in Tasks, Deliver(k) PROVE live' = live
  BY <1>7 DEF Deliver, NextTarget, Gone, BeginCleanup, clientVars
<1>8. ASSUME NEW k \in Tasks, PageDone(k) PROVE live' = live
  BY <1>8 DEF PageDone, clientVars
<1>9. ASSUME NEW k \in Tasks, StartFlush(k) PROVE live' = live
  BY <1>9 DEF StartFlush, clientVars
<1>10. ASSUME NEW k \in Tasks, Disconnected(k) PROVE live' = live
  BY <1>10 DEF Disconnected, BeginCleanup, clientVars
<1>11. ASSUME NEW k \in Tasks, RowFails(k) PROVE live' = live
  BY <1>11 DEF RowFails, Release, clientVars
<1>12. ASSUME NEW k \in Tasks, Crash(k) PROVE live' = live
  BY <1>12 DEF Crash, clientVars
<1>13. ASSUME NEW k \in Tasks, SendFails(k) PROVE live' = live
  BY <1>13 DEF SendFails, Release, clientVars
<1>14. ASSUME NEW k \in Tasks, NEW id, AnswerInline(k, id) PROVE live' = live
  BY <1>14 DEF AnswerInline, Frame, clientVars
<1>15. ASSUME NEW t \in Topics, Publish(t) PROVE live' = live
  BY <1>15 DEF Publish, clientVars
<1>16. ASSUME ByeLost PROVE live' = live
  BY <1>16 DEF ByeLost, clientVars
<1> QED
  BY <1>1, <1>2, <1>3, <1>4, <1>5, <1>6, <1>7, <1>8, <1>9, <1>10, <1>11, <1>12, <1>13, <1>14,
     <1>15, <1>16 DEF Next, Step

\* What is due to it.
LEMMA OwedSteps ==
    ASSUME Next
    PROVE  \/ owed' = owed
           \/ \E k \in Tasks : Reply(k) \/ Drift(k)
           \/ \E k \in Tasks, id \in Ids : Complete(k, id)
           \/ \E k \in Tasks, id \in Ids, topics \in SUBSET Topics : Subscribe(k, id, topics)
           \/ \E t \in Topics : Publish(t)
           \/ ClientCloses
<1>1. ASSUME NEW k \in Tasks, Capture(k) PROVE owed' = owed
  BY <1>1 DEF Capture, clientVars
<1>2. ASSUME NEW k \in Tasks, LookedUp(k) PROVE owed' = owed
  BY <1>2 DEF LookedUp, clientVars
<1>3. ASSUME NEW k \in Tasks, Owned(k) PROVE owed' = owed
  BY <1>3 DEF Owned, clientVars
<1>4. ASSUME NEW k \in Tasks, RowDone(k) PROVE owed' = owed
  BY <1>4 DEF RowDone, clientVars
<1>5. ASSUME NEW k \in Tasks, FanoutPage(k) PROVE owed' = owed
  BY <1>5 DEF FanoutPage, clientVars
<1>6. ASSUME NEW k \in Tasks, Claim(k) PROVE owed' = owed
  BY <1>6 DEF Claim, clientVars
<1>7. ASSUME NEW k \in Tasks, Deliver(k) PROVE owed' = owed
  BY <1>7 DEF Deliver, NextTarget, Gone, BeginCleanup, clientVars
<1>8. ASSUME NEW k \in Tasks, PageDone(k) PROVE owed' = owed
  BY <1>8 DEF PageDone, clientVars
<1>9. ASSUME NEW k \in Tasks, StartFlush(k) PROVE owed' = owed
  BY <1>9 DEF StartFlush, clientVars
<1>10. ASSUME NEW k \in Tasks, Disconnected(k) PROVE owed' = owed
  BY <1>10 DEF Disconnected, BeginCleanup, clientVars
<1>11. ASSUME NEW k \in Tasks, RowFails(k) PROVE owed' = owed
  BY <1>11 DEF RowFails, Release, clientVars
<1>12. ASSUME NEW k \in Tasks, Crash(k) PROVE owed' = owed
  BY <1>12 DEF Crash, clientVars
<1>13. ASSUME NEW k \in Tasks, SendFails(k) PROVE owed' = owed
  BY <1>13 DEF SendFails, Release, clientVars
<1>14. ASSUME NEW k \in Tasks, NEW id, AnswerInline(k, id) PROVE owed' = owed
  BY <1>14 DEF AnswerInline, Frame, clientVars
<1>15. ASSUME ByeLost PROVE owed' = owed
  BY <1>15 DEF ByeLost, clientVars
<1> QED
  BY <1>1, <1>2, <1>3, <1>4, <1>5, <1>6, <1>7, <1>8, <1>9, <1>10, <1>11, <1>12, <1>13, <1>14,
     <1>15 DEF Next, Step

\* What the client sends.
LEMMA StartsSteps ==
    ASSUME Next
    PROVE  \/ starts' = starts
           \/ \E k \in Tasks, id \in Ids : Complete(k, id)
           \/ \E k \in Tasks, id \in Ids, topics \in SUBSET Topics : Subscribe(k, id, topics)
           \/ \E k \in Tasks, id \in Ids \cup {0} : AnswerInline(k, id)
<1>1. ASSUME NEW k \in Tasks, Capture(k) PROVE starts' = starts
  BY <1>1 DEF Capture
<1>2. ASSUME NEW k \in Tasks, Reply(k) PROVE starts' = starts
  BY <1>2 DEF Reply, BeginCleanup, Ended
<1>3. ASSUME NEW k \in Tasks, LookedUp(k) PROVE starts' = starts
  BY <1>3 DEF LookedUp
<1>4. ASSUME NEW k \in Tasks, Owned(k) PROVE starts' = starts
  BY <1>4 DEF Owned
<1>5. ASSUME NEW k \in Tasks, RowDone(k) PROVE starts' = starts
  BY <1>5 DEF RowDone
<1>6. ASSUME NEW k \in Tasks, FanoutPage(k) PROVE starts' = starts
  BY <1>6 DEF FanoutPage
<1>7. ASSUME NEW k \in Tasks, Claim(k) PROVE starts' = starts
  BY <1>7 DEF Claim
<1>8. ASSUME NEW k \in Tasks, Deliver(k) PROVE starts' = starts
  BY <1>8 DEF Deliver, NextTarget, Gone, BeginCleanup
<1>9. ASSUME NEW k \in Tasks, PageDone(k) PROVE starts' = starts
  BY <1>9 DEF PageDone
<1>10. ASSUME NEW k \in Tasks, StartFlush(k) PROVE starts' = starts
  BY <1>10 DEF StartFlush
<1>11. ASSUME NEW k \in Tasks, Disconnected(k) PROVE starts' = starts
  BY <1>11 DEF Disconnected, BeginCleanup
<1>12. ASSUME NEW k \in Tasks, RowFails(k) PROVE starts' = starts
  BY <1>12 DEF RowFails, Release
<1>13. ASSUME NEW k \in Tasks, Crash(k) PROVE starts' = starts
  BY <1>13 DEF Crash
<1>14. ASSUME NEW k \in Tasks, SendFails(k) PROVE starts' = starts
  BY <1>14 DEF SendFails, Release
<1>15. ASSUME NEW k \in Tasks, Drift(k) PROVE starts' = starts
  BY <1>15 DEF Drift, NextTarget, Ended
<1>16. ASSUME NEW t \in Topics, Publish(t) PROVE starts' = starts
  BY <1>16 DEF Publish
<1>17. ASSUME ClientCloses PROVE starts' = starts
  BY <1>17 DEF ClientCloses
<1>18. ASSUME ByeLost PROVE starts' = starts
  BY <1>18 DEF ByeLost
<1> QED
  BY <1>1, <1>2, <1>3, <1>4, <1>5, <1>6, <1>7, <1>8, <1>9, <1>10, <1>11, <1>12, <1>13, <1>14,
     <1>15, <1>16, <1>17, <1>18 DEF Next, Step

\* What fails.
LEMMA FaultsSteps ==
    ASSUME Next
    PROVE  \/ faults' = faults
           \/ \E k \in Tasks : Reply(k) \/ RowFails(k) \/ Crash(k) \/ SendFails(k) \/ Drift(k)
           \/ ByeLost
<1>1. ASSUME NEW k \in Tasks, Capture(k) PROVE faults' = faults
  BY <1>1 DEF Capture
<1>2. ASSUME NEW k \in Tasks, LookedUp(k) PROVE faults' = faults
  BY <1>2 DEF LookedUp
<1>3. ASSUME NEW k \in Tasks, Owned(k) PROVE faults' = faults
  BY <1>3 DEF Owned
<1>4. ASSUME NEW k \in Tasks, RowDone(k) PROVE faults' = faults
  BY <1>4 DEF RowDone
<1>5. ASSUME NEW k \in Tasks, FanoutPage(k) PROVE faults' = faults
  BY <1>5 DEF FanoutPage
<1>6. ASSUME NEW k \in Tasks, Claim(k) PROVE faults' = faults
  BY <1>6 DEF Claim
<1>7. ASSUME NEW k \in Tasks, Deliver(k) PROVE faults' = faults
  BY <1>7 DEF Deliver, NextTarget, Gone, BeginCleanup
<1>8. ASSUME NEW k \in Tasks, PageDone(k) PROVE faults' = faults
  BY <1>8 DEF PageDone
<1>9. ASSUME NEW k \in Tasks, StartFlush(k) PROVE faults' = faults
  BY <1>9 DEF StartFlush
<1>10. ASSUME NEW k \in Tasks, Disconnected(k) PROVE faults' = faults
  BY <1>10 DEF Disconnected, BeginCleanup
<1>11. ASSUME NEW k \in Tasks, NEW id, Complete(k, id) PROVE faults' = faults
  BY <1>11 DEF Complete, Frame, Ended
<1>12. ASSUME NEW k \in Tasks, NEW id, NEW topics, Subscribe(k, id, topics) PROVE faults' = faults
  BY <1>12 DEF Subscribe, Frame
<1>13. ASSUME NEW k \in Tasks, NEW id, AnswerInline(k, id) PROVE faults' = faults
  BY <1>13 DEF AnswerInline, Frame
<1>14. ASSUME NEW t \in Topics, Publish(t) PROVE faults' = faults
  BY <1>14 DEF Publish
<1>15. ASSUME ClientCloses PROVE faults' = faults
  BY <1>15 DEF ClientCloses
<1> QED
  BY <1>1, <1>2, <1>3, <1>4, <1>5, <1>6, <1>7, <1>8, <1>9, <1>10, <1>11, <1>12, <1>13, <1>14,
     <1>15 DEF Next, Step

\* What may leave or take rows.
LEMMA ExcusesSteps ==
    ASSUME Next
    PROVE  \/ excuses' = excuses
           \/ \E k \in Tasks : Capture(k) \/ Reply(k) \/ Deliver(k) \/ Disconnected(k) \/ RowFails(k) \/ Crash(k) \/ Drift(k)
           \/ \E k \in Tasks, id \in Ids : Complete(k, id)
           \/ \E k \in Tasks, id \in Ids, topics \in SUBSET Topics : Subscribe(k, id, topics)
           \/ \E k \in Tasks, id \in Ids \cup {0} : AnswerInline(k, id)
           \/ ByeLost
<1>1. ASSUME NEW k \in Tasks, LookedUp(k) PROVE excuses' = excuses
  BY <1>1 DEF LookedUp
<1>2. ASSUME NEW k \in Tasks, Owned(k) PROVE excuses' = excuses
  BY <1>2 DEF Owned
<1>3. ASSUME NEW k \in Tasks, RowDone(k) PROVE excuses' = excuses
  BY <1>3 DEF RowDone
<1>4. ASSUME NEW k \in Tasks, FanoutPage(k) PROVE excuses' = excuses
  BY <1>4 DEF FanoutPage
<1>5. ASSUME NEW k \in Tasks, Claim(k) PROVE excuses' = excuses
  BY <1>5 DEF Claim
<1>6. ASSUME NEW k \in Tasks, PageDone(k) PROVE excuses' = excuses
  BY <1>6 DEF PageDone
<1>7. ASSUME NEW k \in Tasks, StartFlush(k) PROVE excuses' = excuses
  BY <1>7 DEF StartFlush
<1>8. ASSUME NEW k \in Tasks, SendFails(k) PROVE excuses' = excuses
  BY <1>8 DEF SendFails, Release
<1>9. ASSUME NEW t \in Topics, Publish(t) PROVE excuses' = excuses
  BY <1>9 DEF Publish
<1>10. ASSUME ClientCloses PROVE excuses' = excuses
  BY <1>10 DEF ClientCloses
<1> QED
  BY <1>1, <1>2, <1>3, <1>4, <1>5, <1>6, <1>7, <1>8, <1>9, <1>10 DEF Next, Step

-----------------------------------------------------------------------------
(* What a step leaves of the types                                          *)

Frame0 == [id : Ids, wants : SUBSET Topics, topics : SUBSET Topics]

\* What was asked and what was published stays, but for the topics capture mode
\* notes down.
Grows ==
    /\ \A n \in DOMAIN asked : /\ n \in DOMAIN asked' /\ asked'[n].id = asked[n].id
                               /\ asked'[n].wants = asked[n].wants
    /\ \A m \in DOMAIN messages : m \in DOMAIN messages' /\ messages'[m] = messages[m]

LEMMA AskedTypes ==
    ASSUME StateOK
    PROVE  /\ asked \in Seq(Frame0) /\ Len(asked) \in Nat /\ DOMAIN asked = 1..Len(asked)
           /\ \A n \in DOMAIN asked : /\ asked[n] \in Frame0 /\ n \in Nat /\ n # 0 /\ asked[n].id \in Ids
                                      /\ asked[n].wants \subseteq Topics
                                      /\ asked[n].topics \subseteq Topics
           /\ Subs = {0} \cup DOMAIN asked
           /\ messages \in Seq(Topics) /\ Len(messages) \in Nat /\ DOMAIN messages = 1..Len(messages)
           /\ \A m \in DOMAIN messages : messages[m] \in Topics /\ m \in Nat /\ m # 0
<1>1. asked \in Seq(Frame0) /\ messages \in Seq(Topics)
  BY DEF StateOK, DataOK, Frame0
<1>2. /\ Len(asked) \in Nat /\ DOMAIN asked = 1..Len(asked) /\ \A n \in 1..Len(asked) : asked[n] \in Frame0
      /\ Len(messages) \in Nat /\ DOMAIN messages = 1..Len(messages)
      /\ \A m \in 1..Len(messages) : messages[m] \in Topics
  BY <1>1, LenProperties, ElementOfSeq
<1>3. Subs = {0} \cup DOMAIN asked
  BY <1>2 DEF Subs
<1> QED
  BY <1>1, <1>2, <1>3 DEF Frame0

LEMMA CaptureGrows ==
    ASSUME StateOK, NEW k \in Tasks, Capture(k)
    PROVE  /\ asked' \in Seq(Frame0) /\ DOMAIN asked' = DOMAIN asked
           /\ asked'[task[k].sub].topics = asked[task[k].sub].wants
           /\ \A n \in DOMAIN asked :
                /\ asked'[n].id = asked[n].id /\ asked'[n].wants = asked[n].wants
                /\ n # task[k].sub => asked'[n] = asked[n]
<1>1. PICK s : s = task[k].sub
  OBVIOUS
<1>2. task[k].pc = "capture" /\ asked' = [asked EXCEPT ![s].topics = asked[s].wants]
  BY <1>1, CaptureTo
<1>3. s \in DOMAIN asked /\ asked \in Seq(Frame0) /\ asked[s] \in Frame0
  BY <1>1, <1>2, RecordTypes, AskedTypes DEF RecordOK
<1>4. PICK n \in Nat : n = Len(asked) /\ DOMAIN asked = 1..n
  BY AskedTypes
<1>5. PICK r : r = [asked[s] EXCEPT !.topics = asked[s].wants]
  OBVIOUS
<1>6. r \in Frame0 /\ r.id = asked[s].id /\ r.wants = asked[s].wants /\ r.topics = asked[s].wants
  BY <1>3, <1>5 DEF Frame0
<1>7. asked \in [1..n -> Frame0]
  BY <1>3, <1>4, AskedTypes
<1>8. asked' = [asked EXCEPT ![s] = r]
  BY <1>2, <1>3, <1>5, <1>7
<1>9. asked' \in [1..n -> Frame0]
  BY <1>6, <1>7, <1>8
<1>10. asked' \in Seq(Frame0) /\ DOMAIN asked' = DOMAIN asked
  BY <1>4, <1>9, SeqDef
<1>11. asked'[s] = r /\ \A m \in DOMAIN asked : m # s => asked'[m] = asked[m]
  BY <1>3, <1>7, <1>8
<1> QED
  BY <1>1, <1>6, <1>10, <1>11

LEMMA SubscribeGrows ==
    ASSUME StateOK, NEW k \in Tasks, NEW id \in Ids, NEW topics \in SUBSET Topics,
           Subscribe(k, id, topics)
    PROVE  /\ asked' \in Seq(Frame0) /\ DOMAIN asked' = 1..(Len(asked) + 1)
           /\ Len(asked') = Len(asked) + 1
           /\ asked'[Len(asked) + 1] = [id |-> id, wants |-> topics, topics |-> {}]
           /\ \A n \in DOMAIN asked : n \in DOMAIN asked' /\ asked'[n] = asked[n]
<1>1. PICK r : r = [id |-> id, wants |-> topics, topics |-> {}]
  OBVIOUS
<1>2. asked' = Append(asked, r)
  BY <1>1 DEF Subscribe
<1>3. r \in Frame0
  BY <1>1 DEF Frame0
<1>4. /\ asked' \in Seq(Frame0) /\ Len(asked') = Len(asked) + 1
      /\ asked'[Len(asked) + 1] = r /\ \A n \in 1..Len(asked) : asked'[n] = asked[n]
  BY <1>2, <1>3, AskedTypes, AppendProperties
<1>5. DOMAIN asked' = 1..Len(asked')
  BY <1>4, LenProperties
<1> QED
  BY <1>1, <1>4, <1>5, AskedTypes

LEMMA PublishGrows ==
    ASSUME StateOK, NEW t \in Topics, Publish(t)
    PROVE  /\ messages' \in Seq(Topics) /\ DOMAIN messages' = 1..(Len(messages) + 1)
           /\ messages'[Len(messages) + 1] = t
           /\ \A m \in DOMAIN messages : m \in DOMAIN messages' /\ messages'[m] = messages[m]
<1>1. messages' = Append(messages, t)
  BY DEF Publish
<1>2. /\ messages' \in Seq(Topics) /\ Len(messages') = Len(messages) + 1
      /\ messages'[Len(messages) + 1] = t
      /\ \A m \in 1..Len(messages) : messages'[m] = messages[m]
  BY <1>1, AskedTypes, AppendProperties
<1>3. DOMAIN messages' = 1..Len(messages')
  BY <1>2, LenProperties
<1> QED
  BY <1>2, <1>3, AskedTypes

LEMMA SeqsNext ==
    ASSUME StateOK, Next
    PROVE  asked' \in Seq(Frame0) /\ messages' \in Seq(Topics) /\ Grows
<1>1. asked' \in Seq(Frame0) /\ \A n \in DOMAIN asked :
        n \in DOMAIN asked' /\ asked'[n].id = asked[n].id /\ asked'[n].wants = asked[n].wants
  <2>1. CASE asked' = asked
    BY <2>1, AskedTypes
  <2>2. ASSUME NEW k \in Tasks, Capture(k) PROVE <1>1
    BY <2>2, CaptureGrows
  <2>3. ASSUME NEW k \in Tasks, NEW id \in Ids, NEW topics \in SUBSET Topics,
               Subscribe(k, id, topics)
        PROVE  <1>1
    BY <2>3, SubscribeGrows
  <2> QED
    BY <2>1, <2>2, <2>3, AskedSteps
<1>2. messages' \in Seq(Topics) /\ \A m \in DOMAIN messages :
        m \in DOMAIN messages' /\ messages'[m] = messages[m]
  <2>1. CASE messages' = messages
    BY <2>1, AskedTypes
  <2>2. ASSUME NEW t \in Topics, Publish(t) PROVE <1>2
    BY <2>2, PublishGrows
  <2> QED
    BY <2>1, <2>2, MessagesSteps
<1> QED
  BY <1>1, <1>2 DEF Grows

LEMMA GrowsTypes ==
    ASSUME StateOK, Next
    PROVE  /\ DOMAIN asked \subseteq DOMAIN asked' /\ Subs \subseteq Subs'
           /\ Subs' = {0} \cup DOMAIN asked'
           /\ DOMAIN messages \subseteq DOMAIN messages' /\ Frames \subseteq Frames'
<1>1. asked' \in Seq(Frame0) /\ Grows
  BY SeqsNext
<1>2. Len(asked') \in Nat /\ DOMAIN asked' = 1..Len(asked')
  BY <1>1, LenProperties
<1>3. Subs' = {0} \cup DOMAIN asked'
  BY <1>2 DEF Subs
<1>4. DOMAIN asked \subseteq DOMAIN asked' /\ DOMAIN messages \subseteq DOMAIN messages'
  BY <1>1 DEF Grows
<1>5. Subs = {0} \cup DOMAIN asked
  BY AskedTypes
<1>6. Frames \subseteq Frames'
  BY <1>4 DEF Frames
<1> QED
  BY <1>3, <1>4, <1>5, <1>6

LEMMA RowsTypes ==
    ASSUME StateOK, Next
    PROVE  rows' \in [Keys -> Subs']
<1>1. rows \in [Keys -> Subs'] /\ Subs \subseteq Subs'
  BY GrowsTypes DEF StateOK, DataOK
<1>2. CASE rows' = rows
  BY <1>1, <1>2
<1>3. ASSUME NEW k \in Tasks, RowDone(k) PROVE rows' \in [Keys -> Subs']
  <2>1. PICK op \in task[k].todo : rows' = [rows EXCEPT ![op[1]] = op[2]]
    BY <1>3, RowDoneTo
  <2>2. op \in Keys \X Subs
    BY RecordTypes DEF Ops
  <2> QED
    BY <1>1, <2>1, <2>2
<1>4. ASSUME NEW k \in Tasks, Abandon(k) PROVE rows' \in [Keys -> Subs']
  <2>1. PICK ops \in SUBSET Sent(k) :
          rows' = [key \in Keys |-> IF \E op \in ops : op[1] = key
                                    THEN (CHOOSE op \in ops : op[1] = key)[2] ELSE rows[key]]
    BY <1>4 DEF Abandon
  <2>2. ops \subseteq Keys \X Subs
    BY RecordTypes DEF Ops, Sent
  <2>3. ASSUME NEW key \in Keys
        PROVE  (IF \E op \in ops : op[1] = key
                THEN (CHOOSE op \in ops : op[1] = key)[2] ELSE rows[key]) \in Subs'
    <3>1. CASE \E op \in ops : op[1] = key
      <4>1. PICK op : op = CHOOSE o \in ops : o[1] = key
        OBVIOUS
      <4>2. op \in ops
        BY <3>1, <4>1
      <4> QED
        BY <1>1, <2>2, <3>1, <4>1, <4>2
    <3>2. CASE ~ \E op \in ops : op[1] = key
      BY <1>1, <3>2
    <3> QED
      BY <3>1, <3>2
  <2> QED
    BY <2>1, <2>3
<1>5. ASSUME NEW k \in Tasks, RowFails(k) \/ Crash(k) PROVE Abandon(k)
  BY <1>5 DEF RowFails, Crash
<1> QED
  BY <1>2, <1>3, <1>4, <1>5, RowsSteps

LEMMA EndedTypes ==
    ASSUME StateOK, Next, NEW id \in Ids, Ended(id)
    PROVE  live' \in [Ids -> Subs'] /\ owed' \subseteq Frames'
<1>1. live' = [live EXCEPT ![id] = 0] /\ owed' \subseteq owed
  BY DEF Ended
<1>2. live \in [Ids -> Subs] /\ owed \subseteq Frames /\ 0 \in Subs
  BY AskedTypes DEF StateOK, DataOK
<1> QED
  BY <1>1, <1>2, GrowsTypes

LEMMA LiveTypes ==
    ASSUME StateOK, Next
    PROVE  live' \in [Ids -> Subs']
<1>1. live \in [Ids -> Subs] /\ Subs \subseteq Subs' /\ 0 \in Subs'
  BY GrowsTypes DEF StateOK, DataOK
<1>2. CASE live' = live
  BY <1>1, <1>2
<1>3. ASSUME NEW k \in Tasks, Reply(k) PROVE live' \in [Ids -> Subs']
  <2>1. CASE Ended(task[k].id) /\ task[k].id # 0
    BY <2>1, RecordTypes, EndedTypes
  <2> QED
    BY <1>1, <1>3, <2>1, ReplyTo DEF clientVars
<1>4. ASSUME NEW k \in Tasks, Drift(k) PROVE live' \in [Ids -> Subs']
  <2>1. CASE Ended(task[k].id)
    <3>1. task[k].id \in Ids
      BY <1>4, RecordTypes DEF Drift, At, RecordOK
    <3> QED
      BY <2>1, <3>1, EndedTypes
  <2> QED
    BY <1>1, <1>4, <2>1 DEF Drift, clientVars
<1>5. ASSUME NEW k \in Tasks, NEW id \in Ids, Complete(k, id) PROVE live' \in [Ids -> Subs']
  BY <1>5, EndedTypes DEF Complete
<1>6. ASSUME NEW k \in Tasks, NEW id \in Ids, NEW topics \in SUBSET Topics, Subscribe(k, id, topics)
      PROVE  live' \in [Ids -> Subs']
  <2>1. live' = [live EXCEPT ![id] = Len(asked) + 1]
    BY <1>6 DEF Subscribe
  <2>2. Len(asked) + 1 \in Subs'
    <3>1. Len(asked) + 1 \in 1..(Len(asked) + 1)
      BY AskedTypes
    <3>2. DOMAIN asked' = 1..(Len(asked) + 1)
      BY <1>6, SubscribeGrows
    <3> QED
      BY <3>1, <3>2, GrowsTypes
  <2> QED
    BY <1>1, <2>1, <2>2
<1>7. CASE ClientCloses
  BY <1>1, <1>7 DEF ClientCloses
<1> QED
  BY <1>2, <1>3, <1>4, <1>5, <1>6, <1>7, LiveSteps

LEMMA OwedTypes ==
    ASSUME StateOK, Next
    PROVE  owed' \subseteq Frames'
<1>1. owed \subseteq Frames'
  BY GrowsTypes DEF StateOK, DataOK
<1>2. CASE owed' = owed
  BY <1>1, <1>2
<1>3. ASSUME NEW k \in Tasks, Reply(k) PROVE owed' \subseteq Frames'
  <2>1. CASE Ended(task[k].id) /\ task[k].id # 0
    BY <2>1, RecordTypes, EndedTypes
  <2> QED
    BY <1>1, <1>3, <2>1, ReplyTo DEF clientVars
<1>4. ASSUME NEW k \in Tasks, Drift(k) PROVE owed' \subseteq Frames'
  <2>1. CASE Ended(task[k].id)
    <3>1. task[k].id \in Ids
      BY <1>4, RecordTypes DEF Drift, At, RecordOK
    <3> QED
      BY <2>1, <3>1, EndedTypes
  <2> QED
    BY <1>1, <1>4, <2>1 DEF Drift, clientVars
<1>5. ASSUME NEW k \in Tasks, NEW id \in Ids, Complete(k, id) PROVE owed' \subseteq Frames'
  BY <1>5, EndedTypes DEF Complete
<1>6. ASSUME NEW k \in Tasks, NEW id, NEW topics, Subscribe(k, id, topics) PROVE owed' \subseteq Frames'
  <2>1. owed' \subseteq owed
    BY <1>6 DEF Subscribe
  <2> QED
    BY <1>1, <2>1
<1>7. ASSUME NEW t \in Topics, Publish(t) PROVE owed' \subseteq Frames'
  <2>1. PICK m : m = Len(messages) + 1
    OBVIOUS
  <2>2. owed' = owed \cup {<<m, id, live[id]>> : id \in
                    {j \in Ids : /\ live[j] \in ready /\ t \in asked[live[j]].wants
                                 /\ <<m, j>> \notin Rejected}}
    BY <1>7, <2>1 DEF Publish
  <2>3. m \in DOMAIN messages'
    BY <1>7, <2>1, PublishGrows, AskedTypes
  <2>4. \A id \in Ids : live[id] \in ready => live[id] \in DOMAIN asked'
    BY GrowsTypes DEF StateOK, DataOK
  <2>5. \A id \in Ids : live[id] \in ready => <<m, id, live[id]>> \in Frames'
    BY <2>3, <2>4 DEF Frames
  <2> QED
    BY <1>1, <2>2, <2>5
<1>8. CASE ClientCloses
  BY <1>8 DEF ClientCloses
<1> QED
  BY <1>2, <1>3, <1>4, <1>5, <1>6, <1>7, <1>8, OwedSteps

LEMMA DeliverTo ==
    ASSUME StateOK, NEW k \in Tasks, Deliver(k)
    PROVE  /\ task[k].pc = "replay" /\ task[k].todo = {}
           /\ task[k].msg \in DOMAIN messages /\ task[k].id \in Ids /\ task[k].sub \in DOMAIN asked
           /\ \/ /\ <<task[k].msg, task[k].id>> \in Rejected
                 /\ NextTarget(k) /\ got' = got /\ excuses' = excuses
              \/ /\ socket = "open" /\ NextTarget(k) /\ excuses' = excuses
                 /\ got' = got \cup {<<task[k].msg, task[k].id, task[k].sub>>}
              \/ socket = "closed" /\ BeginCleanup(k) /\ got' = got
<1>1. task[k].pc = "replay"
  BY DEF Deliver, At
<1>2. /\ task[k].todo = {} /\ task[k].msg \in DOMAIN messages /\ task[k].msg # 0
      /\ task[k].id \in Ids /\ task[k].sub \in DOMAIN asked
  BY <1>1, RecordTypes, AskedTypes DEF RecordOK
<1> QED
  BY <1>1, <1>2 DEF Deliver, Store, Gone

LEMMA GotTypes ==
    ASSUME StateOK, Next
    PROVE  got' \subseteq Frames'
<1>1. got \subseteq Frames /\ Frames \subseteq Frames'
  BY GrowsTypes DEF StateOK, DataOK
<1>2. ASSUME NEW k \in Tasks, Deliver(k) PROVE got' \subseteq Frames'
  <2>1. <<task[k].msg, task[k].id, task[k].sub>> \in Frames
    BY <1>2, DeliverTo DEF Frames
  <2> QED
    BY <1>1, <1>2, <2>1, DeliverTo
<1> QED
  BY <1>1, <1>2, GotSteps

LEMMA OutTypes ==
    ASSUME StateOK, Next
    PROVE  /\ ready' \subseteq DOMAIN asked' /\ flushed' \subseteq DOMAIN messages'
           /\ late' \subseteq DOMAIN messages' /\ claims' \subseteq (DOMAIN messages') \X Ids
<1>1. /\ ready \subseteq DOMAIN asked /\ flushed \subseteq DOMAIN messages /\ late \subseteq DOMAIN messages
      /\ claims \subseteq (DOMAIN messages) \X Ids
      /\ DOMAIN asked \subseteq DOMAIN asked' /\ DOMAIN messages \subseteq DOMAIN messages'
  BY GrowsTypes DEF StateOK, DataOK
<1>2. ready' \subseteq DOMAIN asked'
  <2>1. ASSUME NEW k \in Tasks, RowDone(k) PROVE ready' \subseteq DOMAIN asked'
    <3>1. \/ ready' = ready
          \/ task[k].pc = "adding" /\ ready' = ready \cup {task[k].sub}
      BY <2>1, RowDoneTo
    <3>2. task[k].pc = "adding" => task[k].sub \in DOMAIN asked
      BY RecordTypes, AskedTypes DEF RecordOK
    <3> QED
      BY <1>1, <3>1, <3>2
  <2> QED
    BY <1>1, <2>1, ReadySteps
<1>3. flushed' \subseteq DOMAIN messages'
  <2>1. ASSUME NEW k \in Tasks, PageDone(k) PROVE flushed' \subseteq DOMAIN messages'
    <3>1. task[k].pc = "targets" => task[k].msg \in DOMAIN messages
      BY RecordTypes DEF RecordOK
    <3> QED
      BY <1>1, <2>1, <3>1, PageDoneTo
  <2> QED
    BY <1>1, <2>1, FlushedSteps
<1>4. late' \subseteq DOMAIN messages'
  <2>1. ASSUME NEW t \in Topics, Publish(t) PROVE late' \subseteq DOMAIN messages'
    <3>1. Len(messages) + 1 \in DOMAIN messages'
      BY <2>1, PublishGrows, AskedTypes
    <3>2. late' \subseteq late \cup {Len(messages) + 1}
      BY <2>1 DEF Publish
    <3> QED
      BY <1>1, <3>1, <3>2
  <2> QED
    BY <1>1, <2>1, LateSteps
<1>5. claims' \subseteq (DOMAIN messages') \X Ids
  <2>1. ASSUME NEW k \in Tasks, Claim(k) PROVE claims' \subseteq (DOMAIN messages') \X Ids
    <3>1. PICK target \in task[k].targets :
             task[k].pc = "targets" /\ claims' = claims \cup {<<task[k].msg, target[1]>>}
      BY <2>1, ClaimTo
    <3>2. task[k].msg \in DOMAIN messages
      BY <3>1, RecordTypes DEF RecordOK
    <3>3. target \in Ids \X (DOMAIN asked)
      BY RecordTypes
    <3> QED
      BY <1>1, <3>1, <3>2, <3>3
  <2>2. ASSUME NEW k \in Tasks, RowFails(k) \/ SendFails(k) PROVE claims' \subseteq claims
    BY <2>2 DEF RowFails, SendFails, Release
  <2> QED
    BY <1>1, <2>1, <2>2, ClaimsSteps
<1> QED
  BY <1>2, <1>3, <1>4, <1>5

Excusable == {"reuse", "crossed", "overtaken", "row", "send", "crash", "drift", "lostBye"}

LEMMA CleanupExcuses ==
    ASSUME NEW k, BeginCleanup(k), excuses \subseteq Excusable
    PROVE  excuses' \subseteq Excusable
BY DEF BeginCleanup, Excuse, Crossed, Excusable

LEMMA FollowsExcuses == ASSUME NEW k, NEW id PROVE Follows(k, id) \subseteq {"crossed"}
BY DEF Follows, Crossed

LEMMA ExcusesTypes ==
    ASSUME StateOK, Next
    PROVE  excuses' \subseteq Excusable
<1>1. excuses \subseteq Excusable
  BY DEF StateOK, DataOK, Excusable
<1>2. ASSUME NEW k \in Tasks, Capture(k) PROVE excuses' \subseteq Excusable
  BY <1>1, <1>2 DEF Capture, Excuse, Crossed, Excusable
<1>3. ASSUME NEW k \in Tasks, Reply(k) PROVE excuses' \subseteq Excusable
  <2>1. CASE BeginCleanup(k)
    BY <1>1, <2>1, CleanupExcuses
  <2>2. CASE excuses' = excuses \/ Excuse(Reuse(task[k].id, {})) \/ Excuse({"send"})
    BY <1>1, <2>2 DEF Excuse, Reuse, Excusable
  <2> QED
    BY <1>3, <2>1, <2>2, ReplyTo
<1>4. ASSUME NEW k \in Tasks, Deliver(k) PROVE excuses' \subseteq Excusable
  <2>1. CASE BeginCleanup(k)
    BY <1>1, <2>1, CleanupExcuses
  <2> QED
    BY <1>1, <1>4, <2>1, DeliverTo
<1>5. ASSUME NEW k \in Tasks, Disconnected(k) PROVE excuses' \subseteq Excusable
  BY <1>1, <1>5, CleanupExcuses DEF Disconnected
<1>6. ASSUME NEW k \in Tasks, RowFails(k) \/ Crash(k) \/ Drift(k) PROVE excuses' \subseteq Excusable
  BY <1>1, <1>6 DEF RowFails, Crash, Drift, Excuse, Excusable
<1>7. ASSUME NEW k \in Tasks, NEW id, Complete(k, id) PROVE excuses' \subseteq Excusable
  BY <1>1, <1>7, FollowsExcuses DEF Complete, Excuse, Excusable
<1>8. ASSUME NEW k \in Tasks, NEW id, NEW topics, Subscribe(k, id, topics)
      PROVE  excuses' \subseteq Excusable
  BY <1>1, <1>8, FollowsExcuses DEF Subscribe, Excuse, Reuse, Excusable
<1>9. ASSUME NEW k \in Tasks, NEW id, AnswerInline(k, id) PROVE excuses' \subseteq Excusable
  BY <1>1, <1>9, FollowsExcuses DEF AnswerInline, Excuse, Excusable
<1>10. CASE ByeLost
  BY <1>1, <1>10 DEF ByeLost, Excuse, Excusable
<1> QED
  BY <1>1, <1>2, <1>3, <1>4, <1>5, <1>6, <1>7, <1>8, <1>9, <1>10, ExcusesSteps

LEMMA EdgeTypes ==
    ASSUME StateOK, Next
    PROVE  /\ socket' \in {"open", "closed"} /\ bye' \in BOOLEAN
           /\ faults' \in 0..MaxFaults /\ starts' \in 0..MaxStarts
<1>1. socket' \in {"open", "closed"}
  BY SocketSteps DEF ClientCloses, StateOK, DataOK
<1>2. bye' \in BOOLEAN
  <2>1. bye' = bye \/ bye' = TRUE \/ bye' = FALSE
    BY ByeSteps DEF ClientCloses, ByeLost, Disconnected
  <2> QED
    BY <2>1 DEF StateOK, DataOK
<1>3. faults' \in 0..MaxFaults
  <2>1. faults' = faults \/ \E f \in FaultKinds : Fault(f)
    <3>1. ASSUME NEW k \in Tasks, Reply(k) PROVE faults' = faults \/ Fault("send")
      BY <3>1, ReplyTo
    <3>2. ASSUME NEW k \in Tasks, RowFails(k) \/ Crash(k) \/ SendFails(k) \/ Drift(k)
          PROVE  Fault("row") \/ Fault("crash") \/ Fault("send") \/ Fault("drift")
      BY <3>2 DEF RowFails, Crash, SendFails, Drift
    <3>3. ByeLost => Fault("lostBye")
      BY DEF ByeLost
    <3> QED
      BY <3>1, <3>2, <3>3, FaultsSteps DEF FaultKinds
  <2>2. faults' = faults \/ (faults < MaxFaults /\ faults' = faults + 1)
    BY <2>1 DEF Fault
  <2> QED
    BY <2>2, SubscriptionsAssumption DEF StateOK, DataOK
<1>4. starts' \in 0..MaxStarts
  <2>1. starts' = starts \/ (starts < MaxStarts /\ starts' = starts + 1)
    BY StartsSteps DEF Complete, Subscribe, AnswerInline, Frame
  <2> QED
    BY <2>1, SubscriptionsAssumption DEF StateOK, DataOK
<1> QED
  BY <1>1, <1>2, <1>3, <1>4

LEMMA DataNext == ASSUME StateOK, Next PROVE DataOK'
<1>1. asked' \in Seq(Frame0) /\ messages' \in Seq(Topics)
  BY SeqsNext
<1>2. rows' \in [Keys -> Subs'] /\ live' \in [Ids -> Subs']
  BY RowsTypes, LiveTypes
<1>3. owed' \subseteq Frames' /\ got' \subseteq Frames'
  BY OwedTypes, GotTypes
<1> QED
  BY <1>1, <1>2, <1>3, OutTypes, ExcusesTypes, EdgeTypes DEF DataOK, Frame0, Excusable

-----------------------------------------------------------------------------
(* What a step leaves of the invocations                                    *)

LEMMA RecTypes ==
    ASSUME NEW pc \in TaskPcs, NEW id \in Ids \cup {0}, NEW sub \in Subs',
           NEW msg \in {0} \cup DOMAIN messages', NEW cursor \in 0..End,
           NEW targets \in SUBSET (Ids \X (DOMAIN asked')), NEW sweep \in 0..NIds,
           NEW todo \in SUBSET Ops'
    PROVE  Rec(pc, id, sub, msg, cursor, targets, sweep, {}, todo) \in TaskRecords'
BY DEF Rec, TaskRecords

\* The types of a record's fields are still theirs in the next state.
LEMMA FieldsNext ==
    ASSUME StateOK, Next, NEW k \in Tasks
    PROVE  /\ task[k].id \in Ids \cup {0} /\ task[k].sub \in Subs'
           /\ task[k].msg \in {0} \cup DOMAIN messages' /\ task[k].cursor \in 0..End
           /\ task[k].targets \in SUBSET (Ids \X (DOMAIN asked')) /\ task[k].sweep \in 0..NIds
           /\ task[k].todo \in SUBSET Ops' /\ {} \in SUBSET Ops'
           /\ 0 \in Subs' /\ 0 \in 0..End /\ 0 \in 0..NIds /\ TaskRecords \subseteq TaskRecords'
           /\ Idle \in TaskRecords'
<1>1. Subs \subseteq Subs' /\ 0 \in Subs' /\ DOMAIN asked \subseteq DOMAIN asked'
      /\ DOMAIN messages \subseteq DOMAIN messages'
  BY GrowsTypes
<1>2. Ops \subseteq Ops'
  BY <1>1 DEF Ops
<1>3. 0 \in 0..End /\ 0 \in 0..NIds
  BY SubscriptionsAssumption DEF End
<1>4. TaskRecords \subseteq TaskRecords'
  BY <1>1, <1>2 DEF TaskRecords
<1>5. Idle \in TaskRecords'
  BY <1>1, <1>3 DEF TaskRecords, Idle, TaskPcs
<1> QED
  BY <1>1, <1>2, <1>3, <1>4, <1>5, RecordTypes

\* It is enough to look at the invocation that moves.
LEMMA TurnTypes ==
    ASSUME StateOK, Next, NEW k \in Tasks, NEW r, Turned(k, r), r \in TaskRecords',
           RecordOK(task[k])'
    PROVE  TasksOK'
<1>1. task'[k] \in TaskRecords'
  BY DEF Turned
<1>2. ASSUME NEW q \in Tasks \ {k} PROVE task'[q] \in TaskRecords' /\ RecordOK(task[q])'
  <2>1. task'[q] = task[q] /\ task[q] \in TaskRecords /\ RecordOK(task[q])
    BY DEF Turned, StateOK, TasksOK
  <2>2. task[q].pc \in {"capture", "adding"} => asked'[task[q].sub].id = task[q].id
    <3>1. task[q].pc \in {"capture", "adding"} =>
            task[q].sub \in DOMAIN asked /\ asked[task[q].sub].id = task[q].id
      BY <2>1, RecordTypes, AskedTypes DEF RecordOK
    <3> QED
      BY <3>1, SeqsNext DEF Grows
  <2>3. RecordOK(task[q])'
    BY <2>1, <2>2 DEF RecordOK, Idle
  <2> QED
    BY <2>1, <2>3, FieldsNext
<1> QED
  BY <1>1, <1>2 DEF Turned, TasksOK

LEMMA StayTypes == ASSUME StateOK, Next, task' = task PROVE TasksOK'
<1>1. ASSUME NEW q \in Tasks PROVE task'[q] \in TaskRecords' /\ RecordOK(task[q])'
  <2>1. task'[q] = task[q] /\ task[q] \in TaskRecords /\ RecordOK(task[q])
    BY DEF StateOK, TasksOK
  <2>2. task[q].pc \in {"capture", "adding"} => asked'[task[q].sub].id = task[q].id
    <3>1. task[q].pc \in {"capture", "adding"} =>
            task[q].sub \in DOMAIN asked /\ asked[task[q].sub].id = task[q].id
      BY <2>1, RecordTypes, AskedTypes DEF RecordOK
    <3> QED
      BY <3>1, SeqsNext DEF Grows
  <2>3. RecordOK(task[q])'
    BY <2>1, <2>2 DEF RecordOK, Idle
  <2> QED
    BY <2>1, <2>3, FieldsNext
<1> QED
  BY <1>1 DEF TasksOK, StateOK

LEMMA IdleTypes ==
    ASSUME StateOK, Next, NEW k \in Tasks, Turned(k, Idle)
    PROVE  TasksOK'
<1>1. RecordOK(task[k])'
  BY DEF Turned, RecordOK, Idle
<1> QED
  BY <1>1, TurnTypes, FieldsNext

LEMMA EndsTypes ==
    ASSUME StateOK, Next, NEW k \in Tasks, Ends(k)
    PROVE  TasksOK'
<1>1. CASE task[k].msg = 0
  BY <1>1, IdleTypes DEF Ends
<1>2. CASE task[k].msg # 0
  <2>1. PICK r : r = Rec("targets", task[k].id, task[k].sub, task[k].msg, task[k].cursor,
                         task[k].targets, 0, {}, {})
    OBVIOUS
  <2>2. Turned(k, r)
    BY <1>2, <2>1 DEF Ends
  <2>3. r \in TaskRecords'
    BY <2>1, FieldsNext, RecTypes DEF TaskPcs
  <2>4. RecordOK(task[k])'
    BY <1>2, <2>1, <2>2 DEF Turned, RecordOK, Rec
  <2> QED
    BY <2>2, <2>3, <2>4, TurnTypes
<1> QED
  BY <1>1, <1>2

\* The fields of an invocation that goes on.
LEMMA GoesFields ==
    ASSUME NEW k, NEW pc, NEW todo, Goes(k, pc, todo)
    PROVE  /\ task'[k].pc = pc /\ task'[k].id = task[k].id /\ task'[k].sub = task[k].sub
           /\ task'[k].msg = task[k].msg /\ task'[k].cursor = task[k].cursor
           /\ task'[k].targets = task[k].targets /\ task'[k].sweep = task[k].sweep
           /\ task'[k].mode = {} /\ task'[k].todo = todo
           /\ \A q \in Tasks \ {k} : task'[q] = task[q]
BY DEF Goes, Turned, Rec

LEMMA GoesTypes ==
    ASSUME StateOK, Next, NEW k \in Tasks, NEW pc \in TaskPcs, NEW todo \in SUBSET Ops',
           Goes(k, pc, todo), RecordOK(task[k])'
    PROVE  TasksOK'
<1>1. PICK r : r = Rec(pc, task[k].id, task[k].sub, task[k].msg, task[k].cursor,
                       task[k].targets, task[k].sweep, {}, todo)
  OBVIOUS
<1>2. Turned(k, r)
  BY <1>1 DEF Goes
<1>3. r \in TaskRecords'
  BY <1>1, FieldsNext, RecTypes
<1> QED
  BY <1>2, <1>3, TurnTypes

\* The row operations of a registry call are row operations.
LEMMA OpsTypes ==
    ASSUME StateOK, Next, NEW id \in Ids
    PROVE  /\ DeleteRows(id) \in SUBSET Ops
           /\ \A n \in Subs, topics \in SUBSET Topics : PutRows(id, n, topics) \in SUBSET Ops
           /\ Ops \subseteq Ops'
<1>1. 0 \in Subs /\ Subs \subseteq Subs'
  BY GrowsTypes, AskedTypes
<1>2. Rev(id) \in Keys /\ \A t \in Topics : Fwd(t, id) \in Keys
  BY DEF Rev, Fwd, Keys
<1>3. rows[Rev(id)] \in Subs
  BY <1>2 DEF StateOK, DataOK
<1>4. DeleteRows(id) \in SUBSET Ops
  <2>1. <<Rev(id), 0>> \in Ops /\ \A t \in Topics : <<Fwd(t, id), 0>> \in Ops
    BY <1>1, <1>2 DEF Ops
  <2>2. rows[Rev(id)] # 0 => asked[rows[Rev(id)]].topics \subseteq Topics
    BY <1>3, AskedTypes
  <2> QED
    BY <2>1, <2>2 DEF DeleteRows
<1>5. ASSUME NEW n \in Subs, NEW topics \in SUBSET Topics PROVE PutRows(id, n, topics) \in SUBSET Ops
  <2>1. <<Rev(id), n>> \in Ops /\ \A t \in Topics : <<Fwd(t, id), n>> \in Ops
    BY <1>2 DEF Ops
  <2> QED
    BY <2>1 DEF PutRows
<1>6. Ops \subseteq Ops'
  BY <1>1 DEF Ops
<1> QED
  BY <1>4, <1>5, <1>6

LEMMA FoundTypes ==
    ASSUME StateOK, Next, NEW k \in Tasks
    PROVE  Found(k) \in SUBSET Ops' /\ After(PageOf("rev", task[k].sweep)) \in 1..End
<1>1. task[k].todo \subseteq Ops' /\ task[k].sweep \in Nat
  BY FieldsNext, SubscriptionsAssumption
<1>2. PageOf("rev", task[k].sweep) \subseteq Ids /\ After(PageOf("rev", task[k].sweep)) \in 1..End
  BY <1>1, PageFacts
<1>3. \A id \in PageOf("rev", task[k].sweep) : DeleteRows(id) \subseteq Ops'
  BY <1>2, OpsTypes
<1> QED
  BY <1>1, <1>2, <1>3 DEF Found

\* One page of a topic's forward rows, and where the next one goes on.
LEMMA PageTargets ==
    ASSUME StateOK, NEW t \in Topics, NEW cursor \in Nat
    PROVE  /\ {x[1] : x \in PageByTopic(t, cursor)} = PageOf(t, cursor)
           /\ PageByTopic(t, cursor) \subseteq Ids \X (DOMAIN asked)
           /\ After(PageOf(t, cursor)) \in 1..End
           /\ \A id \in Ids : id > cursor /\ rows[Fwd(t, id)] # 0 =>
                \/ <<id, rows[Fwd(t, id)]>> \in PageByTopic(t, cursor)
                \/ id > After(PageOf(t, cursor))
           /\ \A x \in PageByTopic(t, cursor) : x[1] \in Ids /\ x[2] = rows[Fwd(t, x[1])]
<1>1. PICK page : page = PageOf(t, cursor)
  OBVIOUS
<1>2. /\ page \subseteq Ids /\ \A id \in page : rows[Fwd(t, id)] # 0
      /\ After(page) \in 1..End
      /\ \A id \in Ids : id > cursor /\ rows[Fwd(t, id)] # 0 => id \in page \/ id > After(page)
  BY <1>1, PageFacts DEF Fwd
<1>3. PageByTopic(t, cursor) = {<<id, rows[Fwd(t, id)]>> : id \in page}
  BY <1>1 DEF PageByTopic
<1>4. {x[1] : x \in PageByTopic(t, cursor)} = page
  <2>1. ASSUME NEW id \in page PROVE id \in {x[1] : x \in PageByTopic(t, cursor)}
    <3>1. PICK x : x = <<id, rows[Fwd(t, id)]>>
      OBVIOUS
    <3>2. x \in PageByTopic(t, cursor) /\ x[1] = id
      BY <1>3, <3>1
    <3> QED
      BY <3>2
  <2>2. ASSUME NEW x \in PageByTopic(t, cursor) PROVE x[1] \in page
    BY <1>3
  <2> QED
    BY <2>1, <2>2
<1>5. ASSUME NEW id \in page PROVE <<id, rows[Fwd(t, id)]>> \in Ids \X (DOMAIN asked)
  <2>1. rows[Fwd(t, id)] \in Subs
    BY <1>2 DEF StateOK, DataOK, Fwd, Keys
  <2> QED
    BY <1>2, <2>1, AskedTypes
<1> QED
  BY <1>1, <1>2, <1>3, <1>4, <1>5

\* An invocation that moves to a record that has what it needs.
LEMMA RecNext ==
    ASSUME StateOK, Next, NEW k \in Tasks,
           NEW pc \in TaskPcs \ {"idle"}, NEW id \in Ids \cup {0}, NEW sub \in Subs',
           NEW msg \in {0} \cup DOMAIN messages', NEW cursor \in 0..End,
           NEW targets \in SUBSET (Ids \X (DOMAIN asked')), NEW sweep \in 0..NIds,
           NEW todo \in SUBSET Ops',
           Turned(k, Rec(pc, id, sub, msg, cursor, targets, sweep, {}, todo)),
           pc \in {"capture", "adding"} => id # 0 /\ sub # 0 /\ msg = 0 /\ asked'[sub].id = id,
           pc \in {"lookup", "removing", "replay"} => id # 0,
           pc \in {"page", "targets", "replay"} => msg # 0,
           pc = "replay" => sub # 0,
           pc \notin {"adding", "removing", "owned", "clearing"} => todo = {},
           pc \notin {"owned", "clearing"} => sweep = 0
    PROVE  TasksOK'
<1>1. PICK r : r = Rec(pc, id, sub, msg, cursor, targets, sweep, {}, todo)
  OBVIOUS
<1>2. Turned(k, r) /\ task'[k] = r
  BY <1>1 DEF Turned
<1>3. r \in TaskRecords'
  BY <1>1, RecTypes
<1>4. /\ r.pc = pc /\ r.id = id /\ r.sub = sub /\ r.msg = msg /\ r.mode = {} /\ r.todo = todo
      /\ r.sweep = sweep
  BY <1>1, RecFields
<1>5. RecordOK(task[k])'
  BY <1>2, <1>4 DEF RecordOK
<1> QED
  BY <1>2, <1>3, <1>5, TurnTypes

\* An invocation that goes on with what it has.
LEMMA GoNext ==
    ASSUME StateOK, Next, NEW k \in Tasks, NEW pc \in TaskPcs \ {"idle"}, NEW todo \in SUBSET Ops',
           Goes(k, pc, todo),
           pc \in {"capture", "adding"} => task[k].pc \in {"capture", "adding"},
           pc \in {"lookup", "removing", "replay"} => task[k].pc \in {"lookup", "removing", "replay"},
           pc \in {"page", "targets", "replay"} => task[k].pc \in {"page", "targets", "replay"},
           pc = "replay" => task[k].pc = "replay",
           pc \notin {"adding", "removing", "owned", "clearing"} => todo = {},
           pc \notin {"owned", "clearing"} => task[k].pc \notin {"owned", "clearing"}
    PROVE  TasksOK'
<1>1. RecordOK(task[k])
  BY RecordTypes
<1>2. /\ task[k].id \in Ids \cup {0} /\ task[k].sub \in Subs'
      /\ task[k].msg \in {0} \cup DOMAIN messages' /\ task[k].cursor \in 0..End
      /\ task[k].targets \in SUBSET (Ids \X (DOMAIN asked')) /\ task[k].sweep \in 0..NIds
  BY FieldsNext
<1>3. task[k].pc \in {"capture", "adding"} => asked'[task[k].sub].id = task[k].id
  <2>1. task[k].pc \in {"capture", "adding"} =>
          task[k].sub \in DOMAIN asked /\ asked[task[k].sub].id = task[k].id
    BY <1>1, RecordTypes, AskedTypes DEF RecordOK
  <2> QED
    BY <2>1, SeqsNext DEF Grows
<1>4. PICK i, s, m, c, ts, w : /\ i = task[k].id /\ s = task[k].sub /\ m = task[k].msg
                              /\ c = task[k].cursor /\ ts = task[k].targets /\ w = task[k].sweep
  OBVIOUS
<1>5. Turned(k, Rec(pc, i, s, m, c, ts, w, {}, todo))
  BY <1>4 DEF Goes
<1>6. /\ pc \in {"capture", "adding"} => i # 0 /\ s # 0 /\ m = 0 /\ asked'[s].id = i
      /\ pc \in {"lookup", "removing", "replay"} => i # 0
      /\ pc \in {"page", "targets", "replay"} => m # 0
      /\ pc = "replay" => s # 0
      /\ pc \notin {"owned", "clearing"} => w = 0
  BY <1>1, <1>3, <1>4 DEF RecordOK
<1>7. /\ i \in Ids \cup {0} /\ s \in Subs' /\ m \in {0} \cup DOMAIN messages' /\ c \in 0..End
      /\ ts \in SUBSET (Ids \X (DOMAIN asked')) /\ w \in 0..NIds
  BY <1>2, <1>4
<1> QED
  BY <1>5, <1>6, <1>7, RecNext

\* What a failed call, or a container that dies, leaves of the invocation.
LEMMA GivesUp ==
    ASSUME StateOK, NEW k \in Tasks, RowFails(k) \/ Crash(k) \/ SendFails(k)
    PROVE  Turned(k, Idle) \/ (Ends(k) /\ RowFails(k) /\ task[k].pc \in {"owned", "clearing"})
<1>1. CASE RowFails(k)
  BY <1>1, BecomesIdle, ReturnedIs DEF RowFails
<1>2. CASE Crash(k) \/ SendFails(k)
  BY <1>2, BecomesIdle DEF Crash, SendFails
<1> QED
  BY <1>1, <1>2

LEMMA DriftTo ==
    ASSUME StateOK, NEW k \in Tasks, Drift(k)
    PROVE  /\ task[k].pc = "replay" /\ task[k].todo = {} /\ "drift" \in excuses'
           /\ \/ Goes(k, "lookup", {})
              \/ NextTarget(k)
<1>1. task[k].pc = "replay"
  BY DEF Drift, At
<1>2. task[k].todo = {}
  BY <1>1, RecordTypes DEF RecordOK
<1> QED
  BY <1>1, <1>2, GoesTo DEF Drift, Excuse

LEMMA DisconnectedTo ==
    ASSUME StateOK, NEW k \in Tasks, Disconnected(k)
    PROVE  /\ task[k] = Idle /\ bye /\ ~bye' /\ Goes(k, "owned", {})
           /\ excuses' = excuses \cup
                (Crossed(k, Ids) \cup (IF \E q \in Tasks : At(q, "capture") THEN {"overtaken"} ELSE {}))
<1>1. At(k, "idle") /\ BeginCleanup(k) /\ bye /\ ~bye'
  BY DEF Disconnected
<1>2. task[k] = Idle
  BY <1>1, IdleTask
<1>3. task[k].todo = {}
  BY <1>2 DEF Idle
<1> QED
  BY <1>1, <1>2, <1>3, BeginCleanupTo

\* A 410 or a $disconnect sends the invocation off to removeAll.
LEMMA CleanupTypes ==
    ASSUME StateOK, Next, NEW k \in Tasks, Goes(k, "owned", {})
    PROVE  TasksOK'
BY GoNext, FieldsNext DEF TaskPcs

LEMMA NextTargetTypes ==
    ASSUME StateOK, Next, NEW k \in Tasks, task[k].pc = "replay", NextTarget(k)
    PROVE  TasksOK'
<1>1. /\ task[k].msg # 0 /\ task[k].todo = {} /\ task[k].sweep = 0
  BY RecordTypes DEF RecordOK
<1>2. PICK m, c, ts : m = task[k].msg /\ c = task[k].cursor /\ ts = task[k].targets
  OBVIOUS
<1>3. Turned(k, Rec("targets", 0, 0, m, c, ts, 0, {}, {}))
  BY <1>1, <1>2, NextTargetTo
<1>4. /\ m \in {0} \cup DOMAIN messages' /\ c \in 0..End /\ m # 0
      /\ ts \in SUBSET (Ids \X (DOMAIN asked'))
  BY <1>1, <1>2, FieldsNext
<1>5. "targets" \in TaskPcs \ {"idle"} /\ 0 \in 0..NIds /\ {} \in SUBSET Ops' /\ 0 \in Subs'
  BY FieldsNext DEF TaskPcs
<1> QED
  BY <1>3, <1>4, <1>5, RecNext

LEMMA FrameTypes ==
    ASSUME StateOK, Next, NEW k \in Tasks
    PROVE  /\ \A id \in Ids \cup {0} : AnswerInline(k, id) => TasksOK'
           /\ \A id \in Ids, topics \in SUBSET Topics : Subscribe(k, id, topics) => TasksOK'
           /\ \A id \in Ids : Complete(k, id) => TasksOK'
<1>1. \A id \in Ids : id # 0
  BY DEF Ids
<1>2. ASSUME NEW id \in Ids \cup {0}, AnswerInline(k, id) PROVE TasksOK'
  BY <1>2, AnswerInlineTo, FieldsNext, RecNext DEF TaskPcs
<1>3. ASSUME NEW id \in Ids, NEW topics \in SUBSET Topics, Subscribe(k, id, topics) PROVE TasksOK'
  <2>1. PICK n : n = Len(asked) + 1
    OBVIOUS
  <2>2. Turned(k, Rec("capture", id, n, 0, 0, {}, 0, {}, {}))
    BY <1>3, <2>1, SubscribeTo
  <2>3. n \in Subs' /\ n # 0 /\ asked'[n].id = id
    <3>1. n \in 1..(Len(asked) + 1) /\ n # 0
      BY <2>1, AskedTypes
    <3>2. DOMAIN asked' = 1..(Len(asked) + 1)
      BY <1>3, SubscribeGrows
    <3>3. asked'[n] = [id |-> id, wants |-> topics, topics |-> {}]
      BY <1>3, <2>1, SubscribeGrows
    <3> QED
      BY <3>1, <3>2, <3>3, GrowsTypes
  <2> QED
    BY <1>1, <2>2, <2>3, FieldsNext, RecNext DEF TaskPcs
<1>4. ASSUME NEW id \in Ids, Complete(k, id) PROVE TasksOK'
  BY <1>1, <1>4, CompleteTo, FieldsNext, RecNext DEF TaskPcs
<1> QED
  BY <1>2, <1>3, <1>4

LEMMA WorkTypes ==
    ASSUME StateOK, Next, NEW k \in Tasks
    PROVE  /\ Capture(k) \/ Reply(k) \/ LookedUp(k) \/ Owned(k) \/ RowDone(k) => TasksOK'
           /\ FanoutPage(k) \/ Claim(k) \/ Deliver(k) \/ PageDone(k) => TasksOK'
<1>1. ASSUME Capture(k) PROVE TasksOK'
  <2>1. PICK w : w = asked[task[k].sub].wants
    OBVIOUS
  <2>2. task[k].pc = "capture" /\ (Goes(k, "reply", {}) \/ Goes(k, "adding", PutRows(task[k].id, task[k].sub, w)))
    BY <1>1, <2>1, CaptureTo
  <2>3. task[k].id \in Ids /\ task[k].sub \in DOMAIN asked /\ task[k].sub \in Subs
    BY <2>2, RecordTypes, AskedTypes DEF RecordOK
  <2>4. PICK ops : ops = PutRows(task[k].id, task[k].sub, w)
    OBVIOUS
  <2>5. ops \in SUBSET Ops'
    BY <2>1, <2>3, <2>4, OpsTypes, AskedTypes
  <2>6. Goes(k, "reply", {}) => TasksOK'
    BY <2>2, GoNext, FieldsNext DEF TaskPcs
  <2>7. Goes(k, "adding", ops) => TasksOK'
    BY <2>2, <2>5, GoNext DEF TaskPcs
  <2> QED
    BY <2>2, <2>4, <2>6, <2>7
<1>2. ASSUME Reply(k) PROVE TasksOK'
  BY <1>2, ReplyTo, IdleTypes, BeginCleanupTo, CleanupTypes
<1>3. ASSUME LookedUp(k) PROVE TasksOK'
  <2>1. PICK ops : ops = DeleteRows(task[k].id)
    OBVIOUS
  <2>2. task[k].pc = "lookup" /\ Goes(k, "removing", ops)
    BY <1>3, <2>1, LookedUpTo
  <2>3. task[k].id \in Ids
    BY <2>2, RecordTypes DEF RecordOK
  <2>4. ops \in SUBSET Ops'
    BY <2>1, <2>3, OpsTypes
  <2> QED
    BY <2>2, <2>4, GoNext DEF TaskPcs
<1>4. ASSUME Owned(k) PROVE TasksOK'
  <2>1. PICK next : next = After(PageOf("rev", task[k].sweep))
    OBVIOUS
  <2>2. PICK ops : ops = Found(k)
    OBVIOUS
  <2>3. ops \in SUBSET Ops' /\ next \in 1..End
    BY <2>1, <2>2, FoundTypes
  <2>4. /\ task[k].pc = "owned"
        /\ next # End => Turned(k, Rec("owned", task[k].id, task[k].sub, task[k].msg,
                                       task[k].cursor, task[k].targets, next, {}, ops))
        /\ next = End => Ends(k) \/ Goes(k, "clearing", ops)
    BY <1>4, <2>1, <2>2, OwnedTo
  <2>5. CASE next # End
    <3>1. next \in 0..NIds
      BY <2>3, <2>5, SubscriptionsAssumption DEF End
    <3>2. PICK i, s, m, c, ts : /\ i = task[k].id /\ s = task[k].sub /\ m = task[k].msg
                              /\ c = task[k].cursor /\ ts = task[k].targets
      OBVIOUS
    <3>3. Turned(k, Rec("owned", i, s, m, c, ts, next, {}, ops))
      BY <2>4, <2>5, <3>2
    <3>4. /\ i \in Ids \cup {0} /\ s \in Subs' /\ m \in {0} \cup DOMAIN messages' /\ c \in 0..End
          /\ ts \in SUBSET (Ids \X (DOMAIN asked'))
      BY <3>2, FieldsNext
    <3> QED
      BY <2>3, <3>1, <3>3, <3>4, RecNext DEF TaskPcs
  <2>6. Goes(k, "clearing", ops) => TasksOK'
    BY <2>3, <2>4, GoNext DEF TaskPcs
  <2> QED
    BY <2>4, <2>5, <2>6, EndsTypes
<1>5. ASSUME RowDone(k) PROVE TasksOK'
  <2>1. PICK op \in task[k].todo :
           /\ task[k].pc \in {"adding", "removing", "clearing"}
           /\ Ends(k) \/ Goes(k, task[k].pc, task[k].todo \ {op})
    BY <1>5, RowDoneTo
  <2>2. PICK pc, ops : pc = task[k].pc /\ ops = task[k].todo \ {op}
    OBVIOUS
  <2>3. ops \in SUBSET Ops' /\ pc \in {"adding", "removing", "clearing"}
    BY <2>1, <2>2, FieldsNext
  <2>4. Goes(k, pc, ops) => TasksOK'
    BY <2>2, <2>3, GoNext DEF TaskPcs
  <2> QED
    BY <2>1, <2>2, <2>4, EndsTypes
<1>6. ASSUME FanoutPage(k) PROVE TasksOK'
  <2>1. task[k].pc = "page" /\ task[k].msg # 0 /\ task[k].todo = {} /\ task[k].sweep = 0
    BY <1>6, FanoutPageTo, RecordTypes DEF RecordOK
  <2>2. PICK t : t = messages[task[k].msg]
    OBVIOUS
  <2>3. t \in Topics /\ task[k].cursor \in Nat
    BY <2>1, <2>2, RecordTypes, AskedTypes, SubscriptionsAssumption DEF End
  <2>4. PICK page : page = PageByTopic(t, task[k].cursor)
    OBVIOUS
  <2>5. PICK next : next = After({x[1] : x \in page})
    OBVIOUS
  <2>6. page \subseteq Ids \X (DOMAIN asked) /\ next \in 1..End
    BY <2>3, <2>4, <2>5, PageTargets
  <2>7. page \in SUBSET (Ids \X (DOMAIN asked')) /\ next \in 0..End
    BY <2>6, GrowsTypes, SubscriptionsAssumption DEF End
  <2>8. PICK i, s, m : i = task[k].id /\ s = task[k].sub /\ m = task[k].msg
    OBVIOUS
  <2>9. Turned(k, Rec("targets", i, s, m, next, page, 0, {}, {}))
    BY <1>6, <2>1, <2>2, <2>4, <2>5, <2>8, FanoutPageTo
  <2>10. i \in Ids \cup {0} /\ s \in Subs' /\ m \in {0} \cup DOMAIN messages' /\ m # 0
    BY <2>1, <2>8, FieldsNext
  <2> QED
    BY <2>7, <2>9, <2>10, FieldsNext, RecNext DEF TaskPcs
<1>7. ASSUME Claim(k) PROVE TasksOK'
  <2>1. PICK target \in task[k].targets :
          /\ task[k].pc = "targets"
          /\ \/ Turned(k, Rec("targets", task[k].id, task[k].sub, task[k].msg, task[k].cursor,
                              task[k].targets \ {target}, task[k].sweep, {}, task[k].todo))
             \/ Turned(k, Rec("replay", target[1], target[2], task[k].msg, task[k].cursor,
                              task[k].targets \ {target}, task[k].sweep, {}, task[k].todo))
    BY <1>7, ClaimTo
  <2>2. task[k].msg # 0 /\ task[k].todo = {} /\ task[k].sweep = 0
    BY <2>1, RecordTypes DEF RecordOK
  <2>3. PICK i, s, m, c, ts, j, n :
          /\ i = task[k].id /\ s = task[k].sub /\ m = task[k].msg
          /\ c = task[k].cursor /\ ts = task[k].targets \ {target}
          /\ j = target[1] /\ n = target[2]
    OBVIOUS
  <2>4. target \in Ids \X (DOMAIN asked)
    BY RecordTypes
  <2>5. /\ i \in Ids \cup {0} /\ s \in Subs' /\ m \in {0} \cup DOMAIN messages' /\ c \in 0..End
        /\ ts \in SUBSET (Ids \X (DOMAIN asked')) /\ m # 0
    BY <2>2, <2>3, FieldsNext
  <2>6. j \in Ids \cup {0} /\ j # 0 /\ n \in Subs' /\ n # 0
    <3>1. j \in Ids /\ n \in DOMAIN asked
      BY <2>3, <2>4
    <3> QED
      BY <3>1, AskedTypes, GrowsTypes DEF Ids
  <2>7. \/ Turned(k, Rec("targets", i, s, m, c, ts, 0, {}, {}))
        \/ Turned(k, Rec("replay", j, n, m, c, ts, 0, {}, {}))
    BY <2>1, <2>2, <2>3
  <2>8. CASE Turned(k, Rec("targets", i, s, m, c, ts, 0, {}, {}))
    <3>1. "targets" \in TaskPcs \ {"idle"} /\ 0 \in 0..NIds /\ {} \in SUBSET Ops'
      BY FieldsNext DEF TaskPcs
    <3> QED
      BY <2>5, <2>8, <3>1, RecNext
  <2>9. CASE Turned(k, Rec("replay", j, n, m, c, ts, 0, {}, {}))
    BY <2>5, <2>6, <2>9, FieldsNext, RecNext DEF TaskPcs
  <2> QED
    BY <2>7, <2>8, <2>9
<1>8. ASSUME Deliver(k) PROVE TasksOK'
  BY <1>8, DeliverTo, NextTargetTypes, BeginCleanupTo, CleanupTypes
<1>9. ASSUME PageDone(k) PROVE TasksOK'
  <2>1. CASE Goes(k, "page", {})
    <3>1. task[k].pc = "targets"
      BY <1>9, PageDoneTo
    <3> QED
      BY <2>1, <3>1, GoNext, FieldsNext DEF TaskPcs
  <2> QED
    BY <1>9, <2>1, PageDoneTo, IdleTypes
<1> QED
  BY <1>1, <1>2, <1>3, <1>4, <1>5, <1>6, <1>7, <1>8, <1>9

LEMMA TasksNext == ASSUME StateOK, Next PROVE TasksOK'
<1>1. ASSUME NEW k \in Tasks, Step(k) PROVE TasksOK'
  BY <1>1, WorkTypes DEF Step
<1>2. ASSUME NEW k \in Tasks, StartFlush(k) PROVE TasksOK'
  <2>1. PICK m \in DOMAIN messages : Turned(k, Rec("page", 0, 0, m, 0, {}, 0, {}, {}))
    BY <1>2, StartFlushTo
  <2>2. m \in {0} \cup DOMAIN messages' /\ m # 0
    BY AskedTypes, GrowsTypes
  <2>3. /\ "page" \in TaskPcs \ {"idle"} /\ 0 \in 0..NIds /\ {} \in SUBSET Ops' /\ 0 \in Subs'
        /\ 0 \in 0..End /\ {} \in SUBSET (Ids \X (DOMAIN asked'))
    BY FieldsNext DEF TaskPcs
  <2> QED
    BY <2>1, <2>2, <2>3, RecNext
<1>3. ASSUME NEW k \in Tasks, Disconnected(k) PROVE TasksOK'
  BY <1>3, DisconnectedTo, CleanupTypes
<1>4. ASSUME NEW k \in Tasks, RowFails(k) \/ Crash(k) \/ SendFails(k) PROVE TasksOK'
  BY <1>4, GivesUp, IdleTypes, EndsTypes
<1>5. ASSUME NEW k \in Tasks, Drift(k) PROVE TasksOK'
  <2>1. CASE Goes(k, "lookup", {})
    <3>1. task[k].pc = "replay"
      BY <1>5, DriftTo
    <3> QED
      BY <2>1, <3>1, GoNext, FieldsNext DEF TaskPcs
  <2> QED
    BY <1>5, <2>1, DriftTo, NextTargetTypes
<1>6. ASSUME NEW t \in Topics, Publish(t) PROVE TasksOK'
  BY <1>6, StayTypes DEF Publish
<1>7. ASSUME ClientCloses \/ ByeLost PROVE TasksOK'
  BY <1>7, StayTypes DEF ClientCloses, ByeLost
<1> QED
  BY <1>1, <1>2, <1>3, <1>4, <1>5, <1>6, <1>7, FrameTypes DEF Next

LEMMA StateInit == ASSUME Init PROVE StateOK
<1>1. asked = <<>> /\ messages = <<>> /\ \A k \in Tasks : task[k] = Idle
  BY DEF Init
<1>2. DOMAIN asked = {} /\ DOMAIN messages = {} /\ Len(asked) = 0 /\ Subs = {0}
  BY <1>1 DEF Subs
<1>3. asked \in Seq([id : Ids, wants : SUBSET Topics, topics : SUBSET Topics]) /\ messages \in Seq(Topics)
  BY <1>1
<1>7. rows \in [Keys -> Subs] /\ live \in [Ids -> Subs]
  BY <1>2 DEF Init
<1>8. faults \in 0..MaxFaults /\ starts \in 0..MaxStarts
  BY SubscriptionsAssumption DEF Init
<1>9. DataOK
  BY <1>3, <1>7, <1>8 DEF Init, DataOK
<1>4. Idle \in TaskRecords
  BY <1>2, SubscriptionsAssumption DEF TaskRecords, Idle, TaskPcs, End
<1>5. RecordOK(Idle)
  BY DEF RecordOK, Idle
<1>6. TasksOK
  BY <1>1, <1>4, <1>5 DEF TasksOK, Init
<1> QED
  BY <1>6, <1>9 DEF StateOK

LEMMA StateStays == ASSUME StateOK, UNCHANGED vars PROVE StateOK'
BY DEF StateOK, vars, sockVars, clientVars, outVars, DataOK, TasksOK, RecordOK, Idle, TaskRecords,
       TaskPcs, Ops, Keys, Subs, Frames

LEMMA StateNext == ASSUME StateOK, [Next]_vars PROVE StateOK'
<1>1. CASE Next
  BY <1>1, DataNext, TasksNext DEF StateOK
<1>2. CASE UNCHANGED vars
  BY <1>2, StateStays
<1> QED
  BY <1>1, <1>2

LEMMA StateAlways == Spec => []StateOK
<1>1. Init => StateOK
  BY StateInit
<1>2. StateOK /\ [Next]_vars => StateOK'
  BY StateNext
<1> QED
  BY <1>1, <1>2, PTL DEF Spec

\* Every variable keeps its shape through every subscribe, complete, close, flush,
\* failure and crash: rows name subscribes that came, targets, claims and frames
\* name records that were published (DynamoSubscriptionRegistry's rows, the
\* Flusher's ledger, GraphQLWsHandler's frames).
THEOREM TypeCorrect == Spec => []TypeOK
<1>1. StateOK => TypeOK
  BY TypesAreOK
<1> QED
  BY <1>1, StateAlways, PTL

-----------------------------------------------------------------------------
(* The socket, what the client holds, and who flushes what                  *)

\* One step of one invocation, as far as its record and its clean-up go.
MovesTo(q) ==
    \/ task'[q] = task[q]
    \/ task'[q] = Idle
    \/ /\ task'[q].msg = task[q].msg
       /\ task'[q].pc \in {"owned", "clearing"} =>
            task[q].pc \in {"owned", "clearing"} \/ socket = "closed" \/ bye
    \/ StartFlush(q)

\* No other invocation moves.
Alone(k) == \A p \in Tasks \ {k} : task'[p] = task[p]

LEMMA TurnedMoves ==
    ASSUME NEW k \in Tasks, NEW pc, NEW id, NEW sub, NEW msg, NEW cursor, NEW targets, NEW sweep,
           NEW todo, Turned(k, Rec(pc, id, sub, msg, cursor, targets, sweep, {}, todo)),
           msg = task[k].msg,
           pc \in {"owned", "clearing"} =>
             task[k].pc \in {"owned", "clearing"} \/ socket = "closed" \/ bye
    PROVE  MovesTo(k)
BY DEF Turned, Rec, MovesTo

LEMMA GoesMoves ==
    ASSUME NEW k \in Tasks, NEW pc, NEW todo, Goes(k, pc, todo),
           pc \in {"owned", "clearing"} =>
             task[k].pc \in {"owned", "clearing"} \/ socket = "closed" \/ bye
    PROVE  MovesTo(k)
BY GoesFields DEF MovesTo

LEMMA IdleMoves == ASSUME NEW k \in Tasks, Turned(k, Idle) PROVE MovesTo(k)
BY DEF Turned, MovesTo

LEMMA EndsMoves == ASSUME NEW k \in Tasks, Ends(k) PROVE MovesTo(k)
<1>1. CASE task[k].msg = 0
  BY <1>1, IdleMoves DEF Ends
<1>2. CASE task[k].msg # 0
  BY <1>2, TurnedMoves DEF Ends
<1> QED
  BY <1>1, <1>2

LEMMA Moves ==
    ASSUME StateOK, Next, NEW q \in Tasks
    PROVE  MovesTo(q)
<1>0. Idle.msg = 0
  BY DEF Idle
<1>1. ASSUME NEW k \in Tasks, NEW id, AnswerInline(k, id) PROVE MovesTo(k) /\ Alone(k)
  <2>1. task[k].msg = 0 /\ Turned(k, Rec("reply", id, 0, 0, 0, {}, 0, {}, {}))
    BY <1>0, <1>1, AnswerInlineTo
  <2> QED
    BY <2>1, TurnedMoves DEF Turned, Alone
<1>2. ASSUME NEW k \in Tasks, NEW id, NEW topics, Subscribe(k, id, topics)
      PROVE  MovesTo(k) /\ Alone(k)
  <2>1. PICK n : Turned(k, Rec("capture", id, n, 0, 0, {}, 0, {}, {}))
    BY <1>2, SubscribeTo
  <2>2. task[k].msg = 0
    BY <1>0, <1>2, SubscribeTo
  <2> QED
    BY <2>1, <2>2, TurnedMoves DEF Turned, Alone
<1>3. ASSUME NEW k \in Tasks, NEW id, Complete(k, id) PROVE MovesTo(k) /\ Alone(k)
  <2>1. task[k].msg = 0 /\ Turned(k, Rec("lookup", id, 0, 0, 0, {}, 0, {}, {}))
    BY <1>0, <1>3, CompleteTo
  <2> QED
    BY <2>1, TurnedMoves DEF Turned, Alone
<1>4. ASSUME NEW k \in Tasks, StartFlush(k) PROVE MovesTo(k) /\ Alone(k)
  <2>1. PICK m : Turned(k, Rec("page", 0, 0, m, 0, {}, 0, {}, {}))
    BY <1>4, StartFlushTo
  <2> QED
    BY <1>4, <2>1 DEF MovesTo, Turned, Alone
<1>5. ASSUME NEW k \in Tasks, Capture(k) PROVE MovesTo(k) /\ Alone(k)
  <2>1. PICK ops : Goes(k, "reply", {}) \/ Goes(k, "adding", ops)
    BY <1>5, CaptureTo
  <2> QED
    BY <2>1, GoesMoves, GoesFields DEF Alone
<1>6. ASSUME NEW k \in Tasks, Reply(k) PROVE MovesTo(k) /\ Alone(k)
  <2>1. Turned(k, Idle) \/ (socket = "closed" /\ Goes(k, "owned", {}))
    BY <1>6, ReplyTo, BeginCleanupTo
  <2> QED
    BY <2>1, GoesMoves, GoesFields, IdleMoves DEF Turned, Alone
<1>7. ASSUME NEW k \in Tasks, LookedUp(k) PROVE MovesTo(k) /\ Alone(k)
  <2>1. PICK ops : Goes(k, "removing", ops)
    BY <1>7, LookedUpTo
  <2> QED
    BY <2>1, GoesMoves, GoesFields DEF Alone
<1>8. ASSUME NEW k \in Tasks, Owned(k) PROVE MovesTo(k) /\ Alone(k)
  <2>1. PICK next : next = After(PageOf("rev", task[k].sweep))
    OBVIOUS
  <2>2. PICK ops : ops = Found(k)
    OBVIOUS
  <2>3. /\ task[k].pc = "owned"
        /\ \/ Turned(k, Rec("owned", task[k].id, task[k].sub, task[k].msg,
                             task[k].cursor, task[k].targets, next, {}, ops))
           \/ Ends(k)
           \/ Goes(k, "clearing", ops)
    BY <1>8, <2>1, <2>2, OwnedTo
  <2>4. CASE Turned(k, Rec("owned", task[k].id, task[k].sub, task[k].msg,
                           task[k].cursor, task[k].targets, next, {}, ops))
    BY <2>3, <2>4, TurnedMoves DEF Turned, Alone
  <2>5. CASE Ends(k)
    BY <2>5, EndsMoves DEF Ends, Turned, Alone
  <2>6. CASE Goes(k, "clearing", ops)
    BY <2>3, <2>6, GoesMoves, GoesFields DEF Alone
  <2> QED
    BY <2>3, <2>4, <2>5, <2>6
<1>9. ASSUME NEW k \in Tasks, RowDone(k) PROVE MovesTo(k) /\ Alone(k)
  <2>1. PICK ops : Ends(k) \/ Goes(k, task[k].pc, ops)
    BY <1>9, RowDoneTo
  <2>2. CASE Ends(k)
    BY <2>2, EndsMoves DEF Ends, Turned, Alone
  <2>3. CASE Goes(k, task[k].pc, ops)
    BY <2>3, GoesMoves, GoesFields DEF Alone
  <2> QED
    BY <2>1, <2>2, <2>3
<1>10. ASSUME NEW k \in Tasks, FanoutPage(k) PROVE MovesTo(k) /\ Alone(k)
  <2>1. PICK next, page :
          Turned(k, Rec("targets", task[k].id, task[k].sub, task[k].msg, next, page,
                        task[k].sweep, {}, task[k].todo))
    BY <1>10, FanoutPageTo
  <2> QED
    BY <2>1, TurnedMoves DEF Turned, Alone
<1>11. ASSUME NEW k \in Tasks, Claim(k) PROVE MovesTo(k) /\ Alone(k)
  <2>1. PICK target :
          \/ Turned(k, Rec("targets", task[k].id, task[k].sub, task[k].msg, task[k].cursor,
                           task[k].targets \ {target}, task[k].sweep, {}, task[k].todo))
          \/ Turned(k, Rec("replay", target[1], target[2], task[k].msg, task[k].cursor,
                           task[k].targets \ {target}, task[k].sweep, {}, task[k].todo))
    BY <1>11, ClaimTo
  <2> QED
    BY <2>1, TurnedMoves DEF Turned, Alone
<1>12. ASSUME NEW k \in Tasks, NextTarget(k) PROVE MovesTo(k) /\ Alone(k)
  <2>1. PICK m, c, ts, w, ops : m = task[k].msg /\ Turned(k, Rec("targets", 0, 0, m, c, ts, w, {}, ops))
    BY <1>12, NextTargetTo
  <2> QED
    BY <2>1, TurnedMoves DEF Turned, Alone
<1>13. ASSUME NEW k \in Tasks, Deliver(k) PROVE MovesTo(k) /\ Alone(k)
  <2>1. NextTarget(k) \/ (socket = "closed" /\ Goes(k, "owned", {}))
    BY <1>13, DeliverTo, BeginCleanupTo
  <2> QED
    BY <2>1, <1>12, GoesMoves, GoesFields DEF Alone
<1>14. ASSUME NEW k \in Tasks, PageDone(k) PROVE MovesTo(k) /\ Alone(k)
  <2>1. Turned(k, Idle) \/ Goes(k, "page", {})
    BY <1>14, PageDoneTo
  <2> QED
    BY <2>1, GoesMoves, GoesFields, IdleMoves DEF Turned, Alone
<1>15. ASSUME NEW k \in Tasks, Disconnected(k) PROVE MovesTo(k) /\ Alone(k)
  <2>1. bye /\ Goes(k, "owned", {})
    BY <1>15, DisconnectedTo
  <2> QED
    BY <2>1, GoesMoves, GoesFields DEF Alone
<1>16. ASSUME NEW k \in Tasks, RowFails(k) \/ Crash(k) \/ SendFails(k)
       PROVE  MovesTo(k) /\ Alone(k)
  <2>1. CASE Ends(k)
    BY <2>1, EndsMoves DEF Ends, Turned, Alone
  <2>2. CASE Turned(k, Idle)
    BY <2>2, IdleMoves DEF Turned, Alone
  <2> QED
    BY <1>16, <2>1, <2>2, GivesUp
<1>17. ASSUME NEW k \in Tasks, Drift(k) PROVE MovesTo(k) /\ Alone(k)
  <2>1. NextTarget(k) \/ Goes(k, "lookup", {})
    BY <1>17, DriftTo
  <2> QED
    BY <1>12, <2>1, GoesMoves, GoesFields DEF Alone
<1>18. ASSUME NEW t \in Topics, Publish(t) PROVE task' = task
  BY <1>18 DEF Publish
<1>19. ASSUME ClientCloses \/ ByeLost PROVE task' = task
  BY <1>19 DEF ClientCloses, ByeLost
<1>20. task' = task \/ \E k \in Tasks : MovesTo(k) /\ Alone(k)
  BY <1>1, <1>2, <1>3, <1>4, <1>5, <1>6, <1>7, <1>8, <1>9, <1>10, <1>11, <1>13, <1>14, <1>15,
     <1>16, <1>17, <1>18, <1>19 DEF Next, Step
<1> QED
  BY <1>20 DEF MovesTo, Alone

\* $disconnect is due only once the socket is closed, and clean-up runs only then;
\* then the client holds nothing, and nothing is owed to it.
ClientOK ==
    /\ bye => socket = "closed"
    /\ \A k \in Tasks : task[k].pc \in {"owned", "clearing"} => socket = "closed"
    /\ socket = "closed" => \A id \in Ids : live[id] = 0
    /\ \A id \in Ids : live[id] # 0 => asked[live[id]].id = id
    /\ \A due \in owed :
         /\ due[3] = live[due[2]] /\ due[3] \in ready
         /\ messages[due[1]] \in asked[due[3]].wants /\ <<due[1], due[2]>> \notin Rejected

\* One invocation flushes a record, while the stream is not done with it.
FlushesOK ==
    \A k \in Tasks : task[k].msg # 0 =>
        task[k].msg \notin flushed /\ \A q \in Tasks : task[q].msg = task[k].msg => q = k

LEMMA FlushesNext ==
    ASSUME StateOK, FlushesOK, Next
    PROVE  FlushesOK'
<1>0. Idle.msg = 0 /\ Idle.pc = "idle"
  BY DEF Idle
<1>1. ASSUME NEW k \in Tasks, PageDone(k) PROVE FlushesOK'
  <2>1. \/ flushed' = flushed /\ Goes(k, "page", {})
        \/ flushed' = flushed \cup {task[k].msg} /\ Turned(k, Idle)
    BY <1>1, PageDoneTo
  <2>2. task[k].msg # 0
    BY <1>1, PageDoneTo, RecordTypes DEF RecordOK
  <2>3. \A q \in Tasks : task'[q].msg = task[q].msg \/ (q = k /\ task'[q].msg = 0)
    BY <1>0, <2>1, GoesFields DEF Turned
  <2>4. flushed' = flushed \/ (flushed' = flushed \cup {task[k].msg} /\ task'[k].msg = 0)
    BY <1>0, <2>1 DEF Turned
  <2> QED
    BY <2>2, <2>3, <2>4 DEF FlushesOK
<1>2. ASSUME NEW k \in Tasks, StartFlush(k) PROVE FlushesOK'
  <2>1. PICK m \in DOMAIN messages \ flushed :
          /\ Turned(k, Rec("page", 0, 0, m, 0, {}, 0, {}, {}))
          /\ \A q \in Tasks : task[q].msg # m
    BY <1>2, StartFlushTo
  <2>2. flushed' = flushed
    BY <1>2 DEF StartFlush, outVars
  <2>3. task'[k].msg = m /\ \A q \in Tasks \ {k} : task'[q].msg = task[q].msg
    BY <2>1 DEF Turned, Rec
  <2> QED
    BY <2>1, <2>2, <2>3 DEF FlushesOK
<1>3. ASSUME flushed' = flushed, \A k \in Tasks : ~StartFlush(k) PROVE FlushesOK'
  <2>1. \A q \in Tasks : task'[q].msg = task[q].msg \/ task'[q].msg = 0
    BY <1>0, <1>3, Moves DEF MovesTo
  <2> QED
    BY <1>3, <2>1 DEF FlushesOK
<1> QED
  BY <1>1, <1>2, <1>3, FlushedSteps

LEMMA SocketNext ==
    ASSUME StateOK, ClientOK, Next
    PROVE  /\ (bye => socket = "closed")'
           /\ \A k \in Tasks : task'[k].pc \in {"owned", "clearing"} => socket' = "closed"
<1>1. (bye => socket = "closed")'
  <2>1. socket' = socket \/ socket' = "closed"
    BY SocketSteps DEF ClientCloses
  <2>2. bye' => bye \/ socket' = "closed"
    BY ByeSteps DEF ClientCloses, Disconnected, ByeLost
  <2> QED
    BY <2>1, <2>2 DEF ClientOK
<1>2. ASSUME NEW k \in Tasks, task'[k].pc \in {"owned", "clearing"} PROVE socket' = "closed"
  <2>1. socket' = socket \/ socket' = "closed"
    BY SocketSteps DEF ClientCloses
  <2>2. StartFlush(k) => task'[k].pc = "page"
    <3>1. ASSUME StartFlush(k) PROVE task'[k].pc = "page"
      <4>1. PICK m : Turned(k, Rec("page", 0, 0, m, 0, {}, 0, {}, {}))
        BY <3>1, StartFlushTo
      <4> QED
        BY <4>1 DEF Turned, Rec
    <3> QED
      BY <3>1
  <2>3. Idle.pc = "idle"
    BY DEF Idle
  <2>4. task[k].pc \in {"owned", "clearing"} \/ socket = "closed" \/ bye
    BY <1>2, <2>2, <2>3, Moves DEF MovesTo
  <2> QED
    BY <2>1, <2>4 DEF ClientOK
<1> QED
  BY <1>1, <1>2

\* What the client holds changes only at an open socket, to nothing or to a new subscribe.
LEMMA LiveNext ==
    ASSUME StateOK, ClientOK, Next
    PROVE  /\ \A id \in Ids : \/ live'[id] = live[id]
                              \/ live'[id] = 0
                              \/ /\ socket' = "open" /\ live'[id] = Len(asked) + 1
                                 /\ asked'[Len(asked) + 1].id = id
           /\ socket' = "closed" => socket = "closed" \/ \A id \in Ids : live'[id] = 0
<1>1. live \in [Ids -> Subs]
  BY DEF StateOK, DataOK
<1>2. ASSUME NEW id0, Ended(id0) PROVE \A id \in Ids : live'[id] = live[id] \/ live'[id] = 0
  BY <1>1, <1>2 DEF Ended
<1>3. ASSUME NEW k \in Tasks, Reply(k) PROVE \A id \in Ids : live'[id] = live[id] \/ live'[id] = 0
  BY <1>2, <1>3, ReplyTo DEF clientVars
<1>4. ASSUME NEW k \in Tasks, Drift(k) PROVE \A id \in Ids : live'[id] = live[id] \/ live'[id] = 0
  BY <1>2, <1>4 DEF Drift, clientVars
<1>5. ASSUME NEW k \in Tasks, NEW i, Complete(k, i) PROVE \A id \in Ids : live'[id] = live[id] \/ live'[id] = 0
  BY <1>2, <1>5 DEF Complete
<1>6. ASSUME NEW k \in Tasks, NEW i \in Ids, NEW topics \in SUBSET Topics, Subscribe(k, i, topics)
      PROVE  \A id \in Ids : \/ live'[id] = live[id]
                             \/ /\ socket' = "open" /\ live'[id] = Len(asked) + 1
                                /\ asked'[Len(asked) + 1].id = id
  <2>1. live' = [live EXCEPT ![i] = Len(asked) + 1] /\ socket' = "open"
    BY <1>6 DEF Subscribe, Frame, sockVars
  <2>2. asked'[Len(asked) + 1] = [id |-> i, wants |-> topics, topics |-> {}]
    BY <1>6, SubscribeGrows
  <2>3. asked'[Len(asked) + 1].id = i
    BY <2>2
  <2> QED
    BY <1>1, <2>1, <2>3
<1>7. ClientCloses => \A id \in Ids : live'[id] = 0
  BY DEF ClientCloses
<1>8. socket' = "closed" => socket = "closed" \/ \A id \in Ids : live'[id] = 0
  BY <1>7, SocketSteps
<1> QED
  BY <1>3, <1>4, <1>5, <1>6, <1>7, <1>8, LiveSteps

LEMMA HeldNext ==
    ASSUME StateOK, ClientOK, Next
    PROVE  /\ (socket = "closed" => \A id \in Ids : live[id] = 0)'
           /\ (\A id \in Ids : live[id] # 0 => asked[live[id]].id = id)'
<1>1. socket' = "closed" => \A id \in Ids : live'[id] = 0
  BY LiveNext, SocketSteps DEF ClientOK
<1>2. ASSUME NEW id \in Ids, live'[id] # 0 PROVE asked'[live'[id]].id = id
  <2>1. live[id] \in Subs
    BY DEF StateOK, DataOK
  <2>2. live[id] # 0 => live[id] \in DOMAIN asked /\ asked'[live[id]].id = asked[live[id]].id
    BY <2>1, AskedTypes, SeqsNext DEF Grows
  <2> QED
    BY <1>2, <2>2, LiveNext DEF ClientOK
<1> QED
  BY <1>1, <1>2

LEMMA OwedNext ==
    ASSUME StateOK, Next, NEW due \in owed'
    PROVE  \/ due \in owed /\ live'[due[2]] = live[due[2]]
           \/ \E t \in Topics, id \in Ids :
                /\ Publish(t) /\ due = <<Len(messages) + 1, id, live[id]>>
                /\ live[id] \in ready /\ t \in asked[live[id]].wants
                /\ <<Len(messages) + 1, id>> \notin Rejected
<1> DEFINE Stays == due \in owed /\ live'[due[2]] = live[due[2]]
<1>1. live \in [Ids -> Subs] /\ owed \subseteq Frames
  BY DEF StateOK, DataOK
<1>2. \A d \in owed : d[2] \in Ids
  BY <1>1 DEF Frames
<1>3. ASSUME NEW id, Ended(id) PROVE Stays
  <2>1. due \in owed /\ due[2] # id /\ live' = [live EXCEPT ![id] = 0]
    BY <1>3 DEF Ended
  <2> QED
    BY <1>1, <1>2, <2>1
<1>4. ASSUME UNCHANGED clientVars PROVE Stays
  BY <1>4 DEF clientVars
<1>5. ASSUME NEW k \in Tasks, Reply(k) PROVE Stays
  <2>1. UNCHANGED clientVars \/ \E id : Ended(id)
    BY <1>5, ReplyTo
  <2> QED
    BY <1>3, <1>4, <2>1
<1>6. ASSUME NEW k \in Tasks, Drift(k) PROVE Stays
  <2>1. UNCHANGED clientVars \/ \E id : Ended(id)
    BY <1>6 DEF Drift
  <2> QED
    BY <1>3, <1>4, <2>1
<1>7. ASSUME NEW k \in Tasks, NEW id, Complete(k, id) PROVE Stays
  BY <1>3, <1>7 DEF Complete
<1>8. ASSUME NEW k \in Tasks, NEW id, NEW topics, Subscribe(k, id, topics) PROVE Stays
  <2>1. due \in owed /\ due[2] # id /\ live' = [live EXCEPT ![id] = Len(asked) + 1]
    BY <1>8 DEF Subscribe
  <2> QED
    BY <1>1, <1>2, <2>1
<1>9. ClientCloses => FALSE
  BY DEF ClientCloses
<1>10. ASSUME NEW t \in Topics, Publish(t)
       PROVE  \/ Stays
              \/ \E id \in Ids :
                   /\ due = <<Len(messages) + 1, id, live[id]>>
                   /\ live[id] \in ready /\ t \in asked[live[id]].wants
                   /\ <<Len(messages) + 1, id>> \notin Rejected
  <2>1. live' = live
    BY <1>10 DEF Publish
  <2> QED
    BY <1>10, <2>1 DEF Publish
<1>11. ASSUME owed' = owed, live' = live PROVE Stays
  BY <1>11
<1>12. owed' = owed => live' = live \/ Stays
  BY <1>5, <1>6, <1>7, <1>8, <1>9, LiveSteps
<1> QED
  BY <1>5, <1>6, <1>7, <1>8, <1>9, <1>10, <1>11, <1>12, OwedSteps

LEMMA ReadyGrows == ASSUME StateOK, Next PROVE ready \subseteq ready'
<1>1. ASSUME NEW k \in Tasks, RowDone(k) PROVE ready \subseteq ready'
  BY <1>1, RowDoneTo
<1> QED
  BY <1>1, ReadySteps

LEMMA ClientNext ==
    ASSUME StateOK, ClientOK, Next
    PROVE  ClientOK'
<1>1. ASSUME NEW due \in owed'
      PROVE  /\ due[3] = live'[due[2]] /\ due[3] \in ready'
             /\ messages'[due[1]] \in asked'[due[3]].wants /\ <<due[1], due[2]>> \notin Rejected
  <2>1. CASE due \in owed /\ live'[due[2]] = live[due[2]]
    <3>1. /\ due[3] = live[due[2]] /\ due[3] \in ready
          /\ messages[due[1]] \in asked[due[3]].wants /\ <<due[1], due[2]>> \notin Rejected
      BY <2>1 DEF ClientOK
    <3>2. due[1] \in DOMAIN messages /\ due[3] \in DOMAIN asked
      BY <2>1 DEF StateOK, DataOK, Frames
    <3>3. messages'[due[1]] = messages[due[1]] /\ asked'[due[3]].wants = asked[due[3]].wants
      BY <3>2, SeqsNext DEF Grows
    <3> QED
      BY <2>1, <3>1, <3>3, ReadyGrows
  <2>2. ASSUME NEW t \in Topics, NEW id \in Ids, Publish(t), due = <<Len(messages) + 1, id, live[id]>>,
               live[id] \in ready, t \in asked[live[id]].wants, <<Len(messages) + 1, id>> \notin Rejected
        PROVE  <1>1!2
    <3>1. live' = live /\ ready' = ready /\ asked' = asked
      BY <2>2 DEF Publish
    <3>2. messages'[Len(messages) + 1] = t
      BY <2>2, PublishGrows
    <3> QED
      BY <2>2, <3>1, <3>2
  <2> QED
    BY <2>1, <2>2, OwedNext
<1> QED
  BY <1>1, SocketNext, HeldNext DEF ClientOK

-----------------------------------------------------------------------------
(* Without races and failures, the registry holds what the client does      *)

Clean == excuses = {}

\* Invocation k is about to work, or works, on the rows or frames of id.
Busy(k, id) == id \in Touches(k) \/ Captures(k, id)

Apart == \A k, q \in Tasks, id \in Ids : Busy(k, id) /\ Busy(q, id) => k = q

Parts == Topics \cup {"rev"}

\* The rows of an id are those of one subscribe, whole, or there are none.
Whole(id) ==
    LET n == rows[Rev(id)]
    IN /\ \A t \in Topics : rows[Fwd(t, id)] = IF n # 0 /\ t \in asked[n].wants THEN n ELSE 0
       /\ n # 0 => asked[n].id = id /\ asked[n].wants # {} /\ asked[n].topics = asked[n].wants

\* What is left of the rows of an id is about to be deleted.
Shrinking(id, ops) == \A p \in Parts : rows[<<p, id>>] = 0 \/ <<<<p, id>>, 0>> \in ops

\* The rows of subscribe n that are not written yet are about to be.
Growing(id, n, ops) ==
    /\ ops \subseteq PutRows(id, n, asked[n].wants) /\ ops # {}
    /\ \A op \in PutRows(id, n, asked[n].wants) \ ops : rows[op[1]] = n
    /\ \A t \in Topics \ asked[n].wants : rows[Fwd(t, id)] = 0
    /\ asked[n].wants # {} /\ asked[n].topics = asked[n].wants

\* Subscribe n is what the client holds, or the socket's end is still to come.
Holds(id, n) == bye \/ live[id] = n

WorkOK(k, id) ==
    LET r == task[k]
    IN /\ r.pc \in {"capture", "lookup", "reply", "owned"} => Whole(id)
       /\ r.pc \in {"capture", "adding"} => Holds(id, r.sub) /\ r.sub \notin ready
       /\ r.pc = "capture" => \A t \in Topics \ asked[r.sub].wants : rows[Fwd(t, id)] = 0
       /\ r.pc = "adding" => Growing(id, r.sub, r.todo)
       /\ r.pc \in {"lookup", "removing"} => live[id] = 0 /\ r.msg = 0
       /\ r.pc = "removing" => Shrinking(id, r.todo) /\ r.todo \subseteq ((Parts \X {id}) \X {0})
       /\ r.pc = "reply" => Holds(id, rows[Rev(id)]) \/ live[id] \notin ready
       /\ r.pc \in {"owned", "clearing"} => r.todo \subseteq Keys \X {0}
       /\ r.pc = "owned" /\ id <= r.sweep => Shrinking(id, r.todo)
       /\ r.pc = "clearing" => Shrinking(id, r.todo)

RowsOK == \A id \in Ids :
    /\ (\A k \in Tasks : ~Busy(k, id)) => Whole(id) /\ Holds(id, rows[Rev(id)])
    /\ \A k \in Tasks : Busy(k, id) => WorkOK(k, id)

RegistryOK == Clean => Apart /\ RowsOK

\* Nothing a step does is about this id.
Same(id) ==
    /\ bye' = bye /\ live'[id] = live[id]
    /\ \A p \in Parts : rows'[<<p, id>>] = rows[<<p, id>>]
    /\ \A n \in DOMAIN asked : asked[n].id = id =>
         asked'[n] = asked[n] /\ (n \in ready' <=> n \in ready)

LEMMA BusyIs ==
    ASSUME NEW k, NEW id \in Ids
    PROVE  Busy(k, id) <=>
             \/ task[k].pc \in {"capture", "adding", "lookup", "removing", "reply"} /\ task[k].id = id
             \/ task[k].pc \in {"owned", "clearing"}
BY DEF Busy, Touches, Captures, At

LEMMA BusyStays ==
    ASSUME NEW k, NEW id \in Ids, task'[k] = task[k]
    PROVE  Busy(k, id)' <=> Busy(k, id)
BY DEF Busy, Touches, Captures, At

LEMMA SubIs ==
    ASSUME StateOK, NEW k \in Tasks, task[k].pc \in {"capture", "adding"}
    PROVE  /\ task[k].sub \in DOMAIN asked /\ asked[task[k].sub].id = task[k].id
           /\ task[k].sub # 0 /\ task[k].id \in Ids /\ task[k].msg = 0
BY RecordTypes, AskedTypes DEF RecordOK

LEMMA RowIs ==
    ASSUME StateOK, NEW p \in Parts, NEW id \in Ids
    PROVE  <<p, id>> \in Keys /\ rows[<<p, id>>] \in Subs /\
           (rows[<<p, id>>] # 0 => rows[<<p, id>>] \in DOMAIN asked)
<1>1. <<p, id>> \in Keys
  BY DEF Keys, Parts
<1>2. rows[<<p, id>>] \in Subs
  BY <1>1 DEF StateOK, DataOK
<1> QED
  BY <1>1, <1>2, AskedTypes

LEMMA WholeStays ==
    ASSUME StateOK, NEW id \in Ids, Same(id), Whole(id)
    PROVE  Whole(id)' /\ rows'[Rev(id)] = rows[Rev(id)]
<1>1. rows'[Rev(id)] = rows[Rev(id)] /\ \A t \in Topics : rows'[Fwd(t, id)] = rows[Fwd(t, id)]
  BY DEF Same, Rev, Fwd, Parts
<1>2. rows[Rev(id)] # 0 => rows[Rev(id)] \in DOMAIN asked /\ asked[rows[Rev(id)]].id = id
  <2>1. rows[Rev(id)] # 0 => rows[Rev(id)] \in DOMAIN asked
    BY RowIs DEF Rev, Parts
  <2> QED
    BY <2>1 DEF Whole
<1>3. rows[Rev(id)] # 0 => asked'[rows[Rev(id)]] = asked[rows[Rev(id)]]
  BY <1>2 DEF Same
<1> QED
  BY <1>1, <1>3 DEF Whole

LEMMA HoldsStays ==
    ASSUME NEW id \in Ids, Same(id), NEW n
    PROVE  (bye' \/ live'[id] = n) <=> Holds(id, n)
BY DEF Same, Holds

LEMMA ShrinkingStays ==
    ASSUME NEW id \in Ids, Same(id), NEW ops, Shrinking(id, ops)
    PROVE  \A p \in Parts : rows'[<<p, id>>] = 0 \/ <<<<p, id>>, 0>> \in ops
BY DEF Same, Shrinking

LEMMA GrowingStays ==
    ASSUME NEW id \in Ids, Same(id), NEW n \in DOMAIN asked, asked[n].id = id, NEW ops,
           asked[n].wants \subseteq Topics, Growing(id, n, ops)
    PROVE  /\ ops \subseteq PutRows(id, n, asked'[n].wants) /\ ops # {}
           /\ \A op \in PutRows(id, n, asked'[n].wants) \ ops : rows'[op[1]] = n
           /\ \A t \in Topics \ asked'[n].wants : rows'[Fwd(t, id)] = 0
           /\ asked'[n].wants # {} /\ asked'[n].topics = asked'[n].wants
<1>1. /\ asked'[n] = asked[n] /\ \A p \in Parts : rows'[<<p, id>>] = rows[<<p, id>>]
  BY DEF Same
<1>2. \A op \in PutRows(id, n, asked[n].wants) : \E p \in Parts : op[1] = <<p, id>>
  BY DEF PutRows, Parts, Fwd, Rev
<1>3. \A op \in PutRows(id, n, asked[n].wants) : rows'[op[1]] = rows[op[1]]
  BY <1>1, <1>2
<1>4. \A t \in Topics : rows'[Fwd(t, id)] = rows[Fwd(t, id)]
  BY <1>1 DEF Fwd, Parts
<1> QED
  BY <1>1, <1>3, <1>4 DEF Growing

LEMMA WorkStays ==
    ASSUME StateOK, ClientOK, Next, NEW k \in Tasks, NEW id \in Ids, task'[k] = task[k],
           Busy(k, id), Same(id), WorkOK(k, id)
    PROVE  WorkOK(k, id)'
<1>1. PICK r : r = task[k] /\ r = task'[k]
  OBVIOUS
<1>2. /\ r.pc \in {"capture", "lookup", "reply", "owned"} => Whole(id)
      /\ r.pc \in {"capture", "adding"} => Holds(id, r.sub) /\ r.sub \notin ready
      /\ r.pc = "capture" => \A t \in Topics \ asked[r.sub].wants : rows[Fwd(t, id)] = 0
      /\ r.pc = "adding" => Growing(id, r.sub, r.todo)
      /\ r.pc \in {"lookup", "removing"} => live[id] = 0 /\ r.msg = 0
      /\ r.pc = "removing" => Shrinking(id, r.todo) /\ r.todo \subseteq ((Parts \X {id}) \X {0})
      /\ r.pc = "reply" => Holds(id, rows[Rev(id)]) \/ live[id] \notin ready
      /\ r.pc \in {"owned", "clearing"} => r.todo \subseteq Keys \X {0}
      /\ r.pc = "owned" /\ id <= r.sweep => Shrinking(id, r.todo)
      /\ r.pc = "clearing" => Shrinking(id, r.todo)
  BY <1>1 DEF WorkOK
<1>3. r.pc \in {"capture", "adding"} =>
        /\ r.sub \in DOMAIN asked /\ asked'[r.sub] = asked[r.sub]
        /\ (r.sub \in ready' <=> r.sub \in ready)
  BY <1>1, SubIs, BusyIs DEF Same
<1>4. /\ live'[id] = live[id] /\ bye' = bye
      /\ \A p \in Parts : rows'[<<p, id>>] = rows[<<p, id>>]
      /\ \A t \in Topics : rows'[Fwd(t, id)] = rows[Fwd(t, id)]
      /\ rows'[Rev(id)] = rows[Rev(id)]
  BY DEF Same, Rev, Fwd, Parts
<1>5. live[id] \notin ready => live'[id] \notin ready'
  <2>1. live[id] \in Subs
    BY DEF StateOK, DataOK
  <2>2. live[id] # 0 => (live[id] \in ready' <=> live[id] \in ready)
    BY <2>1, AskedTypes DEF ClientOK, Same
  <2>3. 0 \notin ready'
    <3>1. ready' \subseteq DOMAIN asked' /\ asked' \in Seq(Frame0)
      BY OutTypes, SeqsNext
    <3>2. DOMAIN asked' = 1..Len(asked')
      BY <3>1, LenProperties
    <3> QED
      BY <3>1, <3>2
  <2> QED
    BY <1>4, <2>2, <2>3
<1>6. Whole(id) => Whole(id)'
  BY WholeStays
<1>7. r.pc = "adding" => Growing(id, r.sub, r.todo)'
  <2>1. r.pc = "adding" =>
          /\ r.sub \in DOMAIN asked /\ asked[r.sub].id = id /\ asked[r.sub].wants \subseteq Topics
    BY <1>1, <1>3, SubIs, BusyIs, AskedTypes
  <2>2. ASSUME NEW n \in DOMAIN asked, NEW ops, asked[n].id = id, asked[n].wants \subseteq Topics,
               Growing(id, n, ops)
        PROVE  Growing(id, n, ops)'
    <3>1. /\ ops \subseteq PutRows(id, n, asked'[n].wants) /\ ops # {}
          /\ \A op \in PutRows(id, n, asked'[n].wants) \ ops : rows'[op[1]] = n
          /\ \A t \in Topics \ asked'[n].wants : rows'[Fwd(t, id)] = 0
          /\ asked'[n].wants # {} /\ asked'[n].topics = asked'[n].wants
      BY <2>2, GrowingStays
    <3> QED
      BY <3>1 DEF Growing, PutRows, Fwd, Rev
  <2>3. PICK n, ops : n = r.sub /\ ops = r.todo
    OBVIOUS
  <2>4. r.pc = "adding" => Growing(id, n, ops)'
    BY <1>2, <2>1, <2>2, <2>3
  <2> QED
    BY <2>3, <2>4
<1>8. r.pc = "capture" => \A t \in Topics \ asked'[r.sub].wants : rows'[Fwd(t, id)] = 0
  BY <1>2, <1>3, <1>4
<1>9. Shrinking(id, r.todo) => \A p \in Parts : rows'[<<p, id>>] = 0 \/ <<<<p, id>>, 0>> \in r.todo
  BY ShrinkingStays
<1>10. r.pc \in {"capture", "adding"} => Holds(id, r.sub)' /\ r.sub \notin ready'
  BY <1>2, <1>3, <1>4 DEF Holds
<1>11. r.pc = "reply" => Holds(id, rows[Rev(id)])' \/ live'[id] \notin ready'
  BY <1>2, <1>4, <1>5 DEF Holds
<1>12. r.pc \in {"lookup", "removing"} => live'[id] = 0 /\ r.msg = 0
  BY <1>2, <1>4
<1> QED
  BY <1>1, <1>2, <1>6, <1>7, <1>8, <1>9, <1>10, <1>11, <1>12 DEF WorkOK, Shrinking

\* A step of one invocation is about the ids it is busy with, before or after.
LEMMA RegistryStep ==
    ASSUME StateOK, ClientOK, Next, Apart, RowsOK, NEW k \in Tasks, Alone(k),
           \A id \in Ids : Busy(k, id)' => WorkOK(k, id)' /\ \A q \in Tasks \ {k} : ~Busy(q, id),
           \A id \in Ids : Busy(k, id) /\ ~Busy(k, id)' => (Whole(id) /\ Holds(id, rows[Rev(id)]))',
           \A id \in Ids : ~Busy(k, id) /\ ~Busy(k, id)' => Same(id)
    PROVE  Apart' /\ RowsOK'
<1>1. \A q \in Tasks \ {k}, id \in Ids : Busy(q, id)' <=> Busy(q, id)
  BY BusyStays DEF Alone
<1>2. Apart'
  BY <1>1 DEF Apart
<1>3. ASSUME NEW id \in Ids, \A q \in Tasks : ~Busy(q, id)'
      PROVE  (Whole(id) /\ Holds(id, rows[Rev(id)]))'
  <2>1. CASE Busy(k, id)
    BY <1>3, <2>1
  <2>2. CASE ~Busy(k, id)
    <3>1. \A q \in Tasks : ~Busy(q, id)
      BY <1>1, <1>3, <2>2
    <3>2. Same(id) /\ Whole(id) /\ Holds(id, rows[Rev(id)])
      BY <1>3, <2>2, <3>1 DEF RowsOK
    <3> QED
      BY <3>2, WholeStays, HoldsStays DEF Holds
  <2> QED
    BY <2>1, <2>2
<1>4. ASSUME NEW id \in Ids, NEW q \in Tasks, Busy(q, id)'
      PROVE  WorkOK(q, id)'
  <2>1. CASE q = k
    BY <1>4, <2>1
  <2>2. CASE q # k
    <3>1. Busy(q, id) /\ task'[q] = task[q] /\ WorkOK(q, id)
      BY <1>1, <1>4, <2>2 DEF RowsOK, Alone
    <3>2. ~Busy(k, id)' /\ ~Busy(k, id)
      BY <1>1, <2>2, <3>1 DEF Apart
    <3> QED
      BY <3>1, <3>2, WorkStays
  <2> QED
    BY <2>1, <2>2
<1> QED
  BY <1>2, <1>3, <1>4 DEF RowsOK

\* A step that is about no id.
LEMMA Bystander ==
    ASSUME StateOK, ClientOK, Next, Apart, RowsOK, NEW k \in Tasks, Alone(k),
           \A id \in Ids : ~Busy(k, id) /\ ~Busy(k, id)',
           bye' = bye, live' = live, rows' = rows, asked' = asked, ready' = ready
    PROVE  Apart' /\ RowsOK'
<1>1. \A id \in Ids : Same(id)
  BY DEF Same
<1> QED
  BY <1>1, RegistryStep

\* No call on this id is in progress.
LEMMA NotFollowing ==
    ASSUME NEW k, NEW id \in Ids, Follows(k, id) = {}
    PROVE  \A q \in Tasks \ {k} : ~Busy(q, id)
<1>1. \A q \in Tasks \ {k} : ~Captures(q, id)
  BY DEF Follows
<1>2. Crossed(k, {id}) = {}
  BY <1>1 DEF Follows
<1>3. \A q \in Tasks \ {k} : Touches(q) \cap {id} = {}
  BY <1>2 DEF Crossed
<1> QED
  BY <1>1, <1>3 DEF Busy

LEMMA IdleBusy == ASSUME NEW k, task[k] = Idle PROVE \A id \in Ids : ~Busy(k, id)
BY BusyIs DEF Idle

\* Where an invocation goes on with one call on one id.
LEMMA OneBusy ==
    ASSUME NEW k \in Tasks, NEW pc, NEW id, NEW sub, NEW msg, NEW cursor, NEW targets, NEW sweep, NEW todo,
           Turned(k, Rec(pc, id, sub, msg, cursor, targets, sweep, {}, todo)),
           pc \notin {"owned", "clearing"}
    PROVE  /\ \A j \in Ids : Busy(k, j)' <=> pc \in {"capture", "adding", "lookup", "removing", "reply"} /\ id = j
           /\ task'[k].pc = pc /\ task'[k].id = id /\ task'[k].sub = sub /\ task'[k].msg = msg
           /\ task'[k].sweep = sweep /\ task'[k].todo = todo /\ Alone(k)
<1>1. PICK r : r = Rec(pc, id, sub, msg, cursor, targets, sweep, {}, todo)
  OBVIOUS
<1>2. task'[k] = r /\ Alone(k)
  BY <1>1 DEF Turned, Alone
<1>3. /\ r.pc = pc /\ r.id = id /\ r.sub = sub /\ r.msg = msg /\ r.sweep = sweep /\ r.todo = todo
  BY <1>1, RecFields
<1>4. ASSUME NEW j \in Ids
      PROVE  Busy(k, j)' <=> pc \in {"capture", "adding", "lookup", "removing", "reply"} /\ id = j
  BY <1>2, <1>3 DEF Busy, Touches, Captures, At
<1> QED
  BY <1>2, <1>3, <1>4

LEMMA AnswerInlineKeeps ==
    ASSUME StateOK, ClientOK, Next, Apart, RowsOK, Clean', NEW k \in Tasks, NEW id \in Ids \cup {0},
           AnswerInline(k, id)
    PROVE  Apart' /\ RowsOK'
<1>1. task[k] = Idle /\ Turned(k, Rec("reply", id, 0, 0, 0, {}, 0, {}, {}))
  BY AnswerInlineTo
<1>2. /\ bye' = bye /\ live' = live /\ rows' = rows /\ asked' = asked /\ ready' = ready
      /\ Follows(k, id) = {}
  BY DEF AnswerInline, Frame, sockVars, clientVars, Excuse, Clean
<1>3. /\ \A j \in Ids : Busy(k, j)' <=> id = j
      /\ task'[k].pc = "reply" /\ task'[k].id = id /\ Alone(k)
  BY <1>1, OneBusy
<1>4. \A j \in Ids : ~Busy(k, j) /\ Same(j)
  BY <1>1, <1>2, IdleBusy DEF Same
<1>5. ASSUME NEW j \in Ids, id = j
      PROVE  WorkOK(k, j)' /\ \A q \in Tasks \ {k} : ~Busy(q, j)
  <2>1. \A q \in Tasks : ~Busy(q, j)
    BY <1>2, <1>4, <1>5, NotFollowing
  <2>2. Whole(j)' /\ Holds(j, rows[Rev(j)])'
    BY <1>2, <1>4, <2>1, WholeStays, HoldsStays DEF RowsOK, Holds
  <2> QED
    BY <1>3, <2>1, <2>2 DEF WorkOK
<1> QED
  BY <1>3, <1>4, <1>5, RegistryStep

LEMMA CompleteKeeps ==
    ASSUME StateOK, ClientOK, Next, Apart, RowsOK, Clean', NEW k \in Tasks, NEW id \in Ids,
           Complete(k, id)
    PROVE  Apart' /\ RowsOK'
<1>1. task[k] = Idle /\ Turned(k, Rec("lookup", id, 0, 0, 0, {}, 0, {}, {}))
  BY CompleteTo
<1>2. /\ bye' = bye /\ live' = [live EXCEPT ![id] = 0] /\ rows' = rows /\ asked' = asked /\ ready' = ready
      /\ Follows(k, id) = {}
  BY DEF Complete, Frame, sockVars, Ended, Excuse, Clean
<1>3. /\ \A j \in Ids : Busy(k, j)' <=> id = j
      /\ task'[k].pc = "lookup" /\ task'[k].id = id /\ task'[k].msg = 0 /\ Alone(k)
  BY <1>1, OneBusy
<1>4. live \in [Ids -> Subs]
  BY DEF StateOK, DataOK
<1>5. \A j \in Ids : ~Busy(k, j) /\ (j # id => Same(j))
  BY <1>1, <1>2, <1>4, IdleBusy DEF Same
<1>6. \A q \in Tasks : ~Busy(q, id)
  BY <1>2, <1>5, NotFollowing
<1>7. Whole(id)'
  BY <1>2, <1>6 DEF RowsOK, Whole
<1>8. WorkOK(k, id)'
  BY <1>2, <1>3, <1>4, <1>7 DEF WorkOK
<1> QED
  BY <1>3, <1>5, <1>6, <1>8, RegistryStep

LEMMA SubscribeKeeps ==
    ASSUME StateOK, ClientOK, Next, Apart, RowsOK, Clean', NEW k \in Tasks, NEW id \in Ids,
           NEW topics \in SUBSET Topics, Subscribe(k, id, topics)
    PROVE  Apart' /\ RowsOK'
<1>0. PICK n : n = Len(asked) + 1
  OBVIOUS
<1>1. task[k] = Idle /\ Turned(k, Rec("capture", id, n, 0, 0, {}, 0, {}, {}))
  BY <1>0, SubscribeTo
<1>2. /\ bye' = bye /\ live' = [live EXCEPT ![id] = n] /\ rows' = rows /\ ready' = ready
      /\ Follows(k, id) = {} /\ Reuse(id, topics) = {}
  BY <1>0 DEF Subscribe, Frame, sockVars, Excuse, Clean
<1>3. /\ \A j \in Ids : Busy(k, j)' <=> id = j
      /\ task'[k].pc = "capture" /\ task'[k].id = id /\ task'[k].sub = n /\ Alone(k)
  BY <1>1, OneBusy
<1>4. live \in [Ids -> Subs] /\ ready \subseteq DOMAIN asked
  BY DEF StateOK, DataOK
<1>5. /\ asked'[n] = [id |-> id, wants |-> topics, topics |-> {}]
      /\ \A m \in DOMAIN asked : asked'[m] = asked[m]
  BY <1>0, SubscribeGrows
<1>6. n \notin DOMAIN asked
  BY <1>0, AskedTypes
<1>7. \A j \in Ids : ~Busy(k, j) /\ (j # id => Same(j))
  BY <1>1, <1>2, <1>4, <1>5, IdleBusy DEF Same
<1>8. \A q \in Tasks : ~Busy(q, id)
  BY <1>2, <1>7, NotFollowing
<1>9. Whole(id)'
  <2>1. Whole(id) /\ rows'[Rev(id)] = rows[Rev(id)] /\ rows' = rows
    BY <1>2, <1>8 DEF RowsOK
  <2>2. rows[Rev(id)] # 0 => rows[Rev(id)] \in DOMAIN asked
    BY RowIs DEF Rev, Parts
  <2>3. rows[Rev(id)] # 0 => asked'[rows[Rev(id)]] = asked[rows[Rev(id)]]
    BY <1>5, <2>2
  <2> QED
    BY <2>1, <2>3 DEF Whole
<1>10. \A t \in Topics \ topics : rows'[Fwd(t, id)] = 0
  BY <1>2 DEF Reuse, Outgrown
<1>11. WorkOK(k, id)'
  <2>1. Holds(id, n)' /\ n \notin ready'
    BY <1>2, <1>4, <1>6 DEF Holds
  <2>2. asked'[n].wants = topics
    BY <1>5
  <2> QED
    BY <1>3, <1>9, <1>10, <2>1, <2>2 DEF WorkOK
<1> QED
  BY <1>3, <1>7, <1>8, <1>11, RegistryStep

LEMMA GoesBusy ==
    ASSUME NEW k \in Tasks, NEW pc, NEW todo, Goes(k, pc, todo), pc \notin {"owned", "clearing"}
    PROVE  /\ \A j \in Ids : Busy(k, j)' <=>
                pc \in {"capture", "adding", "lookup", "removing", "reply"} /\ task[k].id = j
           /\ task'[k].pc = pc /\ task'[k].id = task[k].id /\ task'[k].sub = task[k].sub
           /\ task'[k].msg = task[k].msg /\ task'[k].sweep = task[k].sweep /\ task'[k].todo = todo
           /\ Alone(k)
<1>1. PICK i, s, m, c, ts, w : /\ i = task[k].id /\ s = task[k].sub /\ m = task[k].msg
                              /\ c = task[k].cursor /\ ts = task[k].targets /\ w = task[k].sweep
  OBVIOUS
<1>2. Turned(k, Rec(pc, i, s, m, c, ts, w, {}, todo))
  BY <1>1 DEF Goes
<1> QED
  BY <1>1, <1>2, OneBusy

LEMMA RevIs ==
    ASSUME StateOK, NEW id \in Ids
    PROVE  /\ rows[Rev(id)] \in Subs
           /\ rows[Rev(id)] # 0 => rows[Rev(id)] \in DOMAIN asked
<1>1. "rev" \in Parts
  BY DEF Parts
<1> QED
  BY <1>1, RowIs DEF Rev

LEMMA CaptureKeeps ==
    ASSUME StateOK, ClientOK, Next, Apart, RowsOK, Clean', NEW k \in Tasks, Capture(k)
    PROVE  Apart' /\ RowsOK'
<1>1. PICK id, n, w : id = task[k].id /\ n = task[k].sub /\ w = asked[n].wants
  OBVIOUS
<1>2. /\ task[k].pc = "capture" /\ id \in Ids /\ n \in DOMAIN asked /\ n # 0 /\ asked[n].id = id
      /\ w \subseteq Topics
  BY <1>1, CaptureTo, SubIs, AskedTypes
<1>3. PICK ops : ops = PutRows(id, n, w)
  OBVIOUS
<1>4. (w = {} /\ Goes(k, "reply", {})) \/ (w # {} /\ Goes(k, "adding", ops))
  BY <1>1, <1>3, CaptureTo
<1>5. /\ bye' = bye /\ live' = live /\ rows' = rows /\ ready' = ready
      /\ Crossed(k, {id}) = {}
  BY <1>1 DEF Capture, sockVars, clientVars, Excuse, Clean
<1>6. /\ asked'[n].topics = w /\ asked'[n].id = id /\ asked'[n].wants = w
      /\ \A m \in DOMAIN asked : m # n => asked'[m] = asked[m]
  BY <1>1, <1>2, CaptureGrows
<1>7. \A j \in Ids : Busy(k, j) <=> j = id
  BY <1>1, <1>2, BusyIs
<1>8. WorkOK(k, id) /\ \A q \in Tasks \ {k} : ~Busy(q, id)
  BY <1>2, <1>7 DEF RowsOK, Apart
<1>9. /\ Whole(id) /\ Holds(id, n) /\ n \notin ready
      /\ \A t \in Topics \ w : rows[Fwd(t, id)] = 0
  BY <1>1, <1>2, <1>8 DEF WorkOK
<1>10. \A j \in Ids : j # id => Same(j)
  BY <1>2, <1>5, <1>6 DEF Same
<1>11. /\ Alone(k) /\ \A j \in Ids : Busy(k, j)' <=> j = id
       /\ task'[k].id = id /\ task'[k].sub = n
  BY <1>1, <1>4, GoesBusy
<1>12. WorkOK(k, id)'
  <2>1. CASE w = {}
    <3>1. task'[k].pc = "reply"
      BY <1>4, <2>1, GoesBusy
    <3>2. PICK m : m = rows[Rev(id)]
      OBVIOUS
    <3>3. m # 0 => m \in DOMAIN asked /\ m # n
      BY <1>1, <1>2, <1>9, <2>1, <3>2, RevIs DEF Whole
    <3>4. m # 0 => asked'[m] = asked[m]
      BY <1>6, <3>3
    <3>5. Whole(id)'
      BY <1>5, <1>9, <3>2, <3>4 DEF Whole
    <3>6. Holds(id, rows[Rev(id)])' \/ live'[id] \notin ready'
      BY <1>5, <1>9 DEF Holds
    <3> QED
      BY <3>1, <3>5, <3>6 DEF WorkOK
  <2>2. CASE w # {}
    <3>1. task'[k].pc = "adding" /\ task'[k].todo = ops
      BY <1>4, <2>2, GoesBusy
    <3>2. ops # {} /\ Rev(id)' = Rev(id)
      BY <1>3 DEF PutRows, Rev
    <3>3. Growing(id, n, ops)'
      <4>1. PutRows(id, n, asked'[n].wants) = ops
        BY <1>3, <1>6
      <4> QED
        BY <1>5, <1>6, <1>9, <2>2, <3>2, <4>1 DEF Growing, PutRows, Fwd, Rev
    <3>4. Holds(id, n)' /\ n \notin ready'
      BY <1>5, <1>9 DEF Holds
    <3> QED
      BY <1>11, <3>1, <3>3, <3>4 DEF WorkOK
  <2> QED
    BY <2>1, <2>2
<1> QED
  BY <1>7, <1>8, <1>10, <1>11, <1>12, RegistryStep

LEMMA LookedUpKeeps ==
    ASSUME StateOK, ClientOK, Next, Apart, RowsOK, NEW k \in Tasks, LookedUp(k)
    PROVE  Apart' /\ RowsOK'
<1>1. PICK id, ops : id = task[k].id /\ ops = DeleteRows(id)
  OBVIOUS
<1>2. task[k].pc = "lookup" /\ Goes(k, "removing", ops) /\ id \in Ids
  BY <1>1, LookedUpTo, RecordTypes DEF RecordOK
<1>3. bye' = bye /\ live' = live /\ rows' = rows /\ asked' = asked /\ ready' = ready
  BY DEF LookedUp, sockVars, clientVars
<1>4. \A j \in Ids : Same(j)
  BY <1>3 DEF Same
<1>5. \A j \in Ids : Busy(k, j) <=> j = id
  BY <1>1, <1>2, BusyIs
<1>6. WorkOK(k, id) /\ \A q \in Tasks \ {k} : ~Busy(q, id)
  BY <1>2, <1>5 DEF RowsOK, Apart
<1>7. Whole(id) /\ live[id] = 0 /\ task[k].msg = 0
  BY <1>2, <1>6 DEF WorkOK
<1>8. /\ Alone(k) /\ \A j \in Ids : Busy(k, j)' <=> j = id
      /\ task'[k].pc = "removing" /\ task'[k].msg = 0 /\ task'[k].todo = ops
  BY <1>1, <1>2, <1>7, GoesBusy
<1>9. Shrinking(id, ops) /\ ops \subseteq ((Parts \X {id}) \X {0})
  <2>1. PICK n : n = rows[Rev(id)]
    OBVIOUS
  <2>2. n # 0 => n \in DOMAIN asked /\ asked[n].topics \subseteq Topics
    BY <1>2, <2>1, RevIs, AskedTypes
  <2>3. ops = {<<Rev(id), 0>>} \cup (IF n = 0 THEN {} ELSE {<<Fwd(t, id), 0>> : t \in asked[n].topics})
    BY <1>1, <2>1 DEF DeleteRows
  <2>4. ops \subseteq ((Parts \X {id}) \X {0})
    <3>1. <<Rev(id), 0>> \in (Parts \X {id}) \X {0} /\ \A t \in Topics : <<Fwd(t, id), 0>> \in (Parts \X {id}) \X {0}
      BY DEF Rev, Fwd, Parts
    <3> QED
      BY <2>2, <2>3, <3>1
  <2>5. ASSUME NEW t \in Topics PROVE rows[<<t, id>>] = 0 \/ <<<<t, id>>, 0>> \in ops
    BY <1>7, <2>1, <2>3 DEF Whole, Fwd
  <2>6. <<<<"rev", id>>, 0>> \in ops
    BY <2>3 DEF Rev
  <2> QED
    BY <2>4, <2>5, <2>6 DEF Shrinking, Parts
<1>10. Shrinking(id, ops)'
  BY <1>3, <1>9 DEF Shrinking
<1>11. WorkOK(k, id)'
  BY <1>3, <1>7, <1>8, <1>9, <1>10 DEF WorkOK
<1> QED
  BY <1>4, <1>5, <1>6, <1>8, <1>11, RegistryStep

LEMMA GoesCleaning ==
    ASSUME NEW k \in Tasks, NEW pc \in {"owned", "clearing"}, NEW todo, Goes(k, pc, todo)
    PROVE  /\ \A j \in Ids : Busy(k, j)'
           /\ task'[k].pc = pc /\ task'[k].sweep = task[k].sweep /\ task'[k].todo = todo
           /\ Alone(k)
<1>1. task'[k].pc = pc
  BY GoesFields
<1>2. \A j \in Ids : Busy(k, j)'
  BY <1>1 DEF Busy, Touches, At
<1> QED
  BY <1>1, <1>2, GoesFields DEF Alone

\* A 410 or a $disconnect: removeAll starts over all the ids of the socket.
LEMMA CleanupKeeps ==
    ASSUME StateOK, ClientOK, Next, Apart, RowsOK, Clean', NEW k \in Tasks,
           Goes(k, "owned", {}), task[k].sweep = 0,
           task[k].pc \in {"idle", "reply", "replay"},
           excuses' = excuses \cup
             (Crossed(k, Ids) \cup (IF \E q \in Tasks : At(q, "capture") THEN {"overtaken"} ELSE {})),
           live' = live, rows' = rows, asked' = asked, ready' = ready
    PROVE  Apart' /\ RowsOK'
<1>1. Crossed(k, Ids) = {} /\ \A q \in Tasks : ~At(q, "capture")
  BY DEF Clean
<1>2. \A q \in Tasks \ {k}, id \in Ids : ~Busy(q, id)
  BY <1>1 DEF Crossed, Busy, Captures
<1>3. ASSUME NEW id \in Ids PROVE Whole(id)
  <2>1. CASE Busy(k, id)
    <3>1. task[k].pc = "reply" /\ WorkOK(k, id)
      BY <2>1, BusyIs DEF RowsOK
    <3> QED
      BY <3>1 DEF WorkOK
  <2>2. CASE ~Busy(k, id)
    <3>1. \A q \in Tasks : ~Busy(q, id)
      BY <1>2, <2>2
    <3> QED
      BY <3>1 DEF RowsOK
  <2> QED
    BY <2>1, <2>2
<1>4. ASSUME NEW id \in Ids PROVE Whole(id)'
  BY <1>3 DEF Whole
<1>5. /\ \A j \in Ids : Busy(k, j)'
      /\ task'[k].pc = "owned" /\ task'[k].sweep = 0 /\ task'[k].todo = {} /\ Alone(k)
  BY GoesCleaning
<1>6. ASSUME NEW id \in Ids PROVE WorkOK(k, id)'
  <2>1. ~(id <= 0)
    BY SubscriptionsAssumption DEF Ids
  <2> QED
    BY <1>4, <1>5, <2>1 DEF WorkOK
<1> QED
  BY <1>2, <1>5, <1>6, RegistryStep

LEMMA ReplyKeeps ==
    ASSUME StateOK, ClientOK, Next, Apart, RowsOK, Clean', NEW k \in Tasks, Reply(k)
    PROVE  Apart' /\ RowsOK'
<1>1. PICK id : id = task[k].id
  OBVIOUS
<1>2. /\ task[k].pc = "reply" /\ task[k].todo = {} /\ task[k].sweep = 0 /\ id \in Ids \cup {0}
  BY <1>1, ReplyTo, RecordTypes DEF RecordOK
<1>3. bye' = bye /\ rows' = rows /\ asked' = asked /\ ready' = ready
  BY DEF Reply, sockVars
<1>4. \A j \in Ids : Busy(k, j) <=> j = id
  BY <1>1, <1>2, BusyIs
<1>5. ASSUME Turned(k, Idle) PROVE Alone(k) /\ \A j \in Ids : ~Busy(k, j)'
  <2>1. task'[k] = Idle
    BY <1>5 DEF Turned
  <2> QED
    BY <1>5, <2>1 DEF Turned, Alone, Busy, Touches, Captures, At, Idle
<1>6. CASE socket = "open" /\ Turned(k, Idle) /\ id = 0 /\ UNCHANGED clientVars
  <2>1. live' = live
    BY <1>6 DEF clientVars
  <2>2. \A j \in Ids : ~Busy(k, j)
    BY <1>4, <1>6 DEF Ids
  <2> QED
    BY <1>3, <1>5, <1>6, <2>1, <2>2, Bystander
<1>7. CASE Turned(k, Idle) /\ id # 0 /\ Ended(id) /\ Excuse(Reuse(id, {}))
  <2>0. id \in Ids
    BY <1>2, <1>7
  <2>1. live' = [live EXCEPT ![id] = 0] /\ live \in [Ids -> Subs]
    BY <1>7 DEF Ended, StateOK, DataOK
  <2>2. \A t \in Topics : rows[Fwd(t, id)] = 0
    BY <1>7 DEF Excuse, Clean, Reuse, Outgrown
  <2>3. Whole(id)
    BY <1>2, <1>4, <2>0 DEF RowsOK, WorkOK
  <2>4. rows[Rev(id)] = 0
    <3> SUFFICES ASSUME rows[Rev(id)] # 0 PROVE FALSE
      OBVIOUS
    <3>1. PICK n : n = rows[Rev(id)]
      OBVIOUS
    <3>2. n # 0 /\ n \in DOMAIN asked /\ asked[n].wants # {}
      BY <2>0, <2>3, <3>1, RevIs DEF Whole
    <3>3. PICK t \in asked[n].wants : t \in Topics
      BY <3>2, AskedTypes
    <3> QED
      BY <2>2, <2>3, <3>1, <3>2, <3>3 DEF Whole
  <2>5. Whole(id)' /\ Holds(id, rows[Rev(id)])'
    BY <1>3, <2>0, <2>1, <2>2, <2>4 DEF Whole, Holds
  <2>6. \A j \in Ids : j # id => Same(j)
    BY <1>3, <2>1 DEF Same
  <2> QED
    BY <1>4, <1>5, <1>7, <2>5, <2>6, RegistryStep
<1>8. CASE socket = "closed" /\ BeginCleanup(k) /\ UNCHANGED clientVars
  <2>1. live' = live
    BY <1>8 DEF clientVars
  <2> QED
    BY <1>2, <1>3, <1>8, <2>1, BeginCleanupTo, CleanupKeeps
<1>9. CASE Excuse({"send"})
  BY <1>9 DEF Excuse, Clean
<1>10. \/ socket = "open" /\ Turned(k, Idle) /\ id = 0 /\ UNCHANGED clientVars
       \/ Turned(k, Idle) /\ id # 0 /\ Ended(id) /\ Excuse(Reuse(id, {}))
       \/ socket = "closed" /\ BeginCleanup(k) /\ UNCHANGED clientVars
       \/ Excuse({"send"})
  BY <1>1, ReplyTo
<1> QED
  BY <1>6, <1>7, <1>8, <1>9, <1>10

\* An invocation that comes to the end of a registry call, or never was in one.
LEMMA EndsBusy ==
    ASSUME NEW k \in Tasks, Ends(k) \/ Turned(k, Idle)
    PROVE  Alone(k) /\ \A j \in Ids : ~Busy(k, j)'
<1>1. task'[k].pc \in {"idle", "targets"}
  <2>1. CASE task'[k] = Idle
    BY <2>1 DEF Idle
  <2>2. CASE task'[k] = Rec("targets", task[k].id, task[k].sub, task[k].msg, task[k].cursor,
                            task[k].targets, 0, {}, {})
    BY <2>2 DEF Rec
  <2> QED
    BY <2>1, <2>2 DEF Ends, Turned
<1>2. Alone(k)
  BY DEF Ends, Turned, Alone
<1> QED
  BY <1>1, <1>2 DEF Busy, Touches, Captures, At

\* Rows all deleted are the rows of nobody, and a closed socket's client holds nothing.
LEMMA AllGone ==
    ASSUME NEW id \in Ids, \A p \in Parts : rows'[<<p, id>>] = 0, live'[id] = 0
    PROVE  (Whole(id) /\ Holds(id, rows[Rev(id)]))'
<1>1. rows'[Rev(id)] = 0 /\ \A t \in Topics : rows'[Fwd(t, id)] = 0
  BY DEF Rev, Fwd, Parts
<1> QED
  BY <1>1 DEF Whole, Holds

LEMMA OwnedKeeps ==
    ASSUME StateOK, ClientOK, Next, Apart, RowsOK, NEW k \in Tasks, Owned(k)
    PROVE  Apart' /\ RowsOK'
<1>1. PICK next : next = After(PageOf("rev", task[k].sweep))
  OBVIOUS
<1>2. PICK ops : ops = Found(k)
  OBVIOUS
<1>3. PICK page : page = PageOf("rev", task[k].sweep)
  OBVIOUS
<1>4. task[k].pc = "owned" /\ socket = "closed" /\ task[k].sweep \in Nat
  BY OwnedTo, RecordTypes DEF ClientOK
<1>5. bye' = bye /\ live' = live /\ rows' = rows /\ asked' = asked /\ ready' = ready
  BY DEF Owned, sockVars, clientVars
<1>6. \A j \in Ids : Same(j)
  BY <1>5 DEF Same
<1>7. \A j \in Ids : Busy(k, j) /\ WorkOK(k, j) /\ \A q \in Tasks \ {k} : ~Busy(q, j)
  BY <1>4, BusyIs DEF RowsOK, Apart
<1>8. ASSUME NEW id \in Ids
      PROVE  /\ Whole(id) /\ task[k].todo \subseteq Keys \X {0}
             /\ id <= task[k].sweep => Shrinking(id, task[k].todo)
  BY <1>4, <1>7, <1>8 DEF WorkOK
<1>9. /\ page \subseteq Ids
      /\ \A id \in Ids : id > task[k].sweep /\ rows[Rev(id)] # 0 => id \in page \/ id > next
      /\ next \in 1..End
  BY <1>1, <1>3, <1>4, PageFacts DEF Rev
<1>10. ops = task[k].todo \cup UNION {DeleteRows(id) : id \in page}
  BY <1>2, <1>3 DEF Found
<1>11. ASSUME NEW id \in Ids PROVE DeleteRows(id) \subseteq Keys \X {0}
  <2>1. <<Rev(id), 0>> \in Keys \X {0} /\ \A t \in Topics : <<Fwd(t, id), 0>> \in Keys \X {0}
    BY DEF Rev, Fwd, Keys
  <2>2. rows[Rev(id)] # 0 => asked[rows[Rev(id)]].topics \subseteq Topics
    BY RevIs, AskedTypes
  <2> QED
    BY <2>1, <2>2 DEF DeleteRows
<1>12. ops \subseteq Keys \X {0}
  <2>1. Ids # {}
    BY SubscriptionsAssumption DEF Ids
  <2>2. task[k].todo \subseteq Keys \X {0}
    BY <1>8, <2>1
  <2> QED
    BY <1>9, <1>10, <1>11, <2>2
<1>13. ASSUME NEW id \in Ids, id <= next PROVE Shrinking(id, ops)
  <2>0. id \in Nat /\ next \in Nat
    BY <1>9, SubscriptionsAssumption DEF Ids, End
  <2>1. CASE id <= task[k].sweep
    BY <1>8, <1>10, <2>1 DEF Shrinking
  <2>2. CASE rows[Rev(id)] = 0
    <3>1. \A t \in Topics : rows[Fwd(t, id)] = 0
      BY <1>8, <2>2 DEF Whole
    <3> QED
      BY <2>2, <3>1 DEF Shrinking, Parts, Fwd, Rev
  <2>3. CASE id \in page /\ rows[Rev(id)] # 0
    <3>1. DeleteRows(id) \subseteq ops
      BY <1>10, <2>3
    <3>2. PICK n : n = rows[Rev(id)]
      OBVIOUS
    <3>3. /\ Whole(id) /\ n # 0 /\ asked[n].topics = asked[n].wants
      BY <1>8, <2>3, <3>2 DEF Whole
    <3>4. <<Rev(id), 0>> \in ops /\ \A t \in asked[n].wants : <<Fwd(t, id), 0>> \in ops
      BY <2>3, <3>1, <3>2, <3>3 DEF DeleteRows
    <3>5. \A t \in Topics : rows[Fwd(t, id)] = 0 \/ <<Fwd(t, id), 0>> \in ops
      BY <3>2, <3>3, <3>4 DEF Whole
    <3> QED
      BY <3>4, <3>5 DEF Shrinking, Parts, Fwd, Rev
  <2>4. id > task[k].sweep \/ id <= task[k].sweep
    BY <1>4, <2>0
  <2>5. ~(id > next)
    BY <1>13, <2>0
  <2> QED
    BY <1>9, <2>1, <2>2, <2>3, <2>4, <2>5
<1>14. \A id \in Ids : id <= End
  BY SubscriptionsAssumption DEF Ids, End
<1>15. CASE next # End
  <2>1. PICK i, s, m, c, ts : /\ i = task[k].id /\ s = task[k].sub /\ m = task[k].msg
                              /\ c = task[k].cursor /\ ts = task[k].targets
    OBVIOUS
  <2>2. PICK r : r = Rec("owned", i, s, m, c, ts, next, {}, ops)
    OBVIOUS
  <2>3. Turned(k, r)
    BY <1>1, <1>2, <1>15, <2>1, <2>2, OwnedTo
  <2>4. r.pc = "owned" /\ r.sweep = next /\ r.todo = ops
    BY <2>2, RecFields
  <2>5. Alone(k) /\ task'[k] = r
    BY <2>3 DEF Turned, Alone
  <2>6. \A j \in Ids : Busy(k, j)'
    BY <2>4, <2>5 DEF Busy, Touches, At
  <2>7. ASSUME NEW id \in Ids PROVE WorkOK(k, id)'
    <3>1. Whole(id)'
      BY <1>5, <1>8 DEF Whole
    <3>2. id <= next => Shrinking(id, ops)'
      BY <1>5, <1>13 DEF Shrinking
    <3> QED
      BY <1>12, <2>4, <2>5, <3>1, <3>2 DEF WorkOK
  <2> QED
    BY <1>7, <2>5, <2>6, <2>7, RegistryStep
<1>16. CASE next = End /\ ops = {}
  <2>1. Ends(k)
    BY <1>1, <1>2, <1>16, OwnedTo
  <2>2. Alone(k) /\ \A j \in Ids : ~Busy(k, j)'
    BY <2>1, EndsBusy
  <2>3. ASSUME NEW id \in Ids PROVE (Whole(id) /\ Holds(id, rows[Rev(id)]))'
    <3>1. Shrinking(id, {})
      BY <1>13, <1>14, <1>16
    <3>2. \A p \in Parts : rows'[<<p, id>>] = 0
      BY <1>5, <3>1 DEF Shrinking
    <3>3. live'[id] = 0
      BY <1>4, <1>5 DEF ClientOK
    <3> QED
      BY <3>2, <3>3, AllGone
  <2> QED
    BY <2>2, <2>3, <1>6, RegistryStep
<1>17. CASE next = End /\ ops # {}
  <2>1. Goes(k, "clearing", ops)
    BY <1>1, <1>2, <1>17, OwnedTo
  <2>2. /\ \A j \in Ids : Busy(k, j)'
        /\ task'[k].pc = "clearing" /\ task'[k].todo = ops /\ Alone(k)
    BY <2>1, GoesCleaning
  <2>3. ASSUME NEW id \in Ids PROVE WorkOK(k, id)'
    <3>1. Shrinking(id, ops)'
      BY <1>5, <1>13, <1>14, <1>17 DEF Shrinking
    <3> QED
      BY <1>12, <2>2, <3>1 DEF WorkOK
  <2> QED
    BY <1>7, <2>2, <2>3, RegistryStep
<1> QED
  BY <1>15, <1>16, <1>17

\* Writing one row of an id touches no row of another.
Writes(p, id, v) == rows' = [rows EXCEPT ![<<p, id>>] = v]

LEMMA OneRow ==
    ASSUME StateOK, NEW p \in Parts, NEW id \in Ids, NEW v, Writes(p, id, v)
    PROVE  /\ rows'[<<p, id>>] = v
           /\ \A q \in Parts, j \in Ids : <<q, j>> # <<p, id>> => rows'[<<q, j>>] = rows[<<q, j>>]
<1>1. <<p, id>> \in Keys /\ \A q \in Parts, j \in Ids : <<q, j>> \in Keys
  BY RowIs
<1>2. rows \in [Keys -> Subs]
  BY DEF StateOK, DataOK
<1> QED
  BY <1>1, <1>2 DEF Writes

\* One delete of a remove or a removeAll is answered.
LEMMA DeleteKeeps ==
    ASSUME StateOK, ClientOK, Next, Apart, RowsOK, NEW k \in Tasks,
           task[k].pc \in {"removing", "clearing"}, NEW op \in task[k].todo,
           rows' = [rows EXCEPT ![op[1]] = op[2]],
           bye' = bye, live' = live, asked' = asked, ready' = ready,
           task[k].todo = {op} => Ends(k),
           task[k].todo # {op} => Goes(k, task[k].pc, task[k].todo \ {op})
    PROVE  Apart' /\ RowsOK'
<1>0. PICK ops : ops = task[k].todo
  OBVIOUS
<1>1. \A id \in Ids : Busy(k, id) => WorkOK(k, id) /\ \A q \in Tasks \ {k} : ~Busy(q, id)
  BY DEF RowsOK, Apart
<1>2. \A id \in Ids : Busy(k, id) <=> task[k].pc = "clearing" \/ id = task[k].id
  BY BusyIs
<1>3. task[k].pc = "removing" => task[k].id \in Ids
  BY RecordTypes DEF RecordOK
<1>4. PICK p \in Parts, i \in Ids : op = <<<<p, i>>, 0>> /\ Busy(k, i)
  <2>1. CASE task[k].pc = "removing"
    <3>1. ops \subseteq ((Parts \X {task[k].id}) \X {0})
      BY <1>0, <1>1, <1>2, <1>3, <2>1 DEF WorkOK
    <3> QED
      BY <1>0, <1>2, <1>3, <2>1, <3>1
  <2>2. CASE task[k].pc = "clearing"
    <3>1. 1 \in Ids
      BY SubscriptionsAssumption DEF Ids
    <3>2. ops \subseteq Keys \X {0}
      BY <1>0, <1>1, <1>2, <2>2, <3>1 DEF WorkOK
    <3> QED
      BY <1>0, <1>2, <2>2, <3>2 DEF Keys, Parts
  <2> QED
    BY <2>1, <2>2
<1>5. Writes(p, i, 0)
  BY <1>4 DEF Writes
<1>6. /\ rows'[<<p, i>>] = 0
      /\ \A q \in Parts, j \in Ids : <<q, j>> # <<p, i>> => rows'[<<q, j>>] = rows[<<q, j>>]
  BY <1>5, OneRow
<1>7. ASSUME NEW id \in Ids, ~Busy(k, id) PROVE Same(id)
  <2>1. id # i
    BY <1>4, <1>7
  <2>2. \A q \in Parts : rows'[<<q, id>>] = rows[<<q, id>>]
    BY <1>6, <2>1
  <2> QED
    BY <2>2 DEF Same
<1>8. ASSUME NEW id \in Ids, Busy(k, id)
      PROVE  \A q \in Parts : rows'[<<q, id>>] = 0 \/ <<<<q, id>>, 0>> \in ops \ {op}
  <2>1. Shrinking(id, ops)
    BY <1>0, <1>1, <1>8, <1>2 DEF WorkOK
  <2> SUFFICES ASSUME NEW q \in Parts, rows'[<<q, id>>] # 0
               PROVE  <<<<q, id>>, 0>> \in ops \ {op}
    OBVIOUS
  <2>2. <<q, id>> # <<p, i>> /\ rows[<<q, id>>] # 0
    BY <1>6
  <2>3. <<<<q, id>>, 0>> # op
    BY <1>4, <2>2
  <2> QED
    BY <2>1, <2>2, <2>3 DEF Shrinking
<1>9. \A id \in Ids : Busy(k, id) => live'[id] = 0
  <2>1. task[k].pc = "clearing" => \A id \in Ids : live[id] = 0
    BY DEF ClientOK
  <2>2. task[k].pc = "removing" => \A id \in Ids : Busy(k, id) => live[id] = 0
    BY <1>1 DEF WorkOK
  <2> QED
    BY <2>1, <2>2
<1>10. CASE ops = {op}
  <2>1. Alone(k) /\ \A j \in Ids : ~Busy(k, j)'
    BY <1>0, <1>10, EndsBusy
  <2>2. ASSUME NEW id \in Ids, Busy(k, id) PROVE (Whole(id) /\ Holds(id, rows[Rev(id)]))'
    <3>1. \A q \in Parts : rows'[<<q, id>>] = 0
      BY <1>8, <1>10, <2>2
    <3> QED
      BY <1>9, <2>2, <3>1, AllGone
  <2> QED
    BY <1>7, <2>1, <2>2, RegistryStep
<1>11. CASE ops # {op} /\ task[k].pc = "removing"
  <2>0. PICK rest : rest = ops \ {op}
    OBVIOUS
  <2>1. Goes(k, "removing", rest)
    BY <1>0, <1>11, <2>0
  <2>2. /\ Alone(k) /\ \A j \in Ids : Busy(k, j)' <=> task[k].id = j
        /\ task'[k].pc = "removing" /\ task'[k].msg = task[k].msg /\ task'[k].todo = rest
    BY <2>1, GoesBusy
  <2>3. ASSUME NEW id \in Ids, id = task[k].id PROVE WorkOK(k, id)'
    <3>1. /\ live[id] = 0 /\ task[k].msg = 0 /\ ops \subseteq ((Parts \X {id}) \X {0})
      BY <1>0, <1>1, <1>2, <1>11, <2>3 DEF WorkOK
    <3>2. Shrinking(id, rest)'
      BY <1>2, <1>8, <2>0, <2>3 DEF Shrinking
    <3> QED
      BY <2>0, <2>2, <3>1, <3>2 DEF WorkOK
  <2>4. \A id \in Ids : Busy(k, id) <=> Busy(k, id)'
    BY <1>2, <1>11, <2>2
  <2>5. \A id \in Ids : Busy(k, id)' => WorkOK(k, id)'
    BY <2>2, <2>3
  <2> QED
    BY <1>1, <1>7, <2>2, <2>4, <2>5, RegistryStep
<1>12. CASE ops # {op} /\ task[k].pc = "clearing"
  <2>0. PICK rest : rest = ops \ {op}
    OBVIOUS
  <2>1. Goes(k, "clearing", rest)
    BY <1>0, <1>12, <2>0
  <2>2. /\ Alone(k) /\ \A j \in Ids : Busy(k, j)'
        /\ task'[k].pc = "clearing" /\ task'[k].todo = rest
    BY <2>1, GoesCleaning
  <2>3. ASSUME NEW id \in Ids PROVE WorkOK(k, id)'
    <3>1. ops \subseteq Keys \X {0}
      BY <1>0, <1>1, <1>2, <1>12 DEF WorkOK
    <3>2. Shrinking(id, rest)'
      BY <1>2, <1>8, <1>12, <2>0 DEF Shrinking
    <3> QED
      BY <2>0, <2>2, <3>1, <3>2 DEF WorkOK
  <2>4. \A id \in Ids : Busy(k, id)
    BY <1>2, <1>12
  <2> QED
    BY <1>1, <2>2, <2>3, <2>4, RegistryStep
<1> QED
  BY <1>0, <1>10, <1>11, <1>12

\* One put of an add is answered.
LEMMA PutKeeps ==
    ASSUME StateOK, ClientOK, Next, Apart, RowsOK, NEW k \in Tasks,
           task[k].pc = "adding", NEW op \in task[k].todo,
           rows' = [rows EXCEPT ![op[1]] = op[2]],
           bye' = bye, live' = live, asked' = asked,
           task[k].todo = {op} => Ends(k) /\ ready' = ready \cup {task[k].sub},
           task[k].todo # {op} => Goes(k, "adding", task[k].todo \ {op}) /\ ready' = ready
    PROVE  Apart' /\ RowsOK'
<1>0. PICK ops, id, n : ops = task[k].todo /\ id = task[k].id /\ n = task[k].sub
  OBVIOUS
<1>1. id \in Ids /\ n \in DOMAIN asked /\ n # 0 /\ asked[n].id = id
  BY <1>0, SubIs
<1>2. \A j \in Ids : Busy(k, j) <=> j = id
  BY <1>0, BusyIs
<1>3. WorkOK(k, id) /\ \A q \in Tasks \ {k} : ~Busy(q, id)
  BY <1>1, <1>2 DEF RowsOK, Apart
<1>4. Holds(id, n) /\ n \notin ready /\ Growing(id, n, ops)
  BY <1>0, <1>3 DEF WorkOK
<1>5. PICK w : w = asked[n].wants
  OBVIOUS
<1>6. /\ w \subseteq Topics /\ w # {} /\ asked[n].topics = w
      /\ ops \subseteq PutRows(id, n, w) /\ ops # {}
      /\ \A o \in PutRows(id, n, w) \ ops : rows[o[1]] = n
      /\ \A t \in Topics \ w : rows[Fwd(t, id)] = 0
  BY <1>1, <1>4, <1>5, AskedTypes DEF Growing
<1>7. \A o : o \in PutRows(id, n, w) <=> \E q \in w \cup {"rev"} : o = <<<<q, id>>, n>>
  BY DEF PutRows, Fwd, Rev
<1>8. PICK p \in w \cup {"rev"} : op = <<<<p, id>>, n>>
  BY <1>0, <1>6, <1>7
<1>9. p \in Parts /\ w \cup {"rev"} \subseteq Parts
  BY <1>6, <1>8 DEF Parts
<1>10. Writes(p, id, n)
  BY <1>8 DEF Writes
<1>11. /\ rows'[<<p, id>>] = n
       /\ \A q \in Parts, j \in Ids : <<q, j>> # <<p, id>> => rows'[<<q, j>>] = rows[<<q, j>>]
  BY <1>1, <1>9, <1>10, OneRow
<1>12. \A t \in Topics \ w : rows'[Fwd(t, id)] = 0
  <2>1. ASSUME NEW t \in Topics \ w PROVE rows'[<<t, id>>] = 0
    <3>1. t # p /\ t \in Parts
      BY <1>8, SubscriptionsAssumption DEF Parts
    <3> QED
      BY <1>1, <1>6, <1>11, <3>1 DEF Fwd
  <2> QED
    BY <2>1 DEF Fwd
<1>13. \A o \in PutRows(id, n, w) \ (ops \ {op}) : rows'[o[1]] = n
  <2> SUFFICES ASSUME NEW o \in PutRows(id, n, w) \ (ops \ {op}) PROVE rows'[o[1]] = n
    OBVIOUS
  <2>1. PICK q \in w \cup {"rev"} : o = <<<<q, id>>, n>>
    BY <1>7
  <2>2. CASE q = p
    BY <1>11, <2>1, <2>2
  <2>3. CASE q # p
    <3>1. o # op /\ o \notin ops
      BY <1>8, <2>1, <2>3
    <3>2. rows[<<q, id>>] = n
      BY <1>6, <2>1, <3>1
    <3>3. <<q, id>> # <<p, id>> /\ q \in Parts
      BY <1>9, <2>3
    <3>4. rows'[<<q, id>>] = n
      BY <1>1, <1>11, <3>2, <3>3
    <3> QED
      BY <2>1, <3>4
  <2> QED
    BY <2>2, <2>3
<1>14. \A j \in Ids : j # id => Same(j)
  <2> SUFFICES ASSUME NEW j \in Ids, j # id PROVE Same(j)
    OBVIOUS
  <2>1. \A q \in Parts : rows'[<<q, j>>] = rows[<<q, j>>]
    BY <1>11
  <2>2. \A m \in DOMAIN asked : asked[m].id = j => (m \in ready' <=> m \in ready)
    <3>1. ready' = ready \/ ready' = ready \cup {n}
      BY <1>0
    <3> QED
      BY <1>1, <3>1
  <2> QED
    BY <2>1, <2>2 DEF Same
<1>15. Holds(id, n)'
  BY <1>4 DEF Holds
<1>16. CASE ops = {op}
  <2>1. Alone(k) /\ \A j \in Ids : ~Busy(k, j)'
    BY <1>0, <1>16, EndsBusy
  <2>2. \A q \in w \cup {"rev"} : rows'[<<q, id>>] = n
    <3> SUFFICES ASSUME NEW q \in w \cup {"rev"} PROVE rows'[<<q, id>>] = n
      OBVIOUS
    <3>1. PICK o : o = <<<<q, id>>, n>>
      OBVIOUS
    <3>2. o \in PutRows(id, n, w) \ (ops \ {op})
      BY <1>7, <1>16, <3>1
    <3> QED
      BY <1>13, <3>1, <3>2
  <2>3. Whole(id)' /\ Holds(id, rows[Rev(id)])'
    <3>1. rows'[Rev(id)] = n /\ \A t \in w : rows'[Fwd(t, id)] = n
      BY <2>2 DEF Rev, Fwd
    <3>2. Whole(id)'
      BY <1>1, <1>5, <1>6, <1>12, <3>1 DEF Whole
    <3> QED
      BY <1>15, <3>1, <3>2 DEF Holds
  <2> QED
    BY <1>2, <1>14, <2>1, <2>3, RegistryStep
<1>17. CASE ops # {op}
  <2>0. PICK rest : rest = ops \ {op}
    OBVIOUS
  <2>1. Goes(k, "adding", rest) /\ ready' = ready
    BY <1>0, <1>17, <2>0
  <2>2. /\ Alone(k) /\ \A j \in Ids : Busy(k, j)' <=> id = j
        /\ task'[k].pc = "adding" /\ task'[k].sub = n /\ task'[k].todo = rest
    BY <1>0, <2>1, GoesBusy
  <2>3. Growing(id, n, rest)'
    <3>1. rest \subseteq PutRows(id, n, w) /\ rest # {}
      BY <1>0, <1>6, <1>17, <2>0
    <3>2. \A o \in PutRows(id, n, w) \ rest : rows'[o[1]] = n
      BY <1>13, <2>0
    <3> QED
      BY <1>5, <1>6, <1>12, <3>1, <3>2 DEF Growing, PutRows, Fwd, Rev
  <2>4. WorkOK(k, id)'
    BY <1>4, <1>15, <2>1, <2>2, <2>3 DEF WorkOK
  <2> QED
    BY <1>2, <1>3, <1>14, <2>2, <2>4, RegistryStep
<1> QED
  BY <1>16, <1>17

LEMMA RowDoneKeeps ==
    ASSUME StateOK, ClientOK, Next, Apart, RowsOK, NEW k \in Tasks, RowDone(k)
    PROVE  Apart' /\ RowsOK'
<1>1. bye' = bye /\ live' = live /\ asked' = asked
  BY DEF RowDone, sockVars, clientVars
<1>2. PICK op \in task[k].todo :
        /\ task[k].pc \in {"adding", "removing", "clearing"}
        /\ rows' = [rows EXCEPT ![op[1]] = op[2]]
        /\ task[k].todo = {op} =>
             /\ Ends(k)
             /\ ready' = IF task[k].pc = "adding" THEN ready \cup {task[k].sub} ELSE ready
        /\ task[k].todo # {op} =>
             Goes(k, task[k].pc, task[k].todo \ {op}) /\ ready' = ready
  BY RowDoneTo
<1>3. CASE task[k].pc = "adding"
  BY <1>1, <1>2, <1>3, PutKeeps
<1>4. CASE task[k].pc \in {"removing", "clearing"}
  BY <1>1, <1>2, <1>4, DeleteKeeps
<1> QED
  BY <1>2, <1>3, <1>4

\* An invocation that gives up before it has sent any call leaves the rows alone.
LEMMA NothingSent ==
    ASSUME StateOK, NEW k \in Tasks, task[k].todo = {}, Abandon(k)
    PROVE  rows' = rows
<1>1. Sent(k) = {}
  BY DEF Sent
<1>2. rows' = [key \in Keys |-> rows[key]]
  BY <1>1 DEF Abandon
<1> QED
  BY <1>2 DEF StateOK, DataOK

\* A flush that moves on, or gives up, works on no rows.
LEMMA FlushKeeps ==
    ASSUME StateOK, ClientOK, Next, Apart, RowsOK, Clean', NEW k \in Tasks,
           \/ StartFlush(k) \/ FanoutPage(k) \/ Claim(k) \/ PageDone(k) \/ SendFails(k)
           \/ RowFails(k) \/ Crash(k)
    PROVE  Apart' /\ RowsOK'
<1>1. task[k].pc \in {"idle", "page", "targets", "replay"}
  <2>1. CASE StartFlush(k) \/ FanoutPage(k) \/ Claim(k) \/ PageDone(k) \/ SendFails(k)
    BY <2>1 DEF StartFlush, FanoutPage, Claim, PageDone, SendFails, At
  <2>2. CASE RowFails(k)
    BY <2>2 DEF RowFails, Excuse, Clean, At
  <2>3. CASE Crash(k)
    <3>1. Touches(k) = {} /\ ~At(k, "capture")
      BY <2>3 DEF Crash, Excuse, Clean
    <3>2. task[k].pc \in TaskPcs
      BY RecordTypes
    <3>3. Ids # {}
      BY SubscriptionsAssumption DEF Ids
    <3> QED
      BY <3>1, <3>2, <3>3 DEF Touches, TaskPcs, At
  <2> QED
    BY <2>1, <2>2, <2>3
<1>2. task[k].todo = {} /\ \A j \in Ids : ~Busy(k, j)
  BY <1>1, RecordTypes, BusyIs DEF RecordOK
<1>3. /\ bye' = bye /\ live' = live /\ rows' = rows /\ asked' = asked /\ ready' = ready
  <2>1. CASE StartFlush(k) \/ FanoutPage(k) \/ Claim(k) \/ PageDone(k)
    BY <2>1 DEF StartFlush, FanoutPage, Claim, PageDone, sockVars, clientVars
  <2>2. CASE SendFails(k)
    BY <2>2 DEF SendFails, sockVars, clientVars
  <2>3. CASE RowFails(k) \/ Crash(k)
    BY <1>2, <2>3, NothingSent DEF RowFails, Crash, sockVars, clientVars
  <2> QED
    BY <2>1, <2>2, <2>3
<1>4. Alone(k) /\ \A j \in Ids : ~Busy(k, j)'
  <2>1. CASE StartFlush(k)
    <3>1. PICK m : Turned(k, Rec("page", 0, 0, m, 0, {}, 0, {}, {}))
      BY <2>1, StartFlushTo
    <3> QED
      BY <3>1, OneBusy
  <2>2. CASE FanoutPage(k)
    <3>1. PICK i, s, m, next, page, w, ops :
            Turned(k, Rec("targets", i, s, m, next, page, w, {}, ops))
      BY <2>2, FanoutPageTo
    <3> QED
      BY <3>1, OneBusy
  <2>3. CASE Claim(k)
    <3>1. PICK pc, i, s, m, c, ts, w, ops :
            Turned(k, Rec(pc, i, s, m, c, ts, w, {}, ops)) /\ pc \in {"targets", "replay"}
      BY <2>3, ClaimTo
    <3> QED
      BY <3>1, OneBusy
  <2>4. CASE PageDone(k)
    <3>1. Turned(k, Idle) \/ Goes(k, "page", {})
      BY <2>4, PageDoneTo
    <3> QED
      BY <3>1, EndsBusy, GoesBusy
  <2>5. CASE SendFails(k) \/ RowFails(k) \/ Crash(k)
    BY <2>5, GivesUp, EndsBusy
  <2> QED
    BY <2>1, <2>2, <2>3, <2>4, <2>5
<1> QED
  BY <1>2, <1>3, <1>4, Bystander

LEMMA DeliverKeeps ==
    ASSUME StateOK, ClientOK, Next, Apart, RowsOK, Clean', NEW k \in Tasks, Deliver(k)
    PROVE  Apart' /\ RowsOK'
<1>1. bye' = bye /\ live' = live /\ rows' = rows /\ asked' = asked /\ ready' = ready
  BY DEF Deliver, sockVars, clientVars
<1>2. task[k].pc = "replay" /\ task[k].todo = {} /\ task[k].sweep = 0
  BY DeliverTo, RecordTypes DEF RecordOK
<1>3. CASE NextTarget(k)
  <2>1. PICK m, c, ts, w, ops : Turned(k, Rec("targets", 0, 0, m, c, ts, w, {}, ops))
    BY <1>3, NextTargetTo
  <2>2. Alone(k) /\ \A j \in Ids : ~Busy(k, j)'
    BY <2>1, OneBusy
  <2>3. \A j \in Ids : ~Busy(k, j)
    BY <1>2, BusyIs
  <2> QED
    BY <1>1, <2>2, <2>3, Bystander
<1>4. CASE BeginCleanup(k)
  BY <1>1, <1>2, <1>4, BeginCleanupTo, CleanupKeeps
<1> QED
  BY <1>3, <1>4, DeliverTo

LEMMA DisconnectedKeeps ==
    ASSUME StateOK, ClientOK, Next, Apart, RowsOK, Clean', NEW k \in Tasks, Disconnected(k)
    PROVE  Apart' /\ RowsOK'
<1>1. live' = live /\ rows' = rows /\ asked' = asked /\ ready' = ready
  BY DEF Disconnected, clientVars
<1>2. task[k].pc = "idle" /\ task[k].sweep = 0
  BY DisconnectedTo DEF Idle
<1> QED
  BY <1>1, <1>2, DisconnectedTo, CleanupKeeps

LEMMA PublishKeeps ==
    ASSUME StateOK, ClientOK, Next, Apart, RowsOK, NEW t \in Topics, Publish(t)
    PROVE  Apart' /\ RowsOK'
<1>1. bye' = bye /\ live' = live /\ rows' = rows /\ asked' = asked /\ ready' = ready /\ task' = task
  BY DEF Publish, sockVars
<1>2. \A id \in Ids : Same(id)
  BY <1>1 DEF Same
<1>3. \A q \in Tasks, id \in Ids : Busy(q, id)' <=> Busy(q, id)
  BY <1>1, BusyStays
<1>4. Apart'
  BY <1>3 DEF Apart
<1>5. ASSUME NEW id \in Ids, \A q \in Tasks : ~Busy(q, id)'
      PROVE  (Whole(id) /\ Holds(id, rows[Rev(id)]))'
  <2>1. Whole(id) /\ Holds(id, rows[Rev(id)])
    BY <1>3, <1>5 DEF RowsOK
  <2> QED
    BY <1>2, <2>1, WholeStays, HoldsStays DEF Holds
<1>6. ASSUME NEW id \in Ids, NEW q \in Tasks, Busy(q, id)' PROVE WorkOK(q, id)'
  <2>1. Busy(q, id) /\ WorkOK(q, id) /\ task'[q] = task[q]
    BY <1>1, <1>3, <1>6 DEF RowsOK
  <2> QED
    BY <1>2, <2>1, WorkStays
<1> QED
  BY <1>4, <1>5, <1>6 DEF RowsOK

LEMMA ClosesKeeps ==
    ASSUME StateOK, ClientOK, Apart, RowsOK, ClientCloses
    PROVE  Apart' /\ RowsOK'
<1>1. /\ bye' = TRUE /\ rows' = rows /\ asked' = asked /\ ready' = ready /\ task' = task
      /\ \A id \in Ids : live'[id] = 0
  BY DEF ClientCloses
<1>3. \A q \in Tasks, id \in Ids : Busy(q, id)' <=> Busy(q, id)
  BY <1>1, BusyStays
<1>4. Apart'
  BY <1>3 DEF Apart
<1>5. ASSUME NEW id \in Ids, \A q \in Tasks : ~Busy(q, id)'
      PROVE  (Whole(id) /\ Holds(id, rows[Rev(id)]))'
  BY <1>1, <1>3, <1>5 DEF RowsOK, Whole, Holds
<1>6. ASSUME NEW id \in Ids, NEW q \in Tasks, Busy(q, id)' PROVE WorkOK(q, id)'
  <2>1. WorkOK(q, id)
    BY <1>3, <1>6 DEF RowsOK
  <2>2. Whole(id) => Whole(id)'
    BY <1>1 DEF Whole
  <2>3. /\ \A ops : Shrinking(id, ops) => Shrinking(id, ops)'
        /\ \A n, ops : Growing(id, n, ops) => Growing(id, n, ops)'
        /\ \A n : Holds(id, n)'
    BY <1>1 DEF Shrinking, Growing, Holds, PutRows, Fwd, Rev
  <2> QED
    BY <1>1, <2>1, <2>2, <2>3 DEF WorkOK
<1> QED
  BY <1>4, <1>5, <1>6 DEF RowsOK

\* Nothing that happened is forgotten.
LEMMA ExcusesGrow == ASSUME Next PROVE excuses \subseteq excuses'
<1>1. ASSUME NEW k \in Tasks, Step(k) PROVE excuses \subseteq excuses'
  BY <1>1 DEF Step, Capture, Reply, LookedUp, Owned, RowDone, FanoutPage, Claim, Deliver, PageDone,
              Excuse, BeginCleanup, Gone
<1>2. ASSUME NEW k \in Tasks, \/ StartFlush(k) \/ Disconnected(k) \/ RowFails(k) \/ Crash(k)
                              \/ SendFails(k) \/ Drift(k)
      PROVE  excuses \subseteq excuses'
  BY <1>2 DEF StartFlush, Disconnected, RowFails, Crash, SendFails, Drift, Excuse, BeginCleanup
<1>3. ASSUME NEW k \in Tasks, NEW id, NEW topics,
             Complete(k, id) \/ Subscribe(k, id, topics) \/ AnswerInline(k, id)
      PROVE  excuses \subseteq excuses'
  BY <1>3 DEF Complete, Subscribe, AnswerInline, Excuse
<1>4. ASSUME (\E t \in Topics : Publish(t)) \/ ClientCloses \/ ByeLost PROVE excuses \subseteq excuses'
  BY <1>4 DEF Publish, ClientCloses, ByeLost, Excuse
<1> QED
  BY <1>1, <1>2, <1>3, <1>4 DEF Next

LEMMA RegistryNext ==
    ASSUME StateOK, ClientOK, RegistryOK, Next
    PROVE  RegistryOK'
<1> SUFFICES ASSUME Clean' PROVE Apart' /\ RowsOK'
  BY DEF RegistryOK
<1>1. Apart /\ RowsOK
  BY ExcusesGrow DEF Clean, RegistryOK
<1>2. ASSUME NEW k \in Tasks, Step(k) PROVE Apart' /\ RowsOK'
  BY <1>1, <1>2, CaptureKeeps, ReplyKeeps, LookedUpKeeps, OwnedKeeps, RowDoneKeeps, FlushKeeps,
     DeliverKeeps DEF Step
<1>3. ASSUME NEW k \in Tasks,
             StartFlush(k) \/ Disconnected(k) \/ RowFails(k) \/ Crash(k) \/ SendFails(k)
      PROVE  Apart' /\ RowsOK'
  BY <1>1, <1>3, FlushKeeps, DisconnectedKeeps
<1>4. ASSUME NEW k \in Tasks, Drift(k) PROVE FALSE
  BY <1>4, DriftTo DEF Clean
<1>5. ASSUME ByeLost PROVE FALSE
  BY <1>5 DEF ByeLost, Excuse, Clean
<1>6. ASSUME NEW k \in Tasks, NEW id \in Ids, Complete(k, id) PROVE Apart' /\ RowsOK'
  BY <1>1, <1>6, CompleteKeeps
<1>7. ASSUME NEW k \in Tasks, NEW id \in Ids, NEW topics \in SUBSET Topics, Subscribe(k, id, topics)
      PROVE  Apart' /\ RowsOK'
  BY <1>1, <1>7, SubscribeKeeps
<1>8. ASSUME NEW k \in Tasks, NEW id \in Ids \cup {0}, AnswerInline(k, id) PROVE Apart' /\ RowsOK'
  BY <1>1, <1>8, AnswerInlineKeeps
<1>9. ASSUME NEW t \in Topics, Publish(t) PROVE Apart' /\ RowsOK'
  BY <1>1, <1>9, PublishKeeps
<1>10. ASSUME ClientCloses PROVE Apart' /\ RowsOK'
  BY <1>1, <1>10, ClosesKeeps
<1> QED
  BY <1>2, <1>3, <1>4, <1>5, <1>6, <1>7, <1>8, <1>9, <1>10 DEF Next

LEMMA InvInit == ASSUME Init PROVE ClientOK /\ FlushesOK /\ RegistryOK
<1>1. \A k \in Tasks : task[k] = Idle
  BY DEF Init
<1>2. \A id \in Ids : live[id] = 0
  BY DEF Init
<1>3. \A p \in Parts, id \in Ids : rows[<<p, id>>] = 0
  BY DEF Init, Keys, Parts
<1>4. ClientOK /\ FlushesOK
  BY <1>1, <1>2 DEF Init, ClientOK, FlushesOK, Idle
<1>5. \A k \in Tasks, id \in Ids : ~Busy(k, id)
  BY <1>1, IdleBusy
<1>6. \A id \in Ids : Whole(id) /\ Holds(id, rows[Rev(id)])
  BY <1>2, <1>3 DEF Whole, Holds, Rev, Fwd, Parts
<1> QED
  BY <1>4, <1>5, <1>6 DEF RegistryOK, Apart, RowsOK

LEMMA InvStays ==
    ASSUME ClientOK, FlushesOK, RegistryOK, UNCHANGED vars
    PROVE  ClientOK' /\ FlushesOK' /\ RegistryOK'
<1>1. /\ socket' = socket /\ bye' = bye /\ rows' = rows /\ asked' = asked /\ messages' = messages
      /\ flushed' = flushed /\ task' = task /\ live' = live /\ ready' = ready /\ owed' = owed
      /\ excuses' = excuses
  BY DEF vars, sockVars, clientVars, outVars
<1>2. ClientOK' /\ FlushesOK'
  BY <1>1 DEF ClientOK, FlushesOK
<1>3. \A k \in Tasks, id \in Ids : (Busy(k, id)' <=> Busy(k, id)) /\ (WorkOK(k, id)' <=> WorkOK(k, id))
  BY <1>1 DEF Busy, Touches, Captures, At, WorkOK, Whole, Holds, Growing, Shrinking, PutRows, Fwd, Rev
<1>4. \A id \in Ids : (Whole(id) /\ Holds(id, rows[Rev(id)]))' <=> (Whole(id) /\ Holds(id, rows[Rev(id)]))
  BY <1>1 DEF Whole, Holds, Fwd, Rev
<1>5. RegistryOK'
  BY <1>1, <1>3, <1>4 DEF RegistryOK, Clean, Apart, RowsOK
<1> QED
  BY <1>2, <1>5

LEMMA InvAlways == Spec => [](StateOK /\ ClientOK /\ FlushesOK /\ RegistryOK)
<1> DEFINE Inv == StateOK /\ ClientOK /\ FlushesOK /\ RegistryOK
<1>1. Init => Inv
  BY StateInit, InvInit
<1>2. Inv /\ [Next]_vars => Inv'
  <2>1. CASE Next
    BY <2>1, StateNext, ClientNext, FlushesNext, RegistryNext
  <2>2. CASE UNCHANGED vars
    BY <2>2, StateNext, InvStays
  <2> QED
    BY <2>1, <2>2
<1> QED
  BY <1>1, <1>2, PTL DEF Spec

LEMMA QuietMatches ==
    ASSUME StateOK, ClientOK, RegistryOK
    PROVE  RegistryMatchesClient
<1> SUFFICES ASSUME Quiet, Clean PROVE rows = [key \in Keys |-> Deserved(key)]
  BY DEF RegistryMatchesClient, Clean
<1>1. ~bye /\ \A k \in Tasks, id \in Ids : ~Busy(k, id)
  BY DEF Quiet, Busy, Captures
<1>2. \A id \in Ids : Whole(id) /\ live[id] = rows[Rev(id)]
  BY <1>1 DEF RegistryOK, RowsOK, Holds
<1>3. ASSUME NEW key \in Keys PROVE rows[key] = Deserved(key)
  <2>1. PICK p \in Parts, id \in Ids : key = <<p, id>>
    BY DEF Keys, Parts
  <2>2. PICK n : n = live[id] /\ n = rows[Rev(id)]
    BY <1>2
  <2>3. Deserved(key) = IF n # 0 /\ (p = "rev" \/ p \in asked[n].wants) THEN n ELSE 0
    BY <2>1, <2>2 DEF Deserved
  <2>4. CASE p = "rev"
    <3>1. rows[key] = n
      BY <2>1, <2>2, <2>4 DEF Rev
    <3> QED
      BY <2>3, <2>4, <3>1
  <2>5. CASE p # "rev"
    <3>1. p \in Topics
      BY <2>5 DEF Parts
    <3>2. rows[key] = IF n # 0 /\ p \in asked[n].wants THEN n ELSE 0
      BY <1>2, <2>1, <2>2, <3>1 DEF Whole, Fwd
    <3> QED
      BY <2>3, <2>5, <3>2
  <2> QED
    BY <2>4, <2>5
<1>4. rows \in [Keys -> Subs]
  BY DEF StateOK, DataOK
<1> QED
  BY <1>3, <1>4

\* Once the frames are answered and no $disconnect is due, the registry holds one
\* row per topic and the reverse row of each subscribe the client holds, and no
\* other, whatever was subscribed, completed and closed, over however many ids,
\* topics and pages, unless one of the named races or failures happened
\* (DynamoSubscriptionRegistry.add, remove and removeAll as GraphQLWsHandler
\* calls them).
THEOREM RegistryIsKept == Spec => []RegistryMatchesClient
<1>1. StateOK /\ ClientOK /\ FlushesOK /\ RegistryOK => RegistryMatchesClient
  BY QuietMatches
<1> QED
  BY <1>1, InvAlways, PTL

-----------------------------------------------------------------------------
(* Without races and failures, every frame that is due is sent              *)

\* Invocation k is at the delivery of this frame.
Replays(k, due) == task[k].pc = "replay" /\ task[k].msg = due[1] /\ task[k].id = due[2]

\* An invocation that flushes the record of a due frame has sent it, has it in its
\* hands, or has not come to the page it is on.
Serving(k, due) ==
    LET r == task[k]
    IN r.msg = due[1] =>
         /\ r.pc = "page" => due \in got \/ due[2] > r.cursor
         /\ r.pc \in {"targets", "replay"} =>
              /\ \/ due \in got \/ due[2] > r.cursor \/ <<due[2], due[3]>> \in r.targets
                 \/ Replays(k, due)
              /\ \A x \in r.targets : x[1] = due[2] => x[2] = due[3]
         /\ Replays(k, due) => r.sub = due[3]

DueOK(due) ==
    /\ due[1] \in flushed => due \in got
    /\ <<due[1], due[2]>> \in claims => due \in got \/ \E k \in Tasks : Replays(k, due)
    /\ \A k \in Tasks : Serving(k, due)

DeliveryOK == Clean => \A due \in owed : DueOK(due)

\* What a due frame is about.
LEMMA DueIs ==
    ASSUME StateOK, ClientOK, NEW due \in owed
    PROVE  /\ due = <<due[1], due[2], due[3]>>
           /\ due[1] \in DOMAIN messages /\ due[1] # 0 /\ due[2] \in Ids /\ due[3] \in DOMAIN asked
           /\ due[3] # 0 /\ live[due[2]] = due[3] /\ due[3] \in ready
           /\ messages[due[1]] \in Topics /\ messages[due[1]] \in asked[due[3]].wants
           /\ <<due[1], due[2]>> \notin Rejected /\ socket = "open" /\ ~bye
<1>1. due \in (DOMAIN messages) \X Ids \X (DOMAIN asked)
  BY DEF StateOK, DataOK, Frames
<1>2. /\ due = <<due[1], due[2], due[3]>> /\ due[1] \in DOMAIN messages /\ due[2] \in Ids
      /\ due[3] \in DOMAIN asked
  BY <1>1
<1>3. due[1] # 0 /\ due[3] # 0 /\ messages[due[1]] \in Topics
  BY <1>2, AskedTypes
<1>4. socket = "open"
  BY <1>2, <1>3 DEF ClientOK, StateOK, DataOK
<1> QED
  BY <1>2, <1>3, <1>4 DEF ClientOK

\* The rows of a subscribe that is ready and held are all there to be found.
LEMMA RowsReady ==
    ASSUME StateOK, ClientOK, RegistryOK, Clean, NEW due \in owed
    PROVE  rows[Fwd(messages[due[1]], due[2])] = due[3]
<1>1. PICK id, n, t : id = due[2] /\ n = due[3] /\ t = messages[due[1]]
  OBVIOUS
<1>2. /\ id \in Ids /\ n # 0 /\ live[id] = n /\ n \in ready /\ t \in Topics /\ t \in asked[n].wants
      /\ ~bye /\ socket = "open"
  BY <1>1, DueIs
<1>3. Whole(id) /\ rows[Rev(id)] = n
  <2>1. CASE \A k \in Tasks : ~Busy(k, id)
    BY <1>2, <2>1 DEF RegistryOK, RowsOK, Holds
  <2>2. ASSUME NEW k \in Tasks, Busy(k, id) PROVE Whole(id) /\ rows[Rev(id)] = n
    <3>1. WorkOK(k, id)
      BY <1>2, <2>2 DEF RegistryOK, RowsOK
    <3>2. task[k].pc \in {"capture", "adding", "lookup", "removing", "reply", "owned", "clearing"}
      BY <1>2, <2>2, BusyIs
    <3>3. task[k].pc \notin {"owned", "clearing"}
      BY <1>2 DEF ClientOK
    <3>4. task[k].pc = "reply"
      BY <1>2, <3>1, <3>2, <3>3 DEF WorkOK, Holds
    <3> QED
      BY <1>2, <3>1, <3>4 DEF WorkOK, Holds
  <2> QED
    BY <2>1, <2>2
<1> QED
  BY <1>1, <1>2, <1>3 DEF Whole

\* A frame that stays due, over a step of one invocation.
LEMMA DueStep ==
    ASSUME NEW due, DueOK(due), got \subseteq got', NEW k \in Tasks, Alone(k),
           Serving(k, due)',
           due[1] \in flushed' => due[1] \in flushed \/ due \in got',
           <<due[1], due[2]>> \in claims' =>
             <<due[1], due[2]>> \in claims \/ due \in got' \/ Replays(k, due)',
           Replays(k, due) => due \in got' \/ <<due[1], due[2]>> \notin claims'
    PROVE  DueOK(due)'
<1>1. ASSUME NEW q \in Tasks PROVE Serving(q, due)'
  <2>1. CASE q # k
    <3>1. task'[q] = task[q] /\ Serving(q, due)
      BY <2>1 DEF Alone, DueOK
    <3> QED
      BY <3>1 DEF Serving, Replays
  <2> QED
    BY <2>1
<1>2. ASSUME NEW q \in Tasks, q # k, Replays(q, due) PROVE Replays(q, due)'
  BY <1>2 DEF Alone, Replays
<1>3. due[1] \in flushed' => due \in got'
  BY DEF DueOK
<1>4. <<due[1], due[2]>> \in claims' => due \in got' \/ \E q \in Tasks : Replays(q, due)'
  BY <1>2 DEF DueOK
<1> QED
  BY <1>1, <1>3, <1>4 DEF DueOK

\* A step of an invocation that neither was nor is flushing.
LEMMA DueAside ==
    ASSUME NEW due, due[1] # 0, DueOK(due), NEW k \in Tasks, Alone(k),
           task[k].pc # "replay",
           task'[k].msg = 0 \/ task'[k].pc \notin {"page", "targets", "replay"},
           got' = got, flushed' = flushed, claims' = claims
    PROVE  DueOK(due)'
<1>1. Serving(k, due)' /\ ~Replays(k, due)
  BY DEF Serving, Replays
<1> QED
  BY <1>1, DueStep

LEMMA GotGrows == ASSUME StateOK, Next PROVE got \subseteq got'
BY DeliverTo, GotSteps

LEMMA FramesServe ==
    ASSUME StateOK, NEW k \in Tasks, NEW due, due[1] # 0, DueOK(due),
           \/ \E id : AnswerInline(k, id) \/ Complete(k, id)
           \/ \E id, topics : Subscribe(k, id, topics)
    PROVE  DueOK(due)'
<1>1. got' = got /\ flushed' = flushed /\ claims' = claims
  BY DEF AnswerInline, Complete, Subscribe, Frame, outVars
<1>2. PICK pc, id, sub : task[k] = Idle /\ Turned(k, Rec(pc, id, sub, 0, 0, {}, 0, {}, {}))
  BY AnswerInlineTo, CompleteTo, SubscribeTo
<1>3. task[k].pc = "idle" /\ Alone(k) /\ task'[k].msg = 0
  BY <1>2 DEF Idle, Turned, Alone, Rec
<1> QED
  BY <1>1, <1>3, DueAside

LEMMA IdleServes ==
    ASSUME NEW k \in Tasks, NEW due, due[1] # 0, DueOK(due), Turned(k, Idle),
           got' = got, flushed' = flushed, claims' \subseteq claims,
           Replays(k, due) => <<due[1], due[2]>> \notin claims'
    PROVE  DueOK(due)'
<1>1. task'[k].msg = 0 /\ Alone(k)
  BY DEF Turned, Alone, Idle
<1>2. Serving(k, due)'
  BY <1>1 DEF Serving
<1> QED
  BY <1>1, <1>2, DueStep

LEMMA CallsServe ==
    ASSUME StateOK, ClientOK, RegistryOK, Clean, NEW k \in Tasks, NEW due \in owed, DueOK(due),
           Capture(k) \/ Reply(k) \/ LookedUp(k) \/ Owned(k) \/ RowDone(k)
    PROVE  DueOK(due)'
<1>0. due[1] # 0 /\ socket = "open"
  BY DueIs
<1>1. got' = got /\ flushed' = flushed /\ claims' = claims
  BY DEF Capture, Reply, LookedUp, Owned, RowDone, outVars
<1>2. task[k].pc \notin {"owned", "clearing"}
  BY <1>0 DEF ClientOK
<1>3. CASE Capture(k)
  <2>1. PICK ops : task[k].pc = "capture" /\ (Goes(k, "reply", {}) \/ Goes(k, "adding", ops))
    BY <1>3, CaptureTo
  <2> QED
    BY <1>0, <1>1, <2>1, GoesBusy, DueAside
<1>4. CASE Reply(k)
  <2>1. task[k].pc = "reply" /\ Turned(k, Idle)
    BY <1>0, <1>4, ReplyTo
  <2>2. ~Replays(k, due)
    BY <2>1 DEF Replays
  <2> QED
    BY <1>0, <1>1, <2>1, <2>2, IdleServes
<1>5. CASE LookedUp(k)
  <2>1. PICK ops : task[k].pc = "lookup" /\ Goes(k, "removing", ops)
    BY <1>5, LookedUpTo
  <2> QED
    BY <1>0, <1>1, <2>1, GoesBusy, DueAside
<1>6. CASE Owned(k)
  BY <1>2, <1>6, OwnedTo
<1>7. CASE RowDone(k)
  <2>1. PICK ops : task[k].pc \in {"adding", "removing"} /\ (Ends(k) \/ Goes(k, task[k].pc, ops))
    <3>1. PICK op : /\ task[k].pc \in {"adding", "removing", "clearing"}
                    /\ Ends(k) \/ Goes(k, task[k].pc, task[k].todo \ {op})
      BY <1>7, RowDoneTo
    <3>2. PICK ops : ops = task[k].todo \ {op}
      OBVIOUS
    <3> QED
      BY <1>2, <3>1, <3>2
  <2>2. task[k].msg = 0
    <3>1. CASE task[k].pc = "adding"
      BY <3>1, SubIs
    <3>2. CASE task[k].pc = "removing"
      <4>1. PICK id \in Ids : id = task[k].id
        BY <3>2, RecordTypes DEF RecordOK
      <4>2. Busy(k, id)
        BY <3>2, <4>1, BusyIs
      <4> QED
        BY <3>2, <4>2 DEF RegistryOK, RowsOK, WorkOK
    <3> QED
      BY <2>1, <3>1, <3>2
  <2>3. CASE Ends(k)
    <3>1. Turned(k, Idle) /\ ~Replays(k, due)
      BY <2>1, <2>2, <2>3 DEF Ends, Replays
    <3> QED
      BY <1>0, <1>1, <3>1, IdleServes
  <2>4. CASE Goes(k, task[k].pc, ops)
    <3>1. PICK pc : pc = task[k].pc
      OBVIOUS
    <3>2. Alone(k) /\ task'[k].msg = 0 /\ task[k].pc # "replay"
      BY <2>1, <2>2, <2>4, <3>1, GoesBusy
    <3> QED
      BY <1>0, <1>1, <3>2, DueAside
  <2> QED
    BY <2>1, <2>3, <2>4
<1> QED
  BY <1>3, <1>4, <1>5, <1>6, <1>7

LEMMA StartServes ==
    ASSUME StateOK, ClientOK, NEW k \in Tasks, NEW due \in owed, DueOK(due), StartFlush(k)
    PROVE  DueOK(due)'
<1>1. PICK m : task[k] = Idle /\ Turned(k, Rec("page", 0, 0, m, 0, {}, 0, {}, {}))
  BY StartFlushTo
<1>2. got' = got /\ flushed' = flushed /\ claims' = claims
  BY DEF StartFlush, outVars
<1>3. task'[k].pc = "page" /\ task'[k].cursor = 0 /\ Alone(k) /\ task[k].pc = "idle"
  BY <1>1 DEF Turned, Alone, Rec, Idle
<1>4. due[2] > 0
  <2>1. due[2] \in Ids
    BY DueIs
  <2> QED
    BY <2>1, SubscriptionsAssumption DEF Ids
<1>5. Serving(k, due)' /\ ~Replays(k, due)
  BY <1>3, <1>4 DEF Serving, Replays
<1> QED
  BY <1>2, <1>3, <1>5, DueStep

LEMMA PageServes ==
    ASSUME StateOK, ClientOK, RegistryOK, Clean, NEW k \in Tasks, NEW due \in owed, DueOK(due),
           FanoutPage(k)
    PROVE  DueOK(due)'
<1>1. task[k].pc = "page" /\ task[k].msg # 0 /\ task[k].msg \in DOMAIN messages /\ task[k].cursor \in Nat
  <2>1. task[k].pc = "page"
    BY FanoutPageTo
  <2>2. task[k].msg # 0 /\ task[k].msg \in DOMAIN messages
    BY <2>1, RecordTypes DEF RecordOK
  <2>3. task[k].cursor \in 0..End
    BY RecordTypes
  <2>4. task[k].cursor \in Nat
    BY <2>3, SubscriptionsAssumption DEF End
  <2> QED
    BY <2>1, <2>2, <2>4
<1>2. PICK t, c, page, next :
        /\ t = messages[task[k].msg] /\ c = task[k].cursor /\ page = PageByTopic(t, c)
        /\ next = After({x[1] : x \in page})
  OBVIOUS
<1>3. t \in Topics /\ c \in Nat
  BY <1>1, <1>2, AskedTypes
<1>4. /\ next = After(PageOf(t, c))
      /\ \A id \in Ids : id > c /\ rows[Fwd(t, id)] # 0 =>
           <<id, rows[Fwd(t, id)]>> \in page \/ id > After(PageOf(t, c))
      /\ \A x \in page : x[1] \in Ids /\ x[2] = rows[Fwd(t, x[1])]
  BY <1>2, <1>3, PageTargets
<1>5. PICK i, s, m, w, ops : m = task[k].msg /\ Turned(k, Rec("targets", i, s, m, next, page, w, {}, ops))
  BY <1>2, FanoutPageTo
<1>6. /\ task'[k].pc = "targets" /\ task'[k].cursor = next /\ task'[k].targets = page
      /\ task'[k].msg = task[k].msg /\ Alone(k)
  BY <1>5 DEF Turned, Alone, Rec
<1>7. got' = got /\ flushed' = flushed /\ claims' = claims
  BY DEF FanoutPage, outVars
<1>8. ASSUME task[k].msg = due[1]
      PROVE  /\ due \in got \/ due[2] > next \/ <<due[2], due[3]>> \in page
             /\ \A x \in page : x[1] = due[2] => x[2] = due[3]
  <2>1. rows[Fwd(t, due[2])] = due[3] /\ due[2] \in Ids /\ due[3] # 0
    BY <1>2, <1>8, RowsReady, DueIs
  <2>2. due \in got \/ due[2] > c
    BY <1>1, <1>2, <1>8 DEF DueOK, Serving
  <2> QED
    BY <1>4, <2>1, <2>2
<1>9. Serving(k, due)' /\ ~Replays(k, due)
  BY <1>1, <1>6, <1>7, <1>8 DEF Serving, Replays
<1> QED
  BY <1>6, <1>7, <1>9, DueStep

LEMMA ClaimServes ==
    ASSUME StateOK, ClientOK, FlushesOK, NEW k \in Tasks, NEW due \in owed, DueOK(due), Claim(k)
    PROVE  DueOK(due)'
<1>1. PICK x \in task[k].targets :
        /\ task[k].pc = "targets" /\ claims' = claims \cup {<<task[k].msg, x[1]>>}
        /\ <<task[k].msg, x[1]>> \in claims =>
             Turned(k, Rec("targets", task[k].id, task[k].sub, task[k].msg, task[k].cursor,
                           task[k].targets \ {x}, task[k].sweep, {}, task[k].todo))
        /\ <<task[k].msg, x[1]>> \notin claims =>
             Turned(k, Rec("replay", x[1], x[2], task[k].msg, task[k].cursor,
                           task[k].targets \ {x}, task[k].sweep, {}, task[k].todo))
  BY ClaimTo
<1>2. PICK m, c, ts : m = task[k].msg /\ c = task[k].cursor /\ ts = task[k].targets
  OBVIOUS
<1>3. x = <<x[1], x[2]>> /\ m # 0
  <2>1. x \in Ids \X (DOMAIN asked)
    BY RecordTypes
  <2> QED
    BY <1>1, <1>2, <2>1, RecordTypes DEF RecordOK
<1>4. got' = got /\ flushed' = flushed
  BY DEF Claim, outVars
<1>5. ~Replays(k, due)
  BY <1>1 DEF Replays
<1>6. m = due[1] =>
        /\ due \in got \/ due[2] > c \/ <<due[2], due[3]>> \in ts
        /\ \A y \in ts : y[1] = due[2] => y[2] = due[3]
  BY <1>1, <1>2 DEF DueOK, Serving, Replays
<1>7. CASE <<m, x[1]>> \in claims
  <2>1. PICK i, s, w, ops : Turned(k, Rec("targets", i, s, m, c, ts \ {x}, w, {}, ops))
    BY <1>1, <1>2, <1>7
  <2>2. /\ task'[k].pc = "targets" /\ task'[k].cursor = c /\ task'[k].targets = ts \ {x}
        /\ task'[k].msg = m /\ Alone(k)
    BY <2>1 DEF Turned, Alone, Rec
  <2>3. m = due[1] /\ <<due[2], due[3]>> = x => due \in got
    <3> SUFFICES ASSUME m = due[1], x[1] = due[2], due \notin got PROVE FALSE
      BY <1>3
    <3>1. PICK q \in Tasks : Replays(q, due)
      BY <1>7 DEF DueOK
    <3>2. q = k
      BY <1>2, <1>3, <3>1 DEF FlushesOK, Replays
    <3> QED
      BY <1>5, <3>1, <3>2
  <2>4. Serving(k, due)'
    <3>1. m = due[1] => due \in got' \/ due[2] > c \/ <<due[2], due[3]>> \in ts \ {x}
      BY <1>4, <1>6, <2>3
    <3>2. m = due[1] => \A y \in ts \ {x} : y[1] = due[2] => y[2] = due[3]
      BY <1>6
    <3>3. ~Replays(k, due)' /\ task'[k].pc # "page"
      BY <2>2 DEF Replays
    <3> QED
      BY <2>2, <3>1, <3>2, <3>3 DEF Serving
  <2>5. claims' = claims
    BY <1>1, <1>2, <1>7
  <2> QED
    BY <1>4, <1>5, <2>2, <2>4, <2>5, DueStep
<1>8. CASE <<m, x[1]>> \notin claims
  <2>1. PICK w, ops : Turned(k, Rec("replay", x[1], x[2], m, c, ts \ {x}, w, {}, ops))
    BY <1>1, <1>2, <1>8
  <2>2. /\ task'[k].pc = "replay" /\ task'[k].cursor = c /\ task'[k].targets = ts \ {x}
        /\ task'[k].msg = m /\ task'[k].id = x[1] /\ task'[k].sub = x[2] /\ Alone(k)
    BY <2>1 DEF Turned, Alone, Rec
  <2>3. Serving(k, due)'
    <3>1. m = due[1] => \/ due \in got' \/ due[2] > c \/ <<due[2], due[3]>> \in ts \ {x}
                       \/ Replays(k, due)'
      BY <1>3, <1>4, <1>6, <2>2 DEF Replays
    <3>2. m = due[1] => \A y \in ts \ {x} : y[1] = due[2] => y[2] = due[3]
      BY <1>6
    <3>3. m = due[1] /\ Replays(k, due)' => x[2] = due[3]
      BY <1>1, <1>2, <1>6, <2>2 DEF Replays
    <3> QED
      BY <2>2, <3>1, <3>2, <3>3 DEF Serving
  <2>4. <<due[1], due[2]>> \in claims' => <<due[1], due[2]>> \in claims \/ Replays(k, due)'
    BY <1>1, <1>2, <2>2 DEF Replays
  <2> QED
    BY <1>4, <1>5, <2>2, <2>3, <2>4, DueStep
<1> QED
  BY <1>7, <1>8

LEMMA DeliverServes ==
    ASSUME StateOK, ClientOK, NEW k \in Tasks, NEW due \in owed, DueOK(due), Deliver(k)
    PROVE  DueOK(due)'
<1>1. PICK m, i, s, c, ts : /\ m = task[k].msg /\ i = task[k].id /\ s = task[k].sub
                           /\ c = task[k].cursor /\ ts = task[k].targets
  OBVIOUS
<1>2. /\ task[k].pc = "replay"
      /\ NextTarget(k)
      /\ \/ <<m, i>> \in Rejected /\ got' = got
         \/ got' = got \cup {<<m, i, s>>}
  BY <1>1, DeliverTo, DueIs
<1>3. flushed' = flushed /\ claims' = claims
  BY DEF Deliver, outVars
<1>4. PICK w, ops : Turned(k, Rec("targets", 0, 0, m, c, ts, w, {}, ops))
  BY <1>1, <1>2, NextTargetTo
<1>5. /\ task'[k].pc = "targets" /\ task'[k].cursor = c /\ task'[k].targets = ts
      /\ task'[k].msg = m /\ Alone(k)
  BY <1>4 DEF Turned, Alone, Rec
<1>6. Replays(k, due) => due \in got'
  <2> SUFFICES ASSUME Replays(k, due) PROVE due \in got'
    OBVIOUS
  <2>1. m = due[1] /\ i = due[2] /\ s = due[3]
    BY <1>1 DEF Replays, DueOK, Serving
  <2>2. <<m, i>> \notin Rejected /\ due = <<m, i, s>>
    BY <2>1, DueIs
  <2> QED
    BY <1>2, <2>2
<1>7. Serving(k, due)'
  <2>1. m = due[1] =>
          /\ due \in got \/ due[2] > c \/ <<due[2], due[3]>> \in ts \/ Replays(k, due)
          /\ \A y \in ts : y[1] = due[2] => y[2] = due[3]
    BY <1>1, <1>2 DEF DueOK, Serving
  <2> QED
    BY <1>2, <1>5, <1>6, <2>1 DEF Serving, Replays
<1>8. got \subseteq got'
  BY <1>2
<1> QED
  BY <1>3, <1>5, <1>6, <1>7, <1>8, DueStep

LEMMA PageDoneServes ==
    ASSUME StateOK, ClientOK, NEW k \in Tasks, NEW due \in owed, DueOK(due), PageDone(k)
    PROVE  DueOK(due)'
<1>1. task[k].pc = "targets" /\ task[k].targets = {} /\ ~Replays(k, due)
  BY PageDoneTo DEF Replays
<1>2. task[k].msg = due[1] => due \in got \/ due[2] > task[k].cursor
  BY <1>1 DEF DueOK, Serving
<1>3. got' = got /\ claims' = claims
  BY DEF PageDone
<1>4. CASE task[k].cursor = End /\ flushed' = flushed \cup {task[k].msg} /\ Turned(k, Idle)
  <2>1. task'[k].msg = 0 /\ Alone(k) /\ due[1] # 0
    <3>1. due[1] # 0
      BY DueIs
    <3>2. task'[k] = Idle /\ Alone(k)
      BY <1>4 DEF Turned, Alone
    <3> QED
      BY <3>1, <3>2 DEF Idle
  <2>2. ~(due[2] > End)
    <3>1. due[2] \in Ids
      BY DueIs
    <3> QED
      BY <3>1, SubscriptionsAssumption DEF Ids, End
  <2>3. Serving(k, due)'
    BY <2>1 DEF Serving
  <2>4. due[1] \in flushed' => due[1] \in flushed \/ due \in got'
    BY <1>2, <1>3, <1>4, <2>2
  <2> QED
    BY <1>1, <1>3, <2>1, <2>3, <2>4, DueStep
<1>5. CASE flushed' = flushed /\ Goes(k, "page", {})
  <2>1. /\ task'[k].pc = "page" /\ task'[k].msg = task[k].msg /\ task'[k].cursor = task[k].cursor
        /\ Alone(k)
    BY <1>5, GoesFields DEF Alone
  <2>2. Serving(k, due)'
    BY <1>2, <1>3, <2>1 DEF Serving, Replays
  <2> QED
    BY <1>1, <1>3, <1>5, <2>1, <2>2, DueStep
<1> QED
  BY <1>4, <1>5, PageDoneTo

LEMMA GivingUpServes ==
    ASSUME StateOK, ClientOK, Clean', NEW k \in Tasks, NEW due \in owed, DueOK(due),
           RowFails(k) \/ Crash(k) \/ SendFails(k)
    PROVE  DueOK(due)'
<1>0. due[1] # 0
  BY DueIs
<1>1. CASE SendFails(k)
  <2>1. task[k].pc = "replay" /\ task[k].msg # 0
    BY <1>1, RecordTypes DEF SendFails, At, RecordOK
  <2>2. Turned(k, Idle)
    BY <1>1, BecomesIdle DEF SendFails
  <2>3. claims' = claims \ {<<task[k].msg, task[k].id>>}
    BY <1>1, <2>1 DEF SendFails, Release, Claimed
  <2>4. got' = got /\ flushed' = flushed
    BY <1>1 DEF SendFails, outVars
  <2>5. Replays(k, due) => <<due[1], due[2]>> \notin claims'
    BY <2>3 DEF Replays
  <2> QED
    BY <1>0, <2>2, <2>3, <2>4, <2>5, IdleServes
<1>2. CASE RowFails(k)
  <2>1. task[k].pc = "page"
    BY <1>2 DEF RowFails, Excuse, Clean, At
  <2>2. Turned(k, Idle)
    BY <1>2, <2>1, BecomesIdle DEF RowFails
  <2>3. got' = got /\ flushed' = flushed /\ claims' \subseteq claims
    BY <1>2 DEF RowFails, outVars, Release
  <2>4. ~Replays(k, due)
    BY <2>1 DEF Replays
  <2> QED
    BY <1>0, <2>2, <2>3, <2>4, IdleServes
<1>3. CASE Crash(k)
  <2>1. ~Claimed(k) /\ Turned(k, Idle)
    BY <1>3, BecomesIdle DEF Crash, Excuse, Clean
  <2>2. got' = got /\ flushed' = flushed /\ claims' = claims
    BY <1>3 DEF Crash, outVars
  <2>3. ~Replays(k, due)
    BY <1>0, <2>1 DEF Replays, Claimed
  <2> QED
    BY <1>0, <2>1, <2>2, <2>3, IdleServes
<1> QED
  BY <1>1, <1>2, <1>3

\* A frame that was due before the step.
LEMMA OldDue ==
    ASSUME StateOK, ClientOK, FlushesOK, RegistryOK, Clean, Clean', Next, NEW due \in owed, DueOK(due),
           due \in owed', ClientOK'
    PROVE  DueOK(due)'
<1>0. due[1] # 0 /\ ~bye
  BY DueIs
<1>1. ASSUME NEW k \in Tasks, Step(k) PROVE DueOK(due)'
  BY <1>1, CallsServe, PageServes, ClaimServes, DeliverServes, PageDoneServes DEF Step
<1>2. ASSUME NEW k \in Tasks, StartFlush(k) PROVE DueOK(due)'
  BY <1>2, StartServes
<1>3. ASSUME NEW k \in Tasks, Disconnected(k) PROVE DueOK(due)'
  BY <1>0, <1>3 DEF Disconnected
<1>4. ASSUME NEW k \in Tasks, RowFails(k) \/ Crash(k) \/ SendFails(k) PROVE DueOK(due)'
  BY <1>4, GivingUpServes
<1>5. ASSUME NEW k \in Tasks, Drift(k) PROVE DueOK(due)'
  BY <1>5, DriftTo DEF Clean
<1>6. ASSUME NEW k \in Tasks, NEW id, NEW topics,
             Complete(k, id) \/ Subscribe(k, id, topics) \/ AnswerInline(k, id)
      PROVE  DueOK(due)'
  BY <1>0, <1>6, FramesServe
<1>7. ASSUME UNCHANGED <<got, flushed, claims, task>> PROVE DueOK(due)'
  BY <1>7 DEF DueOK, Serving, Replays
<1>8. ASSUME (\E t \in Topics : Publish(t)) \/ ClientCloses \/ ByeLost
      PROVE  UNCHANGED <<got, flushed, claims, task>>
  BY <1>8 DEF Publish, ClientCloses, ByeLost, outVars
<1> QED
  BY <1>1, <1>2, <1>3, <1>4, <1>5, <1>6, <1>7, <1>8 DEF Next

\* A frame that falls due is about a record nobody has seen.
LEMMA NewDue ==
    ASSUME StateOK, NEW t \in Topics, Publish(t), NEW id, NEW due, due = <<Len(messages) + 1, id, live[id]>>
    PROVE  DueOK(due)'
<1>1. Len(messages) + 1 \notin DOMAIN messages /\ Len(messages) + 1 # 0
  BY AskedTypes
<1>2. due[1] = Len(messages) + 1
  OBVIOUS
<1>3. flushed' = flushed /\ claims' = claims /\ task' = task
  BY DEF Publish
<1>4. flushed \subseteq DOMAIN messages /\ claims \subseteq (DOMAIN messages) \X Ids
  BY DEF StateOK, DataOK
<1>5. due[1] \notin flushed' /\ <<due[1], due[2]>> \notin claims'
  BY <1>1, <1>2, <1>3, <1>4
<1>6. \A k \in Tasks : task'[k].msg # due[1]
  BY <1>1, <1>2, <1>3, RecordTypes
<1> QED
  BY <1>5, <1>6 DEF DueOK, Serving

LEMMA DeliveryNext ==
    ASSUME StateOK, ClientOK, FlushesOK, RegistryOK, DeliveryOK, Next
    PROVE  DeliveryOK'
<1> SUFFICES ASSUME Clean', NEW due \in owed' PROVE DueOK(due)'
  BY DEF DeliveryOK
<1>1. Clean /\ \A d \in owed : DueOK(d)
  BY ExcusesGrow DEF Clean, DeliveryOK
<1>2. CASE due \in owed
  BY <1>1, <1>2, OldDue, ClientNext
<1>3. CASE due \notin owed
  BY <1>3, OwedNext, NewDue
<1> QED
  BY <1>2, <1>3

LEMMA DeliveryAlways == Spec => [](StateOK /\ ClientOK /\ FlushesOK /\ RegistryOK /\ DeliveryOK)
<1> DEFINE Inv == StateOK /\ ClientOK /\ FlushesOK /\ RegistryOK
<1>1. Init => DeliveryOK
  BY DEF Init, DeliveryOK
<1>2. Inv /\ DeliveryOK /\ [Next]_vars => DeliveryOK'
  <2>1. CASE Next
    BY <2>1, DeliveryNext
  <2>2. CASE UNCHANGED vars
    BY <2>2 DEF vars, sockVars, clientVars, outVars, DeliveryOK, Clean, DueOK, Serving, Replays
  <2> QED
    BY <2>1, <2>2
<1> QED
  BY <1>1, <1>2, InvAlways, PTL DEF Spec

\* No payload is lost on the way to a subscription that was registered when it was
\* published and that the client has kept: when the stream is done with the record,
\* the subscription has had its next frame, however its topic's rows are paged, in
\* whatever order, with whatever failures that retry the record (the Flusher's
\* claims, GraphQLWsHandler's deliver, listByTopic's pages).
THEOREM FramesAreServed == Spec => []Served
<1>1. StateOK /\ ClientOK /\ FlushesOK /\ RegistryOK /\ DeliveryOK => Served
  BY DEF Served, DeliveryOK, Clean, DueOK
<1> QED
  BY <1>1, DeliveryAlways, PTL
=============================================================================
