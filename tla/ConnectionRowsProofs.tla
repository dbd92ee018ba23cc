------------------------ MODULE ConnectionRowsProofs ------------------------
(***************************************************************************)
(* What becomes of a connection's rows: an accepted connection is recorded *)
(* whole, one that is gone leaves no row, and the application hears of its *)
(* end, for any number of containers, invocations, rooms and joins.        *)
(***************************************************************************)
EXTENDS ConnectionProofs

Calm  == "early" \notin excuses
Clean == excuses = {}

FirstPcs == {"hooks", "add", "apply"}
SweepPcs == {"query", "delete", "forget", "close"}

\* Rows are being written only where the code awaits that; the invocation of $connect
\* is known as such, and has written nothing before accept().
WorkOK == \A k \in Tasks :
    /\ todo[k] # {} => pc[k] \in {"apply", "undoing", "write", "delete"}
    /\ Connecting(k) => kind[k] = "connect"
    /\ pc[k] \in {"hooks", "add"} => applied = 0

\* Before $connect there is nothing; a $disconnect is due to a closed socket only.
NewOK == socket = "new" =>
    /\ \A k \in Tasks : pc[k] = "idle"
    /\ stray = {} /\ ~swept /\ applied = 0
ByeOK == bye => socket = "closed"

\* The rooms that the first n entries of what accept() works through leave joined,
\* and the rows there are then.
LastWord(x, n) == \E m \in 1..n : Plan[m] = <<x, TRUE>> /\ \A j \in 1..n : j > m => Plan[j][1] # x
Planned(n) == {Meta} \cup UNION {RowsOf(x) : x \in {y \in Rooms : LastWord(y, n)}}

\* While $connect waits for its answer, and no kick or 410 came early, nobody else
\* works for the connection; the rows, once the calls that are out have landed, are
\* those of the entries accept() has come to.
AloneOK == socket = "connecting" /\ Calm =>
    /\ \A k \in Tasks : pc[k] # "idle" => Connecting(k)
    /\ \A k \in Tasks : pc[k] \in FirstPcs => ~swept /\ stray = {}
    /\ \A k \in Tasks : pc[k] = "apply" => Landed(todo[k]) = Planned(applied - 1)

-----------------------------------------------------------------------------
(* What a step may do                                                      *)

\* Where an invocation may go from where it is.
TaskGoes(q) ==
    LET a == pc[q]
        b == pc'[q]
    IN /\ b \in ConnectPcs /\ a \notin ConnectPcs =>
            a = "idle" /\ b \in {"hooks", "add"} /\ socket = "new" /\ socket' = "connecting"
            /\ kind'[q] = "connect"
       /\ b \in ConnectPcs /\ a \in ConnectPcs =>
            /\ kind'[q] = kind[q] /\ (b \in FirstPcs => a \in FirstPcs)
            /\ b \in {"hooks", "add"} => a \in {"hooks", "add"}
            /\ b = "apply" /\ a # b => AddMeta(q)
       /\ a \in ConnectPcs /\ b \notin ConnectPcs => socket' # "connecting"
       /\ b = "undoing" /\ a # b => swept'
       /\ b \in FramePcs => a \in FramePcs \/ socket = "open"
       /\ b \in CleanupPcs /\ a \notin CleanupPcs =>
            /\ b \in {"lookup", "farewell", "blind"} /\ (hooks => b # "blind")
            /\ socket # "new" /\ (socket = "connecting" => ~Calm')
       /\ b = "query" /\ a # b => a \in {"farewell", "blind"}
       /\ b \in SweepPcs \ {"query"} => a \in SweepPcs
       /\ a = "lookup" /\ b = "blind" => Meta \notin rows \/ ~Clean'
       /\ a = "farewell" /\ b # a => farewells' > 0 \/ ~Clean'
       /\ a = "lookup" /\ b # a => b \in {"farewell", "blind"} \/ ~Clean'
       /\ a = "blind" /\ b # a => b = "query" \/ ~Clean'
       /\ a = "farewell" /\ b # a => b = "query" \/ ~Clean'
       /\ a = "query" /\ b # a => swept' \/ ~Clean'
       /\ todo'[q] # {} => b \in {"apply", "undoing", "write", "delete"}

\* What becomes of the socket and its $disconnect.
SocketGoes ==
    /\ \/ socket' = socket
       \/ socket = "new" /\ socket' = "connecting"
       \/ socket = "connecting" /\ socket' = "open" /\ \E k \in Tasks : Accepted(k)
       \/ socket = "connecting" /\ socket' = "refused"
          /\ (~Clean' \/ \E k \in Tasks : HooksRefuse(k) \/ Undone(k))
       \/ socket = "open" /\ socket' = "closed" /\ bye'
    /\ bye' => bye \/ socket' = "closed"
    /\ bye /\ ~bye' =>
         ~Clean' \/ \E q \in Tasks : pc[q] = "idle" /\ pc'[q] \in {"lookup", "farewell", "blind"}

\* What becomes of the history, and of calls nobody waits for.
HistGoes ==
    /\ excuses \subseteq excuses' /\ hooks' = hooks /\ farewells' >= farewells
    /\ swept => swept'
    /\ swept' => swept \/ \E q \in Tasks : pc[q] \in {"undo", "query"}
                                           /\ pc'[q] \in {"undoing", "delete"}
    /\ stray' \subseteq stray \/ ~Clean'
    /\ \A op \in stray' :
         op \in stray \/ \E q \in Tasks : op \in todo[q] /\ pc'[q] \in {"idle", "undo"}
    /\ applied' = applied \/ \E q \in Tasks : pc[q] \in {"add", "apply"} /\ pc'[q] = "apply"

Orderly == (\A q \in Tasks : TaskGoes(q)) /\ SocketGoes /\ HistGoes

\* What the proofs need of the variables' types.
LEMMA Typed ==
    ASSUME IInv
    PROVE  /\ pc \in [Tasks -> TaskPcs] /\ kind = [q \in Tasks |-> kind[q]]
           /\ todo \in [Tasks -> SUBSET (Put(Rows) \cup Del(Rows))]
           /\ farewells \in Nat /\ rows \subseteq Rows
           /\ socket \in {"new", "connecting", "open", "refused", "closed"}
           /\ excuses \subseteq Causes /\ hooks \in BOOLEAN /\ bye \in BOOLEAN /\ swept \in BOOLEAN
  BY DEF IInv, TypeOK, TaskTypes, HistTypes, StoreTypes, FlagTypes, ConnTypes

\* One lemma per action: it is an orderly step.
LEMMA HooksRefuseGoes == ASSUME IInv, WorkOK, NEW k \in Tasks, HooksRefuse(k) PROVE Orderly
<1>1. \A q \in Tasks : TaskGoes(q)
  BY DEF HooksRefuse, Goto, Answer, WorkOK, TaskGoes, SweepPcs, ConnectPcs, FramePcs,
     CleanupPcs
<1>2. SocketGoes
  BY DEF HooksRefuse, Answer, SocketGoes
<1>3. HistGoes
  BY Typed DEF HooksRefuse, HistGoes, storeVars, connVars, histVars
<1> QED
  BY <1>1, <1>2, <1>3 DEF Orderly

LEMMA HooksAcceptGoes == ASSUME IInv, WorkOK, NEW k \in Tasks, HooksAccept(k) PROVE Orderly
<1>1. \A q \in Tasks : TaskGoes(q)
  BY DEF HooksAccept, Goto, WorkOK, TaskGoes, FirstPcs, SweepPcs, ConnectPcs, FramePcs,
     CleanupPcs
<1>2. SocketGoes
  BY DEF HooksAccept, SocketGoes, sockVars
<1>3. HistGoes
  BY Typed DEF HooksAccept, HistGoes, storeVars, connVars, histVars
<1> QED
  BY <1>1, <1>2, <1>3 DEF Orderly

LEMMA AddMetaGoes == ASSUME IInv, WorkOK, NEW k \in Tasks, AddMeta(k) PROVE Orderly
<1>1. \A q \in Tasks : TaskGoes(q)
  BY Typed DEF AddMeta, Goto, WorkOK, TaskGoes, FirstPcs, SweepPcs, ConnectPcs, FramePcs,
     CleanupPcs
<1>2. SocketGoes
  BY DEF AddMeta, SocketGoes, sockVars
<1>3. HistGoes
  BY Typed DEF AddMeta, Goto, HistGoes, storeVars, histVars
<1> QED
  BY <1>1, <1>2, <1>3 DEF Orderly

LEMMA ApplyMembershipGoes ==
    ASSUME IInv, WorkOK, NEW k \in Tasks, ApplyMembership(k)
    PROVE  Orderly
<1>1. \A q \in Tasks : TaskGoes(q)
  BY DEF ApplyMembership, WorkOK, TaskGoes
<1>2. SocketGoes
  BY DEF ApplyMembership, SocketGoes, sockVars
<1>3. HistGoes
  BY Typed DEF ApplyMembership, HistGoes, storeVars, histVars
<1> QED
  BY <1>1, <1>2, <1>3 DEF Orderly

LEMMA AcceptedGoes == ASSUME IInv, WorkOK, NEW k \in Tasks, Accepted(k) PROVE Orderly
<1>1. \A q \in Tasks : TaskGoes(q)
  BY DEF Accepted, Goto, Answer, WorkOK, TaskGoes, SweepPcs, ConnectPcs, FramePcs, CleanupPcs
<1>2. SocketGoes
  BY DEF Accepted, Answer, SocketGoes
<1>3. HistGoes
  BY Typed DEF Accepted, HistGoes, storeVars, histVars
<1> QED
  BY <1>1, <1>2, <1>3 DEF Orderly

LEMMA UndoneGoes == ASSUME IInv, WorkOK, NEW k \in Tasks, Undone(k) PROVE Orderly
<1>1. \A q \in Tasks : TaskGoes(q)
  BY DEF Undone, Goto, Answer, WorkOK, TaskGoes, SweepPcs, ConnectPcs, FramePcs, CleanupPcs
<1>2. SocketGoes
  BY DEF Undone, Answer, SocketGoes
<1>3. HistGoes
  BY Typed DEF Undone, HistGoes, storeVars, connVars, histVars
<1> QED
  BY <1>1, <1>2, <1>3 DEF Orderly

LEMMA ReadMetaGoes == ASSUME IInv, WorkOK, NEW k \in Tasks, ReadMeta(k) PROVE Orderly
<1>1. \A q \in Tasks : TaskGoes(q)
  BY Typed DEF ReadMeta, Goto, WorkOK, TaskGoes, SweepPcs, ConnectPcs, CleanupPcs, TaskPcs
<1>2. SocketGoes
  BY DEF ReadMeta, SocketGoes, sockVars
<1>3. HistGoes
  BY Typed DEF ReadMeta, HistGoes, storeVars, connVars, histVars
<1> QED
  BY <1>1, <1>2, <1>3 DEF Orderly

LEMMA RefuseGoes == ASSUME IInv, WorkOK, NEW k \in Tasks, Refuse(k) PROVE Orderly
<1>1. \A q \in Tasks : TaskGoes(q)
  BY Typed DEF Refuse, Goto, WorkOK, TaskGoes, SweepPcs, ConnectPcs, CleanupPcs, TaskPcs
<1>2. SocketGoes
  BY DEF Refuse, DropSocket, SocketGoes, sockVars
<1>3. HistGoes
  BY Typed DEF Refuse, HistGoes, storeVars, connVars, histVars
<1> QED
  BY <1>1, <1>2, <1>3 DEF Orderly

LEMMA HandlerEndsGoes == ASSUME IInv, WorkOK, NEW k \in Tasks, HandlerEnds(k) PROVE Orderly
<1>1. \A q \in Tasks : TaskGoes(q)
  BY Typed DEF HandlerEnds, Goto, WorkOK, TaskGoes, SweepPcs, ConnectPcs, CleanupPcs, TaskPcs
<1>2. SocketGoes
  BY DEF HandlerEnds, SocketGoes, sockVars
<1>3. HistGoes
  BY Typed DEF HandlerEnds, HistGoes, storeVars, connVars, histVars
<1> QED
  BY <1>1, <1>2, <1>3 DEF Orderly

LEMMA OpenStreamGoes == ASSUME IInv, WorkOK, NEW k \in Tasks, OpenStream(k) PROVE Orderly
<1>1. \A q \in Tasks : TaskGoes(q)
  BY Typed DEF OpenStream, Goto, WorkOK, TaskGoes, SweepPcs, ConnectPcs, CleanupPcs, TaskPcs
<1>2. SocketGoes
  BY DEF OpenStream, SocketGoes, sockVars
<1>3. HistGoes
  BY Typed DEF OpenStream, HistGoes, storeVars, connVars, histVars
<1> QED
  BY <1>1, <1>2, <1>3 DEF Orderly

LEMMA LookUpGoes == ASSUME IInv, WorkOK, NEW k \in Tasks, LookUp(k) PROVE Orderly
<1>1. \A q \in Tasks : TaskGoes(q)
  BY Typed DEF LookUp, Goto, WorkOK, TaskGoes, Clean, SweepPcs, ConnectPcs, FramePcs, TaskPcs
<1>2. SocketGoes
  BY DEF LookUp, SocketGoes, sockVars
<1>3. HistGoes
  BY Typed DEF LookUp, HistGoes, storeVars, connVars
<1> QED
  BY <1>1, <1>2, <1>3 DEF Orderly

LEMMA FarewellGoes == ASSUME IInv, WorkOK, NEW k \in Tasks, Farewell(k) PROVE Orderly
<1>1. \A q \in Tasks : TaskGoes(q)
  BY Typed DEF Farewell, Goto, OnDisconnect, WorkOK, TaskGoes, ConnectPcs, FramePcs, TaskPcs
<1>2. SocketGoes
  BY DEF Farewell, SocketGoes, sockVars
<1>3. HistGoes
  BY Typed DEF Farewell, OnDisconnect, HistGoes, storeVars, connVars
<1> QED
  BY <1>1, <1>2, <1>3 DEF Orderly

LEMMA ForgetGoes == ASSUME IInv, WorkOK, NEW k \in Tasks, Forget(k) PROVE Orderly
<1>1. \A q \in Tasks : TaskGoes(q)
  BY Typed DEF Forget, Goto, WorkOK, TaskGoes, SweepPcs, ConnectPcs, FramePcs, TaskPcs
<1>2. SocketGoes
  BY DEF Forget, SocketGoes, sockVars
<1>3. HistGoes
  BY Typed DEF Forget, HistGoes, storeVars, connVars
<1> QED
  BY <1>1, <1>2, <1>3 DEF Orderly

LEMMA CloseGoes == ASSUME IInv, WorkOK, NEW k \in Tasks, Close(k) PROVE Orderly
<1>1. \A q \in Tasks : TaskGoes(q)
  BY Typed DEF Close, Goto, WorkOK, TaskGoes, SweepPcs, ConnectPcs, FramePcs, TaskPcs
<1>2. SocketGoes
  BY DEF Close, DropSocket, SocketGoes, sockVars
<1>3. HistGoes
  BY Typed DEF Close, HistGoes, storeVars, connVars
<1> QED
  BY <1>1, <1>2, <1>3 DEF Orderly

LEMMA UndoGoes ==
    ASSUME IInv, WorkOK, NEW k \in Tasks, Undo(k)
    PROVE  Orderly
<1>1. \A q \in Tasks : TaskGoes(q)
  BY Typed DEF Undo, Goto, QueryRows, WorkOK, TaskGoes, FirstPcs, SweepPcs, ConnectPcs,
     FramePcs, CleanupPcs
<1>2. SocketGoes
  BY DEF Undo, QueryRows, SocketGoes, sockVars
<1>3. HistGoes
  BY Typed DEF Undo, Goto, QueryRows, HistGoes, connVars
<1> QED
  BY <1>1, <1>2, <1>3 DEF Orderly

LEMMA QueryGoes ==
    ASSUME IInv, WorkOK, NEW k \in Tasks, Query(k)
    PROVE  Orderly
<1>1. \A q \in Tasks : TaskGoes(q)
  BY Typed DEF Query, Goto, QueryRows, WorkOK, TaskGoes, SweepPcs, ConnectPcs, FramePcs,
     TaskPcs
<1>2. SocketGoes
  BY DEF Query, QueryRows, SocketGoes, sockVars
<1>3. HistGoes
  BY Typed DEF Query, Goto, QueryRows, HistGoes, connVars
<1> QED
  BY <1>1, <1>2, <1>3 DEF Orderly

LEMMA RowDoneGoes ==
    ASSUME IInv, WorkOK, NEW k \in Tasks, RowDone(k)
    PROVE  Orderly
<1>1. \A q \in Tasks : TaskGoes(q)
  BY DEF RowDone, WorkOK, TaskGoes
<1>2. SocketGoes
  BY DEF RowDone, SocketGoes, sockVars
<1>3. HistGoes
  BY Typed DEF RowDone, LateWrite, HistGoes, connVars
<1> QED
  BY <1>1, <1>2, <1>3 DEF Orderly

LEMMA RowFailsGoes ==
    ASSUME IInv, WorkOK, NEW k \in Tasks, RowFails(k)
    PROVE  Orderly
<1>1. \A q \in Tasks : TaskGoes(q)
  BY Typed DEF RowFails, Goto, Answer, WorkOK, Connecting, TaskGoes, Clean, FirstPcs,
     SweepPcs, ConnectPcs, FramePcs, CleanupPcs
<1>2. SocketGoes
  BY DEF RowFails, Answer, SocketGoes, Clean, sockVars
<1>3. HistGoes
  BY Typed DEF RowFails, Goto, Answer, HistGoes, Clean, connVars
<1> QED
  BY <1>1, <1>2, <1>3 DEF Orderly

LEMMA ReadFailsGoes ==
    ASSUME IInv, WorkOK, NEW k \in Tasks, ReadFails(k)
    PROVE  Orderly
<1>1. \A q \in Tasks : TaskGoes(q)
  BY Typed DEF ReadFails, Sharing, WorkOK, TaskGoes, SweepPcs, ConnectPcs, CleanupPcs, TaskPcs
<1>2. SocketGoes
  BY DEF ReadFails, SocketGoes, sockVars
<1>3. HistGoes
  BY Typed DEF ReadFails, HistGoes, storeVars, connVars, histVars
<1> QED
  BY <1>1, <1>2, <1>3 DEF Orderly

LEMMA RehydratedGoes ==
    ASSUME IInv, WorkOK, NEW k \in Tasks, Rehydrated(k)
    PROVE  Orderly
<1>1. \A q \in Tasks : TaskGoes(q)
  BY Typed DEF Rehydrated, Serve, Sharing, WorkOK, TaskGoes, SweepPcs, ConnectPcs, CleanupPcs,
     TaskPcs
<1>2. SocketGoes
  BY DEF Rehydrated, SocketGoes, sockVars
<1>3. HistGoes
  BY Typed DEF Rehydrated, HistGoes, storeVars, connVars, histVars
<1> QED
  BY <1>1, <1>2, <1>3 DEF Orderly

LEMMA UnknownGoes ==
    ASSUME IInv, WorkOK, NEW k \in Tasks, Unknown(k)
    PROVE  Orderly
<1>1. \A q \in Tasks : TaskGoes(q)
  BY Typed DEF Unknown, Sharing, WorkOK, TaskGoes, SweepPcs, ConnectPcs, CleanupPcs, TaskPcs
<1>2. SocketGoes
  BY DEF Unknown, SocketGoes, sockVars
<1>3. HistGoes
  BY Typed DEF Unknown, HistGoes, storeVars, connVars, histVars
<1> QED
  BY <1>1, <1>2, <1>3 DEF Orderly

LEMMA HandlerCleansGoes ==
    ASSUME IInv, WorkOK, AloneOK, NEW k \in Tasks, HandlerCleans(k)
    PROVE  Orderly
<1>0. socket # "new" /\ (socket = "connecting" => ~Calm) /\ excuses' = excuses
  BY DEF HandlerCleans, IInv, ConnectOK, Before, AloneOK, Connecting, ConnectPcs, FramePcs
<1>1. \A q \in Tasks : TaskGoes(q)
  BY <1>0, Typed DEF HandlerCleans, BeginCleanup, Goto, WorkOK, TaskGoes, Calm, SweepPcs,
     ConnectPcs, CleanupPcs, TaskPcs
<1>2. SocketGoes
  BY DEF HandlerCleans, SocketGoes, sockVars
<1>3. HistGoes
  BY Typed DEF HandlerCleans, BeginCleanup, HistGoes, storeVars, connVars
<1> QED
  BY <1>1, <1>2, <1>3 DEF Orderly

LEMMA HandlerMembershipGoes ==
    ASSUME IInv, WorkOK, NEW k \in Tasks, NEW x \in AppRooms, HandlerMembership(k, x)
    PROVE  Orderly
<1>1. \A q \in Tasks : TaskGoes(q)
  BY Typed DEF HandlerMembership, Goto, WorkOK, TaskGoes, SweepPcs, ConnectPcs, CleanupPcs,
     TaskPcs
<1>2. SocketGoes
  BY DEF HandlerMembership, SocketGoes, sockVars
<1>3. HistGoes
  BY Typed DEF HandlerMembership, HistGoes, storeVars, connVars
<1> QED
  BY <1>1, <1>2, <1>3 DEF Orderly

LEMMA ConnectGoes ==
    ASSUME IInv, WorkOK, NEW k \in Tasks, NEW i \in Instances, Connect(k, i)
    PROVE  Orderly
<1>1. \A q \in Tasks : TaskGoes(q)
  BY Typed DEF Connect, Start, Goto, WorkOK, TaskGoes, SweepPcs, ConnectPcs, FramePcs,
     CleanupPcs
<1>2. SocketGoes
  BY DEF Connect, SocketGoes
<1>3. HistGoes
  BY Typed DEF Connect, HistGoes, storeVars, histVars
<1> QED
  BY <1>1, <1>2, <1>3 DEF Orderly

LEMMA FrameServedGoes ==
    ASSUME IInv, WorkOK, NEW k \in Tasks, NEW i \in Instances, FrameServed(k, i)
    PROVE  Orderly
<1>1. \A q \in Tasks : TaskGoes(q)
  BY DEF FrameServed, StartFrame, Start, Serve, WorkOK, TaskGoes, SweepPcs, ConnectPcs,
     CleanupPcs
<1>2. SocketGoes
  BY DEF FrameServed, StartFrame, SocketGoes, sockVars
<1>3. HistGoes
  BY Typed DEF FrameServed, StartFrame, HistGoes, storeVars, connVars
<1> QED
  BY <1>1, <1>2, <1>3 DEF Orderly

LEMMA FrameUncachedGoes ==
    ASSUME IInv, WorkOK, NEW k \in Tasks, NEW i \in Instances, FrameUncached(k, i)
    PROVE  Orderly
<1>1. \A q \in Tasks : TaskGoes(q)
  BY Typed DEF FrameUncached, StartFrame, Start, Goto, WorkOK, TaskGoes, SweepPcs, ConnectPcs,
     CleanupPcs
<1>2. SocketGoes
  BY DEF FrameUncached, StartFrame, SocketGoes, sockVars
<1>3. HistGoes
  BY Typed DEF FrameUncached, StartFrame, HistGoes, storeVars, connVars
<1> QED
  BY <1>1, <1>2, <1>3 DEF Orderly

LEMMA DisconnectedGoes ==
    ASSUME IInv, WorkOK, ByeOK, NEW k \in Tasks, NEW i \in Instances, Disconnected(k, i)
    PROVE  Orderly
<1>0. socket = "closed"
  BY DEF Disconnected, ByeOK
<1>1. \A q \in Tasks : TaskGoes(q)
  BY <1>0 DEF Disconnected, Start, BeginCleanup, Goto, WorkOK, TaskGoes, SweepPcs, ConnectPcs,
     FramePcs
<1>2. SocketGoes
  BY Typed DEF Disconnected, Start, BeginCleanup, Goto, SocketGoes
<1>3. HistGoes
  BY Typed DEF Disconnected, BeginCleanup, HistGoes, storeVars, connVars
<1> QED
  BY <1>1, <1>2, <1>3 DEF Orderly

LEMMA GoneGoes ==
    ASSUME IInv, WorkOK, NEW k \in Tasks, NEW i \in Instances, Gone(k, i)
    PROVE  Orderly
<1>1. \A q \in Tasks : TaskGoes(q)
  BY DEF Gone, Start, BeginCleanup, Goto, Early, WorkOK, TaskGoes, Calm, SweepPcs, ConnectPcs,
     FramePcs
<1>2. SocketGoes
  BY DEF Gone, SocketGoes, sockVars
<1>3. HistGoes
  BY Typed DEF Gone, BeginCleanup, Early, HistGoes, storeVars, connVars
<1> QED
  BY <1>1, <1>2, <1>3 DEF Orderly

LEMMA KickGoes ==
    ASSUME IInv, WorkOK, NEW k \in Tasks, NEW i \in Instances, Kick(k, i)
    PROVE  Orderly
<1>1. \A q \in Tasks : TaskGoes(q)
  BY DEF Kick, Start, BeginCleanup, Goto, Early, WorkOK, TaskGoes, Calm, SweepPcs, ConnectPcs,
     FramePcs
<1>2. SocketGoes
  BY DEF Kick, SocketGoes, sockVars
<1>3. HistGoes
  BY Typed DEF Kick, BeginCleanup, Early, HistGoes, storeVars, connVars
<1> QED
  BY <1>1, <1>2, <1>3 DEF Orderly

LEMMA HookMembershipGoes ==
    ASSUME IInv, WorkOK, NEW x \in AppRooms, NEW join \in BOOLEAN, HookMembership(x, join)
    PROVE  Orderly
<1>1. \A q \in Tasks : TaskGoes(q)
  BY DEF HookMembership, WorkOK, TaskGoes, taskVars
<1>2. SocketGoes
  BY DEF HookMembership, SocketGoes, sockVars
<1>3. HistGoes
  BY Typed DEF HookMembership, HistGoes, storeVars, histVars
<1> QED
  BY <1>1, <1>2, <1>3 DEF Orderly

LEMMA HookDisconnectGoes ==
    ASSUME IInv, WorkOK, HookDisconnect
    PROVE  Orderly
<1>1. \A q \in Tasks : TaskGoes(q)
  BY DEF HookDisconnect, WorkOK, TaskGoes, taskVars
<1>2. SocketGoes
  BY DEF HookDisconnect, SocketGoes, sockVars
<1>3. HistGoes
  BY Typed DEF HookDisconnect, HistGoes, storeVars
<1> QED
  BY <1>1, <1>2, <1>3 DEF Orderly

LEMMA StrayLandsGoes ==
    ASSUME IInv, WorkOK, StrayLands
    PROVE  Orderly
<1>1. \A q \in Tasks : TaskGoes(q)
  BY DEF StrayLands, WorkOK, TaskGoes, taskVars
<1>2. SocketGoes
  BY DEF StrayLands, SocketGoes, sockVars
<1>3. HistGoes
  BY Typed DEF StrayLands, LateWrite, HistGoes, connVars
<1> QED
  BY <1>1, <1>2, <1>3 DEF Orderly

LEMMA ClientClosesGoes ==
    ASSUME IInv, WorkOK, ClientCloses
    PROVE  Orderly
<1>1. \A q \in Tasks : TaskGoes(q)
  BY DEF ClientCloses, WorkOK, TaskGoes, taskVars
<1>2. SocketGoes
  BY DEF ClientCloses, DropSocket, SocketGoes
<1>3. HistGoes
  BY Typed DEF ClientCloses, HistGoes, storeVars, connVars, histVars
<1> QED
  BY <1>1, <1>2, <1>3 DEF Orderly

LEMMA ByeLostGoes ==
    ASSUME IInv, WorkOK, ByeLost
    PROVE  Orderly
<1>1. \A q \in Tasks : TaskGoes(q)
  BY DEF ByeLost, WorkOK, TaskGoes, taskVars
<1>2. SocketGoes
  BY DEF ByeLost, SocketGoes, Clean
<1>3. HistGoes
  BY Typed DEF ByeLost, HistGoes, storeVars, connVars
<1> QED
  BY <1>1, <1>2, <1>3 DEF Orderly

LEMMA SlowConnectGoes ==
    ASSUME IInv, WorkOK, SlowConnect
    PROVE  Orderly
<1>1. \A q \in Tasks : TaskGoes(q)
  BY DEF SlowConnect, WorkOK, TaskGoes, taskVars
<1>2. SocketGoes
  BY DEF SlowConnect, SocketGoes, Clean
<1>3. HistGoes
  BY Typed DEF SlowConnect, HistGoes, storeVars, connVars
<1> QED
  BY <1>1, <1>2, <1>3 DEF Orderly

LEMMA CrashGoes ==
    ASSUME IInv, WorkOK, NEW i \in Instances, Crash(i)
    PROVE  Orderly
<1>1. \A q \in Tasks : TaskGoes(q)
  BY DEF Crash, Answer, WorkOK, Connecting, TaskGoes, Clean, SweepPcs, ConnectPcs, FramePcs,
     CleanupPcs
<1>2. SocketGoes
  BY DEF Crash, Answer, SocketGoes, Clean
<1>3. HistGoes
  <2>1. \A op \in stray' :
          op \in stray \/ \E q \in Tasks : op \in todo[q] /\ pc'[q] \in {"idle", "undo"}
    BY Typed DEF Crash, On
  <2>2. stray' \subseteq stray \/ ~Clean'
    <3>1. CASE On(i) = {}
      BY <3>1 DEF Crash
    <3>2. CASE On(i) # {}
      BY <3>2 DEF Crash, Clean
    <3> QED
      BY <3>1, <3>2
  <2> QED
    BY <2>1, <2>2, Typed DEF Crash, HistGoes
<1> QED
  BY <1>1, <1>2, <1>3 DEF Orderly

LEMMA StutterGoes == ASSUME IInv, WorkOK, UNCHANGED vars PROVE Orderly
<1>1. \A q \in Tasks : TaskGoes(q)
  BY DEF vars, taskVars, TaskGoes, WorkOK, SweepPcs
<1>2. SocketGoes
  BY DEF vars, sockVars, SocketGoes
<1>3. HistGoes
  BY Typed DEF vars, storeVars, histVars, connVars, HistGoes
<1> QED
  BY <1>1, <1>2, <1>3 DEF Orderly

\* So does every step.
LEMMA NextGoes == ASSUME IInv, WorkOK, ByeOK, AloneOK, [Next]_vars PROVE Orderly
<1>1. CASE UNCHANGED vars
  BY <1>1, StutterGoes
<1>2. ASSUME NEW k \in Tasks, Step(k) PROVE Orderly
  BY <1>2, HooksRefuseGoes, HooksAcceptGoes, AddMetaGoes, ApplyMembershipGoes, AcceptedGoes,
     UndoGoes, UndoneGoes, RowDoneGoes, ReadMetaGoes, RehydratedGoes, UnknownGoes, RefuseGoes,
     HandlerEndsGoes, OpenStreamGoes, HandlerCleansGoes, HandlerMembershipGoes, LookUpGoes,
     FarewellGoes, QueryGoes, ForgetGoes, CloseGoes DEF Step
<1>3. ASSUME NEW k \in Tasks, NEW i \in Instances, Event(k, i) PROVE Orderly
  BY <1>3, ConnectGoes, FrameServedGoes, FrameUncachedGoes, DisconnectedGoes, GoneGoes, KickGoes
     DEF Event
<1> QED
  BY <1>1, <1>2, <1>3, RowFailsGoes, ReadFailsGoes, HookMembershipGoes, HookDisconnectGoes,
     StrayLandsGoes, ClientClosesGoes, ByeLostGoes, SlowConnectGoes, CrashGoes DEF Next

\* The steps that send calls about rows, or see one of them answered.
RowsGo ==
    \/ UNCHANGED <<rows, todo, swept, applied>>
    \/ StrayLands
    \/ \E k \in Tasks :
         \/ RowDone(k) \/ RowFails(k) \/ Undo(k) \/ Query(k) \/ AddMeta(k) \/ ApplyMembership(k)
         \/ \E x \in AppRooms : HandlerMembership(k, x)
    \/ \E i \in Instances : Crash(i)

\* There are no others.
LEMMA NextRows == ASSUME [Next]_vars PROVE RowsGo
<1>1. CASE UNCHANGED vars
  BY <1>1 DEF RowsGo, vars, storeVars, taskVars, connVars
<1>2. ASSUME NEW k \in Tasks, Step(k) PROVE RowsGo
  <2>1. CASE HooksRefuse(k) \/ HooksAccept(k) \/ Accepted(k) \/ Undone(k)
    BY <2>1 DEF HooksRefuse, HooksAccept, Accepted, Undone, RowsGo, storeVars, connVars
  <2>2. CASE ReadMeta(k) \/ Rehydrated(k) \/ Unknown(k) \/ Refuse(k)
    BY <2>2 DEF ReadMeta, Rehydrated, Unknown, Refuse, RowsGo, storeVars, connVars
  <2>3. CASE HandlerEnds(k) \/ OpenStream(k) \/ HandlerCleans(k) \/ LookUp(k)
    BY <2>3 DEF HandlerEnds, OpenStream, HandlerCleans, BeginCleanup, LookUp, RowsGo, storeVars,
       connVars
  <2>4. CASE Farewell(k) \/ Forget(k) \/ Close(k)
    BY <2>4 DEF Farewell, Forget, Close, RowsGo, storeVars, connVars
  <2> QED
    BY <1>2, <2>1, <2>2, <2>3, <2>4 DEF Step, RowsGo
<1>3. ASSUME NEW k \in Tasks, NEW i \in Instances, Event(k, i) PROVE RowsGo
  <2>1. CASE Connect(k, i)
    BY <2>1 DEF Connect, Start, RowsGo, storeVars
  <2>2. CASE FrameServed(k, i) \/ FrameUncached(k, i)
    BY <2>2 DEF FrameServed, FrameUncached, StartFrame, Start, RowsGo, storeVars, connVars
  <2>3. CASE Disconnected(k, i) \/ Gone(k, i) \/ Kick(k, i)
    BY <2>3 DEF Disconnected, Gone, Kick, BeginCleanup, Start, RowsGo, storeVars, connVars
  <2> QED
    BY <1>3, <2>1, <2>2, <2>3 DEF Event
<1>4. ASSUME NEW k \in Tasks, ReadFails(k) PROVE RowsGo
  BY <1>4 DEF ReadFails, RowsGo, storeVars, connVars
<1>5. ASSUME NEW x \in AppRooms, NEW join \in BOOLEAN, HookMembership(x, join) PROVE RowsGo
  BY <1>5 DEF HookMembership, RowsGo, storeVars, taskVars
<1>6. CASE HookDisconnect \/ ClientCloses \/ ByeLost \/ SlowConnect
  BY <1>6 DEF HookDisconnect, ClientCloses, ByeLost, SlowConnect, RowsGo, storeVars, taskVars,
     connVars
<1> QED
  BY <1>1, <1>2, <1>3, <1>4, <1>5, <1>6 DEF Next, RowsGo

\* A longer second part makes the whole longer.
LEMMA ConcatGrows ==
    ASSUME NEW S, NEW first \in Seq(S), NEW j \in Seq(S), NEW e \in S
    PROVE  /\ Len(first \o j) \in Nat /\ Len(first \o Append(j, e)) = Len(first \o j) + 1
           /\ \A n \in 1..Len(first \o j) : (first \o Append(j, e))[n] = (first \o j)[n]
<1>1. /\ Append(j, e) \in Seq(S) /\ Len(j) \in Nat /\ Len(first) \in Nat
      /\ Len(Append(j, e)) = Len(j) + 1
      /\ \A n \in 1..Len(j) : Append(j, e)[n] = j[n]
  BY AppendProperties
<1>2. PICK t : t = Append(j, e)
  OBVIOUS
<1>3. /\ Len(first \o j) = Len(first) + Len(j) /\ Len(first \o t) = Len(first) + Len(t)
      /\ \A n \in 1..(Len(first) + Len(j)) :
           (first \o j)[n] = IF n <= Len(first) THEN first[n] ELSE j[n - Len(first)]
      /\ \A n \in 1..(Len(first) + Len(t)) :
           (first \o t)[n] = IF n <= Len(first) THEN first[n] ELSE t[n - Len(first)]
  BY <1>1, <1>2, ConcatProperties
<1> QED
  BY <1>1, <1>2, <1>3

\* What accept() works through only grows at its end.
LEMMA PlanGrows ==
    ASSUME IInv, [Next]_vars
    PROVE  /\ Len(Plan) \in Nat /\ Len(Plan)' \in Nat /\ Len(Plan) <= Len(Plan)'
           /\ \A n \in 1..Len(Plan) : Plan'[n] = Plan[n]
<1>1. TypeOK /\ Plan \in Seq(Rooms \X BOOLEAN) /\ Len(Plan) \in Nat
  BY PlanIs DEF IInv
<1>2. CASE \E x \in AppRooms, join \in BOOLEAN : HookMembership(x, join)
  <2>1. PICK x \in AppRooms, join \in BOOLEAN :
           attempt' = [attempt EXCEPT !.joins = Append(@, <<x, join>>)] /\ foreign' = foreign
    BY <1>2 DEF HookMembership
  <2>2. attempt.joins \in Seq(AppRooms \X BOOLEAN)
    BY <1>1 DEF TypeOK, ConnTypes
  <2>3. attempt'.joins = Append(attempt.joins, <<x, join>>)
    BY <1>1, <2>1 DEF TypeOK, ConnTypes
  <2>4. PICK first : first = IF foreign THEN <<>> ELSE <<<<GLOBAL_ROOM, TRUE>>>>
    OBVIOUS
  <2>5. first \in Seq(Rooms \X BOOLEAN)
    <3>1. <<GLOBAL_ROOM, TRUE>> \in Rooms \X BOOLEAN
      BY DEF Rooms
    <3>2. CASE foreign
      BY <2>4, <3>2
    <3>3. CASE ~foreign
      BY <2>4, <3>1, <3>3
    <3> QED
      BY <3>2, <3>3
  <2>6. attempt.joins \in Seq(Rooms \X BOOLEAN) /\ <<x, join>> \in Rooms \X BOOLEAN
    BY <2>2 DEF Rooms
  <2>7. Plan = first \o attempt.joins /\ Plan' = first \o Append(attempt.joins, <<x, join>>)
    BY <2>1, <2>3, <2>4 DEF Plan
  <2> QED
    BY <2>5, <2>6, <2>7, ConcatGrows
<1>3. CASE ~\E x \in AppRooms, join \in BOOLEAN : HookMembership(x, join)
  <2>1. foreign' = foreign /\ attempt'.joins = attempt.joins
    <3>1. \A b \in BOOLEAN : /\ [attempt EXCEPT !.live = b].joins = attempt.joins
                             /\ [attempt EXCEPT !.refused = b].joins = attempt.joins
      BY <1>1 DEF TypeOK, ConnTypes
    <3>2. \/ UNCHANGED connVars \/ UNCHANGED <<foreign, attempt>>
          \/ foreign' = foreign /\ \E b \in BOOLEAN : \/ attempt' = [attempt EXCEPT !.live = b]
                                                     \/ attempt' = [attempt EXCEPT !.refused = b]
      <4>1. ASSUME NEW k \in Tasks, Step(k) \/ RowFails(k) \/ ReadFails(k)
            PROVE  UNCHANGED <<foreign, attempt>> \/ Accepted(k)
        BY <4>1 DEF Step, HooksRefuse, HooksAccept, AddMeta, ApplyMembership, Undo, Undone, RowDone,
           ReadMeta, Rehydrated, Unknown, Refuse, HandlerEnds, OpenStream, HandlerCleans,
           HandlerMembership, LookUp, Farewell, Query, Forget, Close, RowFails, ReadFails,
           QueryRows, BeginCleanup, connVars
      <4>2. ASSUME NEW k \in Tasks, NEW i \in Instances, Event(k, i)
            PROVE  UNCHANGED <<foreign, attempt>> \/ Connect(k, i)
        BY <4>2 DEF Event, FrameServed, FrameUncached, StartFrame, Disconnected, Gone, Kick,
           BeginCleanup, connVars
      <4> QED
        BY <1>3, <4>1, <4>2 DEF Next, Accepted, Connect, HookDisconnect, StrayLands, ClientCloses,
           ByeLost, SlowConnect, Crash, vars, connVars
    <3> QED
      BY <3>1, <3>2 DEF connVars
  <2>2. Plan' = Plan
    BY <2>1 DEF Plan
  <2> QED
    BY <1>1, <2>2
<1> QED
  BY <1>2, <1>3

-----------------------------------------------------------------------------
(* Rows, and calls about them                                              *)

\* The calls of one Promise.all are all puts or all deletes.
SidesOK == \A k \in Tasks : todo[k] \subseteq Put(Rows) \/ todo[k] \subseteq Del(Rows)

\* The rows of two rooms, and META, are apart.
LEMMA RowsApart ==
    /\ \A x, y : Fwd(x) # Rev(y) /\ Fwd(x) # Meta /\ Rev(x) # Meta
    /\ \A x, y : (Fwd(x) = Fwd(y) \/ Rev(x) = Rev(y)) => x = y
    /\ \A x : Fwd(x)[1] = "fwd" /\ Rev(x)[1] = "rev" /\ Rev(x)[2] = x /\ Meta[1] = "meta"
<1>1. \A x : Fwd(x)[1] = "fwd" /\ Rev(x)[1] = "rev" /\ Fwd(x)[2] = x /\ Rev(x)[2] = x
  BY DEF Fwd, Rev
<1>2. Meta[1] = "meta"
  BY DEF Meta
<1> QED
  BY <1>1, <1>2

\* What one call, and one more of several, leaves.
LEMMA LandedOne ==
    ASSUME NEW row \in Rows
    PROVE  Landed({<<"put", row>>}) = rows \cup {row} /\ Landed({<<"del", row>>}) = rows \ {row}
<1>1. \A r : /\ <<"put", r>> \in {<<"put", row>>} <=> r = row
             /\ <<"del", r>> \in {<<"del", row>>} <=> r = row
             /\ <<"put", r>> \notin {<<"del", row>>} /\ <<"del", r>> \notin {<<"put", row>>}
  OBVIOUS
<1> QED
  BY <1>1 DEF Landed

LEMMA OneOp ==
    ASSUME NEW ops, ops \subseteq Put(Rows) \/ ops \subseteq Del(Rows), NEW op \in ops
    PROVE  \E row \in Rows : \/ op = <<"put", row>> /\ ops \subseteq Put(Rows)
                             \/ op = <<"del", row>> /\ ops \subseteq Del(Rows)
  BY DEF Put, Del

LEMMA Sided ==
    ASSUME NEW ops
    PROVE  /\ ops \subseteq Put(Rows) => \A r : <<"del", r>> \notin ops
           /\ ops \subseteq Del(Rows) => \A r : <<"put", r>> \notin ops
<1>1. \A r, s : <<"del", r>> # <<"put", s>>
  OBVIOUS
<1> QED
  BY <1>1 DEF Put, Del

\* The calls that are left do the rest.
LEMMA LandedRest ==
    ASSUME NEW ops, ops \subseteq Put(Rows) \/ ops \subseteq Del(Rows), NEW op \in ops,
           rows' = Landed({op})
    PROVE  Landed(ops \ {op})' = Landed(ops)
<1>1. PICK row \in Rows : \/ op = <<"put", row>> /\ ops \subseteq Put(Rows)
                          \/ op = <<"del", row>> /\ ops \subseteq Del(Rows)
  BY OneOp
<1>2. CASE op = <<"put", row>> /\ ops \subseteq Put(Rows)
  <2>1. rows' = rows \cup {row}
    BY <1>2, LandedOne
  <2>2. \A r : /\ <<"del", r>> \notin ops
               /\ <<"put", r>> \in ops \ {op} <=> <<"put", r>> \in ops /\ r # row
    BY <1>2, Sided
  <2>3. <<"put", row>> \in ops
    BY <1>2
  <2> QED
    BY <2>1, <2>2, <2>3 DEF Landed
<1>3. CASE op = <<"del", row>> /\ ops \subseteq Del(Rows)
  <2>1. rows' = rows \ {row}
    BY <1>3, LandedOne
  <2>2. \A r : /\ <<"put", r>> \notin ops
               /\ <<"del", r>> \in ops \ {op} <=> <<"del", r>> \in ops /\ r # row
    BY <1>3, Sided
  <2>3. <<"del", row>> \in ops
    BY <1>3
  <2> QED
    BY <2>1, <2>2, <2>3 DEF Landed
<1> QED
  BY <1>1, <1>2, <1>3

\* What the puts, or the deletes, of some rows leave.
LEMMA LandedPuts ==
    ASSUME NEW S \in SUBSET Rows, rows \subseteq Rows
    PROVE  Landed(Put(S)) = rows \cup S /\ Landed(Del(S)) = rows \ S /\ Landed({}) = rows
<1>1. \A r : /\ <<"put", r>> \in Put(S) <=> r \in S
             /\ <<"del", r>> \in Del(S) <=> r \in S
             /\ <<"put", r>> \notin Del(S) /\ <<"del", r>> \notin Put(S)
  BY DEF Put, Del
<1> QED
  BY <1>1 DEF Landed

\* An entry of the plan joins its room or leaves it.
LEMMA EntryIs ==
    ASSUME NEW p \in Rooms \X BOOLEAN
    PROVE  p[1] \in Rooms /\ (p = <<p[1], TRUE>> \/ p = <<p[1], FALSE>>)
<1>1. p[1] \in Rooms /\ p[2] \in BOOLEAN /\ p = <<p[1], p[2]>>
  OBVIOUS
<1>2. CASE p[2] = TRUE
  BY <1>1, <1>2
<1>3. CASE p[2] = FALSE
  BY <1>1, <1>3
<1> QED
  BY <1>1, <1>2, <1>3

\* One entry of the plan more: the last word on its room is its own, and the one on
\* every other room stays.
LEMMA PlannedNext ==
    ASSUME IInv, NEW n \in 1..Len(Plan), rows = Planned(n - 1)
    PROVE  Landed(MembershipOps(n)) = Planned(n)
<1>1. Plan[n] \in Rooms \X BOOLEAN /\ Len(Plan) \in Nat
  BY PlanIs DEF IInv
<1>2. PICK x \in Rooms : Plan[n] \in {<<x, TRUE>>, <<x, FALSE>>} /\ Plan[n][1] = x
  BY <1>1, EntryIs
<1> DEFINE b == Plan[n] = <<x, TRUE>>
<1>3. RowsOf(x) \in SUBSET Rows /\ rows \subseteq Rows
  BY RoomRows, Typed
<1>4. ASSUME NEW y \in Rooms PROVE LastWord(y, n) <=> IF y = x THEN b ELSE LastWord(y, n - 1)
  <2>1. n \in 1..n /\ \A m : m \in 1..n <=> m \in 1..(n - 1) \/ m = n
    OBVIOUS
  <2>2. CASE y = x
    <3>1. LastWord(x, n) => b
      <4> SUFFICES ASSUME NEW m \in 1..n, Plan[m] = <<x, TRUE>>,
                          \A j \in 1..n : j > m => Plan[j][1] # x
                   PROVE  b
        BY DEF LastWord
      <4>1. Plan[n][1] = x
        BY <1>2
      <4>2. m = n
        BY <2>1, <4>1
      <4> QED
        BY <4>2
    <3>2. b => LastWord(x, n)
      <4> SUFFICES ASSUME b PROVE LastWord(x, n)
        OBVIOUS
      <4>1. Plan[n] = <<x, TRUE>> /\ \A j \in 1..n : ~(j > n)
        OBVIOUS
      <4> QED
        BY <2>1, <4>1 DEF LastWord
    <3> QED
      BY <2>2, <3>1, <3>2
  <2>3. CASE y # x
    <3>1. Plan[n][1] # y /\ Plan[n] # <<y, TRUE>>
      <4>1. <<y, TRUE>>[1] = y
        OBVIOUS
      <4> QED
        BY <1>2, <2>3, <4>1
    <3>2. LastWord(y, n) => LastWord(y, n - 1)
      BY <2>1, <3>1 DEF LastWord
    <3>3. LastWord(y, n - 1) => LastWord(y, n)
      BY <2>1, <3>1 DEF LastWord
    <3> QED
      BY <2>3, <3>2, <3>3
  <2> QED
    BY <2>2, <2>3
<1> HIDE DEF b
<1>5. \A y \in Rooms : y # x => RowsOf(y) \cap RowsOf(x) = {} 
  BY RowsApart DEF RowsOf
<1>6. Meta \notin RowsOf(x)
  BY RowsApart DEF RowsOf
<1>7. \A r : r \in Planned(n) <=>
        \/ r = Meta \/ (b /\ r \in RowsOf(x))
        \/ \E y \in Rooms : y # x /\ LastWord(y, n - 1) /\ r \in RowsOf(y)
  BY <1>4 DEF Planned
<1>8. \A r : r \in rows <=> r = Meta \/ \E y \in Rooms : LastWord(y, n - 1) /\ r \in RowsOf(y)
  BY DEF Planned
<1>9. \A r : r \in Planned(n) <=> r \in IF b THEN rows \cup RowsOf(x) ELSE rows \ RowsOf(x)
  BY <1>5, <1>6, <1>7, <1>8
<1>10. MembershipOps(n) = IF b THEN Put(RowsOf(x)) ELSE Del(RowsOf(x))
  <2>1. CASE Plan[n] = <<x, TRUE>>
    BY <1>2, <2>1 DEF MembershipOps, b
  <2>2. CASE Plan[n] = <<x, FALSE>>
    <3>1. <<x, TRUE>>[2] = TRUE /\ <<x, FALSE>>[2] = FALSE
      OBVIOUS
    <3> QED
      BY <1>2, <2>2, <3>1 DEF MembershipOps, b
  <2> QED
    BY <1>2, <2>1, <2>2
<1>11. Landed(MembershipOps(n)) = IF b THEN rows \cup RowsOf(x) ELSE rows \ RowsOf(x)
  BY <1>3, <1>10, LandedPuts
<1> QED
  BY <1>9, <1>11

\* Entries that come later do not change it.
LEMMA PlannedStays ==
    ASSUME IInv, [Next]_vars, NEW n \in 0..Len(Plan)
    PROVE  Planned(n)' = Planned(n)
<1>1. \A m \in 1..n : Plan'[m] = Plan[m]
  BY PlanGrows
<1> QED
  BY <1>1 DEF Planned, LastWord

-----------------------------------------------------------------------------
(* An accepted connection is recorded whole                                *)

BaseOK == IInv /\ WorkOK /\ NewOK /\ ByeOK /\ SidesOK /\ AloneOK

LEMMA BaseInit == Init => BaseOK
<1> SUFFICES ASSUME Init PROVE BaseOK
  OBVIOUS
<1>1. \A k \in Tasks : pc[k] = "idle" /\ todo[k] = {}
  BY DEF Init
<1>2. socket = "new" /\ bye = FALSE /\ stray = {} /\ swept = FALSE /\ applied = 0
  BY DEF Init
<1>3. WorkOK /\ NewOK /\ ByeOK /\ SidesOK /\ AloneOK
  BY <1>1, <1>2 DEF WorkOK, NewOK, ByeOK, SidesOK, AloneOK, Connecting, ConnectPcs
<1> QED
  BY <1>3, InitIInv DEF BaseOK

LEMMA BaseGoes == ASSUME BaseOK, [Next]_vars PROVE Orderly /\ IInv /\ IInv'
  BY NextGoes, NextKeeps DEF BaseOK

LEMMA WorkStep == ASSUME BaseOK, [Next]_vars PROVE WorkOK'
<1>1. Orderly /\ IInv'
  BY BaseGoes
<1> SUFFICES ASSUME NEW k \in Tasks
             PROVE  /\ todo'[k] # {} => pc'[k] \in {"apply", "undoing", "write", "delete"}
                    /\ Connecting(k)' => kind'[k] = "connect"
                    /\ pc'[k] \in {"hooks", "add"} => applied' = 0
  BY DEF WorkOK, Connecting
<1>2. TaskGoes(k)
  BY <1>1 DEF Orderly
<1>3. todo'[k] # {} => pc'[k] \in {"apply", "undoing", "write", "delete"}
  BY <1>2 DEF TaskGoes
<1>4. Connecting(k)' => kind'[k] = "connect"
  <2>1. Connecting(k) => kind[k] = "connect"
    BY DEF BaseOK, WorkOK
  <2> QED
    BY <1>2, <2>1 DEF TaskGoes, Connecting
<1>5. ASSUME pc'[k] \in {"hooks", "add"} PROVE applied' = 0
  <2>1. pc'[k] \in ConnectPcs /\ Connecting(k)'
    BY <1>5 DEF ConnectPcs, Connecting
  <2>2. applied = 0
    <3>1. CASE pc[k] \in ConnectPcs
      BY <1>2, <1>5, <2>1, <3>1 DEF TaskGoes, BaseOK, WorkOK
    <3>2. CASE pc[k] \notin ConnectPcs
      BY <1>2, <2>1, <3>2 DEF TaskGoes, BaseOK, NewOK
    <3> QED
      BY <3>1, <3>2
  <2>3. \A q \in Tasks : pc'[q] = "apply" => q = k
    BY <1>1, <2>1 DEF IInv, ConnectOK, Connecting, ConnectPcs
  <2>4. \A q \in Tasks : pc'[q] # "apply"
    BY <1>5, <2>3
  <2> QED
    BY <1>1, <2>2, <2>4 DEF Orderly, HistGoes
<1> QED
  BY <1>3, <1>4, <1>5

LEMMA NewStep == ASSUME BaseOK, [Next]_vars PROVE NewOK'
<1> SUFFICES ASSUME socket' = "new"
             PROVE  (\A k \in Tasks : pc'[k] = "idle") /\ stray' = {} /\ ~swept' /\ applied' = 0
  BY DEF NewOK
<1>1. Orderly /\ IInv'
  BY BaseGoes
<1>2. socket = "new"
  BY <1>1 DEF Orderly, SocketGoes
<1>3. (\A k \in Tasks : pc[k] = "idle") /\ stray = {} /\ ~swept /\ applied = 0
  BY <1>2 DEF BaseOK, NewOK
<1>4. \A k \in Tasks : todo[k] = {}
  BY <1>3 DEF BaseOK, WorkOK
<1>5. ASSUME NEW k \in Tasks PROVE pc'[k] = "idle"
  <2>1. TaskGoes(k) /\ pc'[k] \in TaskPcs
    BY <1>1, Typed DEF Orderly, IInv, TypeOK, TaskTypes
  <2> QED
    BY <1>2, <1>3, <2>1 DEF TaskGoes, TaskPcs, ConnectPcs, FramePcs, CleanupPcs
<1> QED
  BY <1>1, <1>3, <1>4, <1>5 DEF Orderly, HistGoes

LEMMA ByeStep == ASSUME BaseOK, [Next]_vars PROVE ByeOK'
<1>1. SocketGoes /\ (bye => socket = "closed")
  BY BaseGoes DEF Orderly, BaseOK, ByeOK
<1> QED
  BY <1>1 DEF SocketGoes, ByeOK

\* What the calls of a handler, an entry of the plan, and store.add are.
LEMMA EntryOps ==
    ASSUME IInv, NEW n \in 1..Len(Plan)
    PROVE  \E x \in Rooms : MembershipOps(n) \in {Put(RowsOf(x)), Del(RowsOf(x))}
<1>1. Plan[n][1] \in Rooms
  BY PlanIs, EntryIs DEF IInv
<1> QED
  BY <1>1 DEF MembershipOps

LEMMA ApplyIs ==
    ASSUME IInv, NEW k \in Tasks, ApplyMembership(k)
    PROVE  applied \in 1..Len(Plan) /\ Connecting(k)
<1>1. pc[k] = "apply" /\ applied <= Len(Plan) /\ applied \in Nat /\ Len(Plan) \in Nat
  BY PlanIs DEF ApplyMembership, IInv, TypeOK, ConnTypes
<1>2. Connecting(k) /\ applied # 0
  BY <1>1 DEF Connecting, ConnectPcs, IInv, ConnectOK
<1> QED
  BY <1>1, <1>2

LEMMA SidesStep == ASSUME BaseOK, [Next]_vars PROVE SidesOK'
<1>1. todo \in [Tasks -> SUBSET (Put(Rows) \cup Del(Rows))] /\ IInv /\ SidesOK
  BY Typed DEF BaseOK
<1>2. \A x \in Rooms : Put(RowsOf(x)) \subseteq Put(Rows) /\ Del(RowsOf(x)) \subseteq Del(Rows)
  BY RoomRows DEF Put, Del
<1>3. RowsGo
  BY NextRows
<1>4. ASSUME NEW k \in Tasks, RowDone(k) PROVE SidesOK'
  BY <1>1, <1>4 DEF RowDone, SidesOK
<1>5. ASSUME NEW k \in Tasks, RowFails(k) PROVE SidesOK'
  BY <1>1, <1>5 DEF RowFails, SidesOK
<1>6. ASSUME NEW k \in Tasks, QueryRows(k) PROVE SidesOK'
  <2>1. PICK ops \in SUBSET Del(Rows) : todo' = [todo EXCEPT ![k] = ops]
    BY <1>1, <1>6, QueryIs DEF IInv
  <2> QED
    BY <1>1, <2>1 DEF SidesOK
<1>7. ASSUME NEW k \in Tasks, AddMeta(k) PROVE SidesOK'
  <2>1. Put({Meta}) \subseteq Put(Rows)
    BY RoomRows DEF Put
  <2> QED
    BY <1>1, <1>7, <2>1 DEF AddMeta, SidesOK
<1>8. ASSUME NEW k \in Tasks, ApplyMembership(k) PROVE SidesOK'
  <2>1. PICK x \in Rooms : MembershipOps(applied) \in {Put(RowsOf(x)), Del(RowsOf(x))}
    BY <1>1, <1>8, ApplyIs, EntryOps
  <2> QED
    BY <1>1, <1>2, <1>8, <2>1 DEF ApplyMembership, SidesOK
<1>9. ASSUME NEW k \in Tasks, NEW x \in AppRooms, HandlerMembership(k, x) PROVE SidesOK'
  <2>1. x \in Rooms
    BY DEF Rooms
  <2> QED
    BY <1>1, <1>2, <1>9, <2>1 DEF HandlerMembership, SidesOK
<1>10. ASSUME NEW i \in Instances, Crash(i) PROVE SidesOK'
  BY <1>1, <1>10 DEF Crash, SidesOK
<1>11. CASE StrayLands \/ UNCHANGED todo
  BY <1>1, <1>11 DEF StrayLands, taskVars, SidesOK
<1> QED
  BY <1>3, <1>4, <1>5, <1>6, <1>7, <1>8, <1>9, <1>10, <1>11 DEF RowsGo, Undo, Query

\* While nobody else works for the connection, accept() writes what it has come to.
LEMMA ApplyStep ==
    ASSUME BaseOK, [Next]_vars, socket = "connecting", Calm, NEW k \in Tasks, pc'[k] = "apply"
    PROVE  Landed(todo[k])' = Planned(applied - 1)'
<1>1. Orderly /\ IInv /\ IInv' /\ TaskGoes(k)
  BY BaseGoes DEF Orderly
<1>2. Connecting(k) /\ pc[k] \in FirstPcs /\ (pc[k] # "apply" => AddMeta(k))
  BY <1>1 DEF TaskGoes, Connecting, ConnectPcs, FirstPcs
<1>3. \A q \in Tasks \ {k} : pc[q] = "idle" /\ todo[q] = {}
  <2>1. \A q \in Tasks : pc[q] # "idle" => q = k
    BY <1>1, <1>2 DEF BaseOK, AloneOK, IInv, ConnectOK
  <2> QED
    BY <2>1 DEF BaseOK, WorkOK
<1>4. stray = {} /\ rows \subseteq Rows /\ todo \in [Tasks -> SUBSET (Put(Rows) \cup Del(Rows))]
  BY <1>1, <1>2, Typed DEF BaseOK, AloneOK
<1>5. CASE pc[k] # "apply"
  <2>1. pc[k] = "add" /\ applied' = 1 /\ todo'[k] = Put({Meta}) /\ rows' = rows
    <3>1. pc \in [Tasks -> TaskPcs]
      BY <1>1, Typed
    <3> QED
      BY <1>2, <1>4, <1>5, <3>1 DEF AddMeta, Goto, storeVars
  <2>2. rows = {}
    BY <1>1, <2>1 DEF BaseOK, WorkOK, IInv, VerdictOK, Unwritten
  <2>3. Landed(Put({Meta}))' = {Meta}
    <3>1. PICK ops : ops = Put({Meta})
      OBVIOUS
    <3>2. Landed(ops)' = Landed(ops)
      BY <2>1 DEF Landed
    <3>3. Landed(Put({Meta})) = {Meta}
      BY <1>4, <2>2, LandedPuts, RoomRows
    <3>4. Put({Meta})' = Put({Meta})
      BY DEF Put, Meta
    <3> QED
      BY <3>1, <3>2, <3>3, <3>4
  <2>4. Landed(todo[k])' = {Meta}
    BY <2>1, <2>3
  <2>5. Planned(0)' = {Meta}
    <3>1. \A x \in Rooms : ~LastWord(x, 0)'
      BY DEF LastWord
    <3> QED
      BY <3>1 DEF Planned
  <2>6. Planned(applied - 1)' = Planned(0)'
    BY <2>1
  <2> QED
    BY <2>4, <2>5, <2>6
<1>6. CASE pc[k] = "apply"
  <2>1. Landed(todo[k]) = Planned(applied - 1)
    BY <1>6 DEF BaseOK, AloneOK
  <2>2. applied - 1 \in 0..Len(Plan) /\ applied \in Nat
    BY <1>1, <1>6, <1>2, PlanIs DEF IInv, ConnectOK, TypeOK, ConnTypes
  <2>3. PICK n \in 0..Len(Plan) : n = applied - 1
    BY <2>2
  <2>4. Planned(n)' = Planned(n)
    BY <1>1, PlannedStays
  <2>5. ASSUME UNCHANGED <<rows, applied>>, todo'[k] = todo[k]
        PROVE  Landed(todo[k])' = Planned(applied - 1)'
    <3>1. Landed(todo[k])' = Landed(todo[k])
      BY <2>5 DEF Landed
    <3> QED
      BY <2>1, <2>3, <2>4, <2>5, <3>1
  <2>6. ASSUME RowDone(k) PROVE Landed(todo[k])' = Planned(applied - 1)'
    <3>1. PICK op \in todo[k] : rows' = Landed({op}) /\ todo' = [todo EXCEPT ![k] = @ \ {op}]
      BY <2>6 DEF RowDone
    <3>2. Landed(todo[k] \ {op})' = Landed(todo[k])'
      BY <1>4, <3>1
    <3>3. PICK ops : ops = todo[k]
      OBVIOUS
    <3>4. Landed(ops \ {op})' = Landed(ops)
      BY <3>1, <3>3, LandedRest DEF BaseOK, SidesOK
    <3>5. todo'[k] = ops \ {op} /\ applied' = applied
      BY <1>4, <2>6, <3>1, <3>3 DEF RowDone, connVars
    <3> QED
      BY <2>1, <2>3, <2>4, <3>3, <3>4, <3>5
  <2>7. ASSUME ApplyMembership(k) PROVE Landed(todo[k])' = Planned(applied - 1)'
    <3>1. /\ todo[k] = {} /\ todo'[k] = MembershipOps(applied) /\ applied' = applied + 1
          /\ rows' = rows /\ applied \in 1..Len(Plan)
      BY <1>1, <1>4, <2>7, ApplyIs DEF ApplyMembership, storeVars
    <3>2. rows = Planned(applied - 1)
      BY <1>4, <2>1, <3>1, LandedPuts, RoomRows
    <3>3. PICK m \in 1..Len(Plan) : m = applied
      BY <3>1
    <3>4. Landed(MembershipOps(m)) = Planned(m)
      BY <1>1, <3>2, <3>3, PlannedNext
    <3>5. m \in 0..Len(Plan)
      BY <1>1, PlanIs DEF IInv
    <3>6. Planned(m)' = Planned(m)
      BY <1>1, <3>5, PlannedStays
    <3>7. PICK ops : ops = MembershipOps(m)
      OBVIOUS
    <3>8. Landed(ops)' = Landed(ops)
      BY <3>1 DEF Landed
    <3>9. todo'[k] = ops /\ applied' - 1 = m
      BY <3>1, <3>3, <3>7
    <3> QED
      BY <3>4, <3>6, <3>7, <3>8, <3>9
  <2>8. RowsGo
    BY NextRows
  <2>9. ASSUME NEW q \in Tasks, RowDone(q) \/ RowFails(q) \/ Undo(q) \/ Query(q) \/ AddMeta(q)
                                \/ ApplyMembership(q) \/ \E x \in AppRooms : HandlerMembership(q, x)
        PROVE  q = k /\ (RowDone(k) \/ ApplyMembership(k))
    <3>1. q = k
      BY <1>3, <2>9 DEF RowDone, RowFails, Undo, Query, AddMeta, ApplyMembership, HandlerMembership
    <3>2. pc \in [Tasks -> TaskPcs]
      BY <1>1, Typed
    <3> QED
      BY <1>6, <2>9, <3>1, <3>2 DEF RowFails, Undo, Query, AddMeta, HandlerMembership, Goto
  <2>10. ASSUME NEW i \in Instances, Crash(i)
         PROVE  UNCHANGED <<rows, applied>> /\ todo'[k] = todo[k]
    <3>1. k \notin On(i)
      BY <2>10 DEF Crash
    <3> QED
      BY <2>10, <3>1 DEF Crash
  <2>11. ~StrayLands
    BY <1>4 DEF StrayLands
  <2> QED
    BY <2>5, <2>6, <2>7, <2>8, <2>9, <2>10, <2>11 DEF RowsGo
<1> QED
  BY <1>5, <1>6

LEMMA AloneStep == ASSUME BaseOK, [Next]_vars PROVE AloneOK'
<1> SUFFICES ASSUME socket' = "connecting", Calm'
             PROVE  /\ \A k \in Tasks : pc'[k] # "idle" => Connecting(k)'
                    /\ \A k \in Tasks : pc'[k] \in FirstPcs => ~swept' /\ stray' = {}
                    /\ \A k \in Tasks : pc'[k] = "apply" => Landed(todo[k])' = Planned(applied - 1)'
  BY DEF AloneOK
<1>1. Orderly /\ IInv /\ IInv' /\ Calm
  BY BaseGoes DEF Orderly, HistGoes, Calm
<1>2. socket = "new" \/ socket = "connecting"
  BY <1>1 DEF Orderly, SocketGoes
<1>3. \A k \in Tasks : pc[k] # "idle" => Connecting(k) /\ socket = "connecting"
  BY <1>1, <1>2 DEF BaseOK, NewOK, AloneOK
<1>4. ASSUME NEW k \in Tasks, pc'[k] # "idle" PROVE Connecting(k)'
  <2>1. TaskGoes(k) /\ pc'[k] \in TaskPcs
    BY <1>1 DEF Orderly, IInv, TypeOK, TaskTypes
  <2>2. pc'[k] \notin FramePcs
    BY <1>2, <1>3, <2>1 DEF TaskGoes, FramePcs, Connecting, ConnectPcs
  <2>3. pc'[k] \notin CleanupPcs
    BY <1>2, <1>3, <2>1 DEF TaskGoes, CleanupPcs, Connecting, ConnectPcs
  <2> QED
    BY <1>4, <2>1, <2>2, <2>3 DEF TaskPcs, Connecting, ConnectPcs
<1>5. ASSUME NEW k \in Tasks, pc'[k] \in FirstPcs PROVE ~swept' /\ stray' = {}
  <2>1. TaskGoes(k) /\ Connecting(k)'
    BY <1>1, <1>5 DEF Orderly, FirstPcs, Connecting, ConnectPcs
  <2>2. ~swept /\ stray = {}
    BY <1>1, <1>2, <1>5, <2>1 DEF TaskGoes, Connecting, BaseOK, NewOK, AloneOK
  <2>3. \A q \in Tasks : Connecting(q)' => q = k
    BY <1>1, <2>1 DEF IInv, ConnectOK
  <2>4. ASSUME NEW q \in Tasks, pc[q] # "idle" PROVE q = k
    <3>1. TaskGoes(q) /\ Connecting(q) /\ socket = "connecting"
      BY <1>1, <1>3, <2>4 DEF Orderly
    <3> QED
      BY <2>3, <3>1 DEF TaskGoes, Connecting
  <2>5. ~swept'
    BY <1>1, <1>5, <2>2, <2>4 DEF Orderly, HistGoes, FirstPcs
  <2>6. \A q \in Tasks : todo[q] # {} => q = k
    BY <2>4 DEF BaseOK, WorkOK
  <2>7. stray' = {}
    BY <1>1, <1>5, <2>2, <2>6 DEF Orderly, HistGoes, FirstPcs
  <2> QED
    BY <2>5, <2>7
<1>6. ASSUME NEW k \in Tasks, pc'[k] = "apply" PROVE Landed(todo[k])' = Planned(applied - 1)'
  <2>1. TaskGoes(k)
    BY <1>1 DEF Orderly
  <2>2. socket = "connecting"
    BY <1>3, <1>6, <2>1 DEF TaskGoes, ConnectPcs
  <2> QED
    BY <1>1, <1>6, <2>2, ApplyStep
<1> QED
  BY <1>4, <1>5, <1>6

LEMMA BaseStep == BaseOK /\ [Next]_vars => BaseOK'
  BY BaseGoes, WorkStep, NewStep, ByeStep, SidesStep, AloneStep DEF BaseOK

\* What is there when $connect is answered 200.
LEMMA AcceptedRows ==
    ASSUME BaseOK, socket = "connecting", Calm, NEW k \in Tasks, Accepted(k)
    PROVE  rows = WholeRows /\ ~swept /\ Connecting(k)
<1>1. pc[k] = "apply" /\ todo[k] = {} /\ applied > Len(Plan)
  BY DEF Accepted
<1>2. Landed(todo[k]) = Planned(applied - 1) /\ ~swept /\ Connecting(k)
  BY <1>1 DEF BaseOK, AloneOK, FirstPcs, Connecting, ConnectPcs
<1>3. rows = Planned(applied - 1)
  BY <1>1, <1>2, LandedPuts, RoomRows, Typed DEF BaseOK
<1>4. Plan \in Seq(Rooms \X BOOLEAN) /\ Len(Plan) \in Nat /\ applied - 1 = Len(Plan)
  BY <1>1, PlanIs DEF BaseOK, IInv, ConnectOK, TypeOK, ConnTypes
<1>5. DOMAIN Plan = 1..Len(Plan)
  BY <1>4
<1>6. \A x : LastWord(x, Len(Plan)) <=> Remembered(x)
  BY <1>5 DEF LastWord, Remembered
<1>7. Planned(Len(Plan)) = WholeRows
  BY <1>6 DEF Planned, WholeRows
<1> QED
  BY <1>2, <1>3, <1>4, <1>7

\* When API Gateway is answered 200, exactly the rows of the hooks' final say exist,
\* however many memberships they recorded, whatever failed on the way, and however
\* long the hooks go on, unless a kick or a 410 cleaned up meanwhile (accept() and
\* undo of GatewayBridge's connect phase).
THEOREM RecordedWhole == Spec => AcceptedWhole
<1>1. ASSUME BaseOK, [Next]_vars, socket = "connecting", socket' = "open", Calm
      PROVE  rows = WholeRows
  <2>1. SocketGoes
    BY <1>1, BaseGoes DEF Orderly
  <2>2. PICK k \in Tasks : Accepted(k)
    BY <1>1, <2>1 DEF SocketGoes
  <2> QED
    BY <1>1, <2>2, AcceptedRows
<1>2. BaseOK /\ [Next]_vars
      => [socket = "connecting" /\ socket' = "open" => rows = WholeRows \/ "early" \in excuses]_vars
  BY <1>1 DEF Calm
<1> QED
  BY <1>2, BaseInit, BaseStep, PTL DEF Spec, AcceptedWhole

-----------------------------------------------------------------------------
(* A connection that is gone leaves no row                                 *)

Puts(k, row) == <<"put", row>> \in todo[k]
Dels(k, row) == <<"del", row>> \in todo[k]

\* Before a remove has read the rows, no room is joined and left at the same time.
ApartOK == ~swept => \A k, q \in Tasks, x \in Rooms :
    \A a, b \in RowsOf(x) : Puts(k, a) => ~Dels(q, b)

\* A call that is out is about one of two rows: the other one is out as well, or done.
HalvesOK == \A k \in Tasks, x \in Rooms : \A a, b \in RowsOf(x) :
    /\ Dels(k, a) => Dels(k, b) \/ b \notin rows
    /\ ~swept /\ Puts(k, a) => Puts(k, b) \/ b \in rows

\* So a forward row has the reverse row that a remove will find it by, or will have
\* it, or is about to be deleted.
MirrorOK == \A x \in Rooms : Fwd(x) \in rows =>
    Rev(x) \in rows \/ \E k \in Tasks : Puts(k, Rev(x)) \/ Dels(k, Fwd(x))

\* What a remove has read is being deleted.
SweptOK ==
    /\ swept => \A row \in rows : row[1] # "fwd" => \E k \in Tasks : Dels(k, row)
    /\ \A k \in Tasks : Dels(k, Meta) => swept

RowsOK == Clean => ApartOK /\ HalvesOK /\ MirrorOK /\ SweptOK

\* Where the connection is in its life, and who works for it.
PhaseOK == Clean =>
    /\ stray = {}
    /\ \A k \in Tasks : Connecting(k) => socket = "connecting"
    /\ \A k \in Tasks : pc[k] = "undoing" => swept
    /\ socket = "refused" =>
         rows = {} /\ \A k \in Tasks : pc[k] \notin FramePcs /\ \A op \in todo[k] : op[1] = "del"
    /\ socket = "closed" /\ ~bye =>
         swept \/ \E k \in Tasks : pc[k] \in {"lookup", "farewell", "blind", "query"}

LEMMA CleanStays == ASSUME BaseOK, [Next]_vars, Clean' PROVE Clean
  BY BaseGoes DEF Orderly, HistGoes, Clean

\* What a call is about.
LEMMA PutIs ==
    ASSUME NEW S
    PROVE  \A r : /\ <<"put", r>> \in Put(S) <=> r \in S
                  /\ <<"del", r>> \in Del(S) <=> r \in S
                  /\ <<"put", r>> \notin Del(S) /\ <<"del", r>> \notin Put(S)
  BY DEF Put, Del

LEMMA RemoveIs ==
    ASSUME NEW seen \in SUBSET Rows
    PROVE  \A r : /\ <<"put", r>> \notin RemoveRows(seen)
                  /\ <<"del", r>> \in RemoveRows(seen) <=>
                       \/ r \in seen /\ r[1] # "fwd"
                       \/ \E x \in Rooms : r = Fwd(x) /\ Rev(x) \in seen
<1>1. \A q \in seen : q[1] = "rev" => \E x \in Rooms : q = Rev(x) /\ q[2] = x
  BY RowsApart DEF Rows, RowsOf
<1>2. \A x \in Rooms : Rev(x)[1] = "rev" /\ Rev(x)[2] = x
  BY RowsApart
<1>3. \A r : r \in {Fwd(row[2]) : row \in {q \in seen : q[1] = "rev"}} <=>
             \E x \in Rooms : r = Fwd(x) /\ Rev(x) \in seen
  BY <1>1, <1>2
<1>4. PICK found : found = {row \in seen : row[1] # "fwd"}
                             \cup {Fwd(row[2]) : row \in {q \in seen : q[1] = "rev"}}
  OBVIOUS
<1>5. RemoveRows(seen) = Del(found)
  BY <1>4 DEF RemoveRows
<1>6. \A r : r \in found <=> \/ r \in seen /\ r[1] # "fwd"
                            \/ \E x \in Rooms : r = Fwd(x) /\ Rev(x) \in seen
  BY <1>3, <1>4
<1>7. \A r : /\ <<"del", r>> \in Del(found) <=> r \in found
             /\ <<"put", r>> \notin Del(found)
  BY PutIs
<1>8. PICK ops : ops = RemoveRows(seen)
  OBVIOUS
<1>9. \A r : /\ <<"put", r>> \notin ops
             /\ <<"del", r>> \in ops <=> r \in found
  BY <1>5, <1>7, <1>8
<1> QED
  BY <1>6, <1>8, <1>9

\* An answer to a call takes effect, and the call is out no more.
LEMMA RowDoneTo ==
    ASSUME BaseOK, NEW k \in Tasks, RowDone(k), Clean, Clean'
    PROVE  /\ swept' = swept
           /\ \E row \in Rows :
                \/ /\ Puts(k, row) /\ ~swept /\ rows' = rows \cup {row}
                   /\ \A q \in Tasks : \A r : /\ Puts(q, r)' <=> Puts(q, r) /\ ~(q = k /\ r = row)
                                              /\ Dels(q, r)' <=> Dels(q, r)
                \/ /\ Dels(k, row) /\ rows' = rows \ {row}
                   /\ \A q \in Tasks : \A r : /\ Dels(q, r)' <=> Dels(q, r) /\ ~(q = k /\ r = row)
                                              /\ Puts(q, r)' <=> Puts(q, r)
<1>1. PICK op \in todo[k] : /\ rows' = Landed({op}) /\ todo' = [todo EXCEPT ![k] = @ \ {op}]
                            /\ LateWrite(op)
  BY DEF RowDone
<1>2. todo \in [Tasks -> SUBSET (Put(Rows) \cup Del(Rows))] /\ swept' = swept
  BY Typed DEF BaseOK, RowDone
<1>3. \A q \in Tasks : todo'[q] = IF q = k THEN todo[k] \ {op} ELSE todo[q]
  BY <1>1, <1>2
<1>4. PICK row \in Rows : op = <<"put", row>> \/ op = <<"del", row>>
  BY <1>1, OneOp DEF BaseOK, SidesOK
<1>5. CASE op = <<"put", row>>
  <2>1. ~swept
    <3>1. op[1] = "put"
      BY <1>5
    <3> QED
      BY <1>1, <3>1 DEF LateWrite, Clean
  <2>2. rows' = rows \cup {row}
    BY <1>1, <1>5, LandedOne
  <2>3. \A r : /\ <<"put", r>> = op <=> r = row
               /\ <<"del", r>> # op
    BY <1>5
  <2> QED
    BY <1>1, <1>2, <1>3, <1>5, <2>1, <2>2, <2>3 DEF Puts, Dels
<1>6. CASE op = <<"del", row>>
  <2>1. rows' = rows \ {row}
    BY <1>1, <1>6, LandedOne
  <2>2. \A r : /\ <<"del", r>> = op <=> r = row
               /\ <<"put", r>> # op
    BY <1>6
  <2> QED
    BY <1>1, <1>2, <1>3, <1>6, <2>1, <2>2 DEF Puts, Dels
<1> QED
  BY <1>4, <1>5, <1>6

LEMMA RowDoneKeeps ==
    ASSUME BaseOK, RowsOK, NEW k \in Tasks, RowDone(k), Clean, Clean'
    PROVE  RowsOK'
<1>1. ApartOK /\ HalvesOK /\ MirrorOK /\ SweptOK /\ swept' = swept
  BY RowDoneTo DEF RowsOK
<1>2. \A x \in Rooms : Fwd(x) # Rev(x) /\ RowsOf(x) = {Fwd(x), Rev(x)}
  BY RowsApart DEF RowsOf
<1>3. ASSUME NEW row \in Rows, Puts(k, row), ~swept, rows' = rows \cup {row},
             \A q \in Tasks : \A r : /\ Puts(q, r)' <=> Puts(q, r) /\ ~(q = k /\ r = row)
                                     /\ Dels(q, r)' <=> Dels(q, r)
      PROVE  (ApartOK /\ HalvesOK /\ MirrorOK /\ SweptOK)'
  <2>1. ApartOK'
    BY <1>1, <1>3 DEF ApartOK
  <2>2. HalvesOK'
    <3> SUFFICES ASSUME NEW q \in Tasks, NEW x \in Rooms, NEW a \in RowsOf(x), NEW b \in RowsOf(x)
                 PROVE  /\ Dels(q, a)' => Dels(q, b)' \/ b \notin rows'
                        /\ Puts(q, a)' => Puts(q, b)' \/ b \in rows'
      BY <1>1 DEF HalvesOK
    <3>1. /\ Dels(q, a) => Dels(q, b) \/ b \notin rows
          /\ Puts(q, a) => Puts(q, b) \/ b \in rows
      BY <1>1, <1>3 DEF HalvesOK
    <3>2. Dels(q, a) => b # row
      BY <1>1, <1>3 DEF ApartOK
    <3> QED
      BY <1>3, <3>1, <3>2
  <2>3. MirrorOK'
    <3> SUFFICES ASSUME NEW x \in Rooms, Fwd(x) \in rows'
                 PROVE  Rev(x) \in rows' \/ \E q \in Tasks : Puts(q, Rev(x))' \/ Dels(q, Fwd(x))'
      BY DEF MirrorOK
    <3>1. CASE Fwd(x) = row
      <4>1. Puts(k, Rev(x)) \/ Rev(x) \in rows
        BY <1>1, <1>2, <1>3, <3>1 DEF HalvesOK
      <4> QED
        BY <1>2, <1>3, <3>1, <4>1
    <3>2. CASE Fwd(x) \in rows
      <4>1. Rev(x) \in rows \/ \E q \in Tasks : Puts(q, Rev(x)) \/ Dels(q, Fwd(x))
        BY <1>1, <3>2 DEF MirrorOK
      <4> QED
        BY <1>3, <4>1
    <3> QED
      BY <1>3, <3>1, <3>2
  <2>4. SweptOK'
    BY <1>1, <1>3 DEF SweptOK, Meta
  <2> QED
    BY <2>1, <2>2, <2>3, <2>4
<1>4. ASSUME NEW row \in Rows, Dels(k, row), rows' = rows \ {row},
             \A q \in Tasks : \A r : /\ Dels(q, r)' <=> Dels(q, r) /\ ~(q = k /\ r = row)
                                     /\ Puts(q, r)' <=> Puts(q, r)
      PROVE  (ApartOK /\ HalvesOK /\ MirrorOK /\ SweptOK)'
  <2>1. ApartOK'
    BY <1>1, <1>4 DEF ApartOK
  <2>2. HalvesOK'
    <3> SUFFICES ASSUME NEW q \in Tasks, NEW x \in Rooms, NEW a \in RowsOf(x), NEW b \in RowsOf(x)
                 PROVE  /\ Dels(q, a)' => Dels(q, b)' \/ b \notin rows'
                        /\ ~swept /\ Puts(q, a)' => Puts(q, b)' \/ b \in rows'
      BY <1>1 DEF HalvesOK
    <3>1. /\ Dels(q, a) => Dels(q, b) \/ b \notin rows
          /\ ~swept /\ Puts(q, a) => Puts(q, b) \/ b \in rows
      BY <1>1 DEF HalvesOK
    <3>2. ~swept /\ Puts(q, a) => b # row
      BY <1>1, <1>4 DEF ApartOK
    <3> QED
      BY <1>4, <3>1, <3>2
  <2>3. MirrorOK'
    <3> SUFFICES ASSUME NEW x \in Rooms, Fwd(x) \in rows'
                 PROVE  Rev(x) \in rows' \/ \E q \in Tasks : Puts(q, Rev(x))' \/ Dels(q, Fwd(x))'
      BY DEF MirrorOK
    <3>1. Fwd(x) # row /\ Fwd(x) \in rows
      BY <1>4
    <3>2. Rev(x) \in rows \/ \E q \in Tasks : Puts(q, Rev(x)) \/ Dels(q, Fwd(x))
      BY <1>1, <3>1 DEF MirrorOK
    <3>3. Rev(x) = row => Dels(k, Fwd(x))
      BY <1>1, <1>2, <1>4, <3>1 DEF HalvesOK
    <3> QED
      BY <1>4, <3>1, <3>2, <3>3
  <2>4. SweptOK'
    BY <1>1, <1>4 DEF SweptOK, Meta
  <2> QED
    BY <2>1, <2>2, <2>3, <2>4
<1>5. (ApartOK /\ HalvesOK /\ MirrorOK /\ SweptOK)'
  BY <1>3, <1>4, RowDoneTo
<1> QED
  BY <1>5 DEF RowsOK

\* A remove takes what it finds of a room, or nothing of it.
LEMMA QueryKeeps ==
    ASSUME BaseOK, RowsOK, NEW k \in Tasks, todo[k] = {}, QueryRows(k), Clean, Clean'
    PROVE  RowsOK'
<1>1. ApartOK /\ HalvesOK /\ MirrorOK /\ SweptOK
  BY DEF RowsOK
<1>2. /\ todo' = [todo EXCEPT ![k] = RemoveRows(rows)] /\ swept' /\ rows' = rows
      /\ rows \in SUBSET Rows /\ todo \in [Tasks -> SUBSET (Put(Rows) \cup Del(Rows))]
  BY Typed DEF QueryRows, Clean, BaseOK
<1>3. \A q \in Tasks \ {k} : \A r : (Puts(q, r)' <=> Puts(q, r)) /\ (Dels(q, r)' <=> Dels(q, r))
  BY <1>2 DEF Puts, Dels
<1>4. \A r : ~Puts(k, r) /\ ~Dels(k, r)
  BY DEF Puts, Dels
<1>5. \A r : Dels(k, r)' <=> \/ r \in rows /\ r[1] # "fwd"
                            \/ \E x \in Rooms : r = Fwd(x) /\ Rev(x) \in rows
  <2>1. \A r : Dels(k, r)' <=> <<"del", r>> \in RemoveRows(rows)
    BY <1>2 DEF Dels
  <2> QED
    BY <1>2, <2>1, RemoveIs
<1>6. HalvesOK'
  <2> SUFFICES ASSUME NEW q \in Tasks, NEW x \in Rooms, NEW a \in RowsOf(x), NEW b \in RowsOf(x),
                      Dels(q, a)'
               PROVE  Dels(q, b)' \/ b \notin rows'
    BY <1>2 DEF HalvesOK
  <2>1. CASE q # k
    BY <1>1, <1>2, <1>3, <2>1 DEF HalvesOK
  <2>2. CASE q = k
    <3>1. a \in {Fwd(x), Rev(x)} /\ b \in {Fwd(x), Rev(x)}
      BY DEF RowsOf
    <3>2. Rev(x) \in rows
      <4>1. Fwd(x)[1] = "fwd" /\ (\A y : Fwd(x) = Fwd(y) => x = y) /\ \A y : Rev(x) # Fwd(y)
        BY RowsApart
      <4> QED
        BY <1>5, <2>2, <3>1, <4>1
    <3>3. Dels(k, Fwd(x))' /\ Dels(k, Rev(x))'
      <4>1. Rev(x)[1] = "rev"
        BY RowsApart
      <4> QED
        BY <1>5, <3>2, <4>1
    <3> QED
      BY <2>2, <3>1, <3>3
  <2> QED
    BY <2>1, <2>2
<1>7. MirrorOK'
  BY <1>1, <1>2, <1>3, <1>4 DEF MirrorOK
<1>8. SweptOK'
  BY <1>2, <1>5 DEF SweptOK
<1> QED
  BY <1>2, <1>6, <1>7, <1>8 DEF RowsOK, ApartOK

\* A membership sends both calls at once, and none of the opposite kind is out.
LEMMA MembershipKeeps ==
    ASSUME BaseOK, RowsOK, Clean, NEW k \in Tasks, todo[k] = {}, NEW x \in Rooms, NEW ops,
           ops = Put(RowsOf(x)) \/ ops = Del(RowsOf(x)), todo' = [todo EXCEPT ![k] = ops],
           UNCHANGED <<rows, swept>>,
           ~Opposite(k, ops)
    PROVE  RowsOK'
<1>1. ApartOK /\ HalvesOK /\ MirrorOK /\ SweptOK
  BY DEF RowsOK
<1>2. todo \in [Tasks -> SUBSET (Put(Rows) \cup Del(Rows))]
  BY Typed DEF BaseOK
<1>3. \A q \in Tasks \ {k} : \A r : (Puts(q, r)' <=> Puts(q, r)) /\ (Dels(q, r)' <=> Dels(q, r))
  BY <1>2 DEF Puts, Dels
<1>4. \A r : ~Puts(k, r) /\ ~Dels(k, r)
  BY DEF Puts, Dels
<1>5. \/ \A r : (Puts(k, r)' <=> r \in RowsOf(x)) /\ ~Dels(k, r)'
      \/ \A r : (Dels(k, r)' <=> r \in RowsOf(x)) /\ ~Puts(k, r)'
  <2>1. \A r : /\ Puts(k, r)' <=> <<"put", r>> \in ops
               /\ Dels(k, r)' <=> <<"del", r>> \in ops
    BY <1>2 DEF Puts, Dels
  <2>2. CASE ops = Put(RowsOf(x))
    BY <2>1, <2>2, PutIs
  <2>3. CASE ops = Del(RowsOf(x))
    BY <2>1, <2>3, PutIs
  <2> QED
    BY <2>2, <2>3
<1>6. \A q \in Tasks, r \in RowsOf(x) : q # k => /\ Puts(k, r)' => ~Dels(q, r)
                                                 /\ Dels(k, r)' => ~Puts(q, r)
  <2>1. RowsOf(x) \in SUBSET Rows /\ todo'[k] = ops
    BY <1>2, RoomRows
  <2> QED
    BY <2>1 DEF Puts, Dels, Opposite
<1>7. \A y \in Rooms : \A r \in RowsOf(y) : r \in RowsOf(x) => y = x
  BY RowsApart DEF RowsOf
<1>8. ApartOK'
  <2> SUFFICES ASSUME ~swept, NEW p \in Tasks, NEW q \in Tasks, NEW y \in Rooms,
                      NEW a \in RowsOf(y), NEW b \in RowsOf(y), Puts(p, a)', Dels(q, b)'
               PROVE  FALSE
    BY DEF ApartOK
  <2>1. CASE p # k /\ q # k
    BY <1>1, <1>3, <2>1 DEF ApartOK
  <2>2. CASE p = k /\ q # k
    <3>1. y = x /\ Puts(k, b)'
      BY <1>5, <1>7, <2>2
    <3>2. b \in RowsOf(x) /\ Dels(q, b)
      BY <1>3, <2>2, <3>1
    <3> QED
      BY <1>6, <2>2, <3>1, <3>2
  <2>3. CASE p # k /\ q = k
    <3>1. y = x /\ Dels(k, a)'
      BY <1>5, <1>7, <2>3
    <3>2. a \in RowsOf(x) /\ Puts(p, a)
      BY <1>3, <2>3, <3>1
    <3> QED
      BY <1>6, <2>3, <3>1, <3>2
  <2>4. CASE p = k /\ q = k
    BY <1>5, <2>4
  <2> QED
    BY <2>1, <2>2, <2>3, <2>4
<1>9. HalvesOK'
  <2> SUFFICES ASSUME NEW q \in Tasks, NEW y \in Rooms, NEW a \in RowsOf(y), NEW b \in RowsOf(y)
               PROVE  /\ Dels(q, a)' => Dels(q, b)' \/ b \notin rows
                      /\ ~swept /\ Puts(q, a)' => Puts(q, b)' \/ b \in rows
    BY DEF HalvesOK
  <2>1. CASE q # k
    BY <1>1, <1>3, <2>1 DEF HalvesOK
  <2>2. CASE q = k
    BY <1>5, <1>7, <2>2
  <2> QED
    BY <2>1, <2>2
<1>10. MirrorOK'
  BY <1>1, <1>3, <1>4 DEF MirrorOK
<1>11. SweptOK'
  <2>1. Meta \notin RowsOf(x)
    BY RowsApart DEF RowsOf
  <2>2. ~Dels(k, Meta)'
    BY <1>5, <2>1
  <2>3. Meta' = Meta
    BY DEF Meta
  <2> QED
    BY <1>1, <1>3, <1>4, <2>2, <2>3 DEF SweptOK
<1> QED
  BY <1>8, <1>9, <1>10, <1>11 DEF RowsOK

LEMMA SameRowsKeep ==
    ASSUME RowsOK, Clean, UNCHANGED <<rows, swept>>, \A q \in Tasks : todo'[q] = todo[q]
    PROVE  RowsOK'
<1>1. \A q \in Tasks : \A r : (Puts(q, r)' <=> Puts(q, r)) /\ (Dels(q, r)' <=> Dels(q, r))
  BY DEF Puts, Dels
<1>2. ApartOK /\ HalvesOK /\ MirrorOK /\ SweptOK
  BY DEF RowsOK
<1>3. ApartOK'
  BY <1>1, <1>2 DEF ApartOK
<1>4. HalvesOK'
  BY <1>1, <1>2 DEF HalvesOK
<1>5. MirrorOK'
  BY <1>1, <1>2 DEF MirrorOK
<1>6. SweptOK'
  BY <1>1, <1>2 DEF SweptOK, Meta
<1> QED
  BY <1>3, <1>4, <1>5, <1>6 DEF RowsOK

LEMMA AddMetaKeeps ==
    ASSUME BaseOK, RowsOK, PhaseOK, Clean, NEW k \in Tasks, AddMeta(k)
    PROVE  RowsOK'
<1>1. pc[k] = "add" /\ UNCHANGED <<rows, swept>>
  BY DEF AddMeta, storeVars
<1>2. todo[k] = {} /\ Connecting(k)
  BY <1>1 DEF BaseOK, WorkOK, Connecting, ConnectPcs
<1>3. ~swept
  BY <1>1, <1>2 DEF PhaseOK, BaseOK, AloneOK, FirstPcs, Clean, Calm
<1>4. todo \in [Tasks -> SUBSET (Put(Rows) \cup Del(Rows))]
  BY Typed DEF BaseOK
<1>5. CASE todo' = todo
  BY <1>1, <1>5, SameRowsKeep
<1>6. CASE todo' = [todo EXCEPT ![k] = Put({Meta})]
  <2>1. \A q \in Tasks \ {k} : \A r : (Puts(q, r)' <=> Puts(q, r)) /\ (Dels(q, r)' <=> Dels(q, r))
    BY <1>4, <1>6 DEF Puts, Dels
  <2>2. \A r : ~Puts(k, r) /\ ~Dels(k, r)
    BY <1>2 DEF Puts, Dels
  <2>3. \A r : (Puts(k, r)' <=> r = Meta) /\ ~Dels(k, r)'
    <3>1. \A r : /\ Puts(k, r)' <=> <<"put", r>> \in Put({Meta})
                 /\ Dels(k, r)' <=> <<"del", r>> \in Put({Meta})
      BY <1>4, <1>6 DEF Puts, Dels
    <3> QED
      BY <3>1, PutIs
  <2>4. \A x : Meta \notin RowsOf(x)
    BY RowsApart DEF RowsOf
  <2>5. ApartOK /\ HalvesOK /\ MirrorOK /\ SweptOK
    BY DEF RowsOK
  <2>6. ApartOK'
    BY <1>1, <2>1, <2>3, <2>4, <2>5 DEF ApartOK
  <2>7. HalvesOK'
    <3> SUFFICES ASSUME NEW q \in Tasks, NEW x \in Rooms, NEW a \in RowsOf(x), NEW b \in RowsOf(x)
                 PROVE  /\ Dels(q, a)' => Dels(q, b)' \/ b \notin rows
                        /\ ~swept /\ Puts(q, a)' => Puts(q, b)' \/ b \in rows
      BY <1>1 DEF HalvesOK
    <3>1. CASE q # k
      BY <2>1, <2>5, <3>1 DEF HalvesOK
    <3>2. CASE q = k
      BY <2>3, <2>4, <3>2
    <3> QED
      BY <3>1, <3>2
  <2>8. MirrorOK'
    BY <1>1, <2>1, <2>2, <2>5 DEF MirrorOK
  <2>9. SweptOK'
    <3>1. Meta' = Meta
      BY DEF Meta
    <3> QED
      BY <1>1, <1>3, <2>1, <2>3, <2>5, <3>1 DEF SweptOK
  <2> QED
    BY <2>6, <2>7, <2>8, <2>9 DEF RowsOK
<1> QED
  BY <1>5, <1>6 DEF AddMeta

\* While accept() applies a membership, no other calls are out.
LEMMA ApplyMembershipKeeps ==
    ASSUME BaseOK, RowsOK, PhaseOK, Clean, NEW k \in Tasks, ApplyMembership(k)
    PROVE  RowsOK'
<1>1. /\ todo[k] = {} /\ todo' = [todo EXCEPT ![k] = MembershipOps(applied)]
      /\ UNCHANGED <<rows, swept>> /\ applied \in 1..Len(Plan) /\ Connecting(k)
  BY ApplyIs DEF ApplyMembership, storeVars, BaseOK
<1>2. PICK x \in Rooms : MembershipOps(applied) \in {Put(RowsOf(x)), Del(RowsOf(x))}
  BY <1>1, EntryOps DEF BaseOK
<1>3. PICK ops : ops = MembershipOps(applied)
  OBVIOUS
<1>4. \A q \in Tasks \ {k} : todo[q] = {}
  <2>1. socket = "connecting" /\ Calm
    BY <1>1 DEF PhaseOK, Clean, Calm
  <2>2. \A q \in Tasks : pc[q] # "idle" => q = k
    BY <1>1, <2>1 DEF BaseOK, AloneOK, IInv, ConnectOK
  <2> QED
    BY <2>2 DEF BaseOK, WorkOK
<1>5. \A row : ~({<<"put", row>>, <<"del", row>>} \subseteq ops)
  <2>1. CASE ops = Put(RowsOf(x))
    BY <2>1, PutIs
  <2>2. CASE ops = Del(RowsOf(x))
    BY <2>2, PutIs
  <2> QED
    BY <1>2, <1>3, <2>1, <2>2
<1>6. ~Opposite(k, ops)
  BY <1>4, <1>5 DEF Opposite
<1>7. ops = Put(RowsOf(x)) \/ ops = Del(RowsOf(x))
  BY <1>2, <1>3
<1>8. todo' = [todo EXCEPT ![k] = ops]
  BY <1>1, <1>3
<1> QED
  BY <1>1, <1>6, <1>7, <1>8, MembershipKeeps

LEMMA HandlerMembershipKeeps ==
    ASSUME BaseOK, RowsOK, Clean, Clean', NEW k \in Tasks, NEW x \in AppRooms,
           HandlerMembership(k, x)
    PROVE  RowsOK'
<1>1. x \in Rooms /\ todo[k] = {} /\ UNCHANGED <<rows, swept>>
  BY DEF Rooms, HandlerMembership, BaseOK, WorkOK, storeVars
<1>2. PICK ops \in {Put(RowsOf(x)), Del(RowsOf(x))} :
         /\ todo' = [todo EXCEPT ![k] = ops]
         /\ excuses' = IF Opposite(k, ops) THEN excuses \cup {"torn"} ELSE excuses
  BY DEF HandlerMembership
<1>3. ~Opposite(k, ops)
  BY <1>2 DEF Clean
<1>4. ops = Put(RowsOf(x)) \/ ops = Del(RowsOf(x))
  OBVIOUS
<1> QED
  BY <1>1, <1>2, <1>3, <1>4, MembershipKeeps

LEMMA RowsStep == ASSUME BaseOK, RowsOK, PhaseOK, [Next]_vars PROVE RowsOK'
<1> SUFFICES ASSUME Clean' PROVE RowsOK'
  BY DEF RowsOK
<1>1. Clean /\ RowsGo
  BY CleanStays, NextRows
<1>2. CASE UNCHANGED <<rows, todo, swept, applied>>
  BY <1>1, <1>2, SameRowsKeep
<1>3. ~StrayLands
  BY <1>1 DEF StrayLands, PhaseOK
<1>4. ASSUME NEW k \in Tasks, RowDone(k) PROVE RowsOK'
  BY <1>1, <1>4, RowDoneKeeps
<1>5. ASSUME NEW k \in Tasks PROVE ~RowFails(k)
  BY DEF RowFails, Clean
<1>6. ASSUME NEW k \in Tasks, Undo(k) \/ Query(k) PROVE RowsOK'
  <2>1. todo[k] = {} /\ QueryRows(k)
    BY <1>6 DEF Undo, Query, BaseOK, WorkOK
  <2> QED
    BY <1>1, <2>1, QueryKeeps
<1>7. ASSUME NEW k \in Tasks, AddMeta(k) \/ ApplyMembership(k) PROVE RowsOK'
  BY <1>1, <1>7, AddMetaKeeps, ApplyMembershipKeeps
<1>8. ASSUME NEW k \in Tasks, NEW x \in AppRooms, HandlerMembership(k, x) PROVE RowsOK'
  BY <1>1, <1>8, HandlerMembershipKeeps
<1>9. ASSUME NEW i \in Instances, Crash(i) PROVE RowsOK'
  <2>1. On(i) = {} /\ UNCHANGED <<rows, swept>>
    BY <1>9 DEF Crash, Clean
  <2>2. \A q \in Tasks : todo'[q] = todo[q]
    BY <1>9, <2>1 DEF Crash
  <2> QED
    BY <1>1, <2>1, <2>2, SameRowsKeep
<1> QED
  BY <1>1, <1>2, <1>3, <1>4, <1>5, <1>6, <1>7, <1>8, <1>9 DEF RowsGo

\* Once a remove has read the rows and no calls are out, none is left.
LEMMA EmptyWhenIdle ==
    ASSUME BaseOK, RowsOK, Clean, swept, \A k \in Tasks : todo[k] = {}
    PROVE  rows = {}
<1>1. MirrorOK /\ SweptOK /\ rows \subseteq Rows
  BY Typed DEF RowsOK, BaseOK
<1>2. \A k \in Tasks : \A r : ~Puts(k, r) /\ ~Dels(k, r)
  BY DEF Puts, Dels
<1>3. \A row \in rows : row[1] = "fwd"
  BY <1>1, <1>2 DEF SweptOK
<1>4. \A x \in Rooms : Fwd(x) \notin rows
  BY <1>1, <1>2, <1>3, RowsApart DEF MirrorOK
<1>5. \A row \in Rows : row = Meta \/ \E x \in Rooms : row = Fwd(x) \/ row = Rev(x)
  BY DEF Rows, RowsOf
<1> QED
  BY <1>1, <1>3, <1>4, <1>5, RowsApart

\* While $connect runs it waits for its answer.
LEMMA StillConnecting ==
    ASSUME BaseOK, PhaseOK, Clean, Clean', [Next]_vars, NEW k \in Tasks, Connecting(k)'
    PROVE  socket' = "connecting"
<1>1. TaskGoes(k) /\ SocketGoes /\ IInv
  BY BaseGoes DEF Orderly
<1>2. CASE pc[k] \notin ConnectPcs
  BY <1>1, <1>2 DEF TaskGoes, Connecting
<1>3. CASE pc[k] \in ConnectPcs
  <2>1. Connecting(k) /\ socket = "connecting"
    BY <1>3 DEF Connecting, PhaseOK
  <2>2. ASSUME NEW q \in Tasks, Accepted(q) \/ HooksRefuse(q) \/ Undone(q) PROVE FALSE
    <3>1. Connecting(q) /\ pc' = [pc EXCEPT ![q] = "idle"]
      BY <2>2 DEF Accepted, HooksRefuse, Undone, Goto, Connecting, ConnectPcs
    <3>2. q = k /\ pc \in [Tasks -> TaskPcs]
      BY <1>1, <2>1, <3>1, Typed DEF IInv, ConnectOK
    <3> QED
      BY <3>1, <3>2 DEF Connecting, ConnectPcs
  <2> QED
    BY <1>1, <2>1, <2>2 DEF SocketGoes
<1> QED
  BY <1>2, <1>3

\* A refused $connect leaves nothing: it had written nothing, or has removed it.
LEMMA RefusedEmpty ==
    ASSUME BaseOK, RowsOK, PhaseOK, Clean, Clean', [Next]_vars,
           socket = "connecting", socket' = "refused"
    PROVE  /\ rows' = {}
           /\ \A q \in Tasks : pc'[q] \notin FramePcs /\ \A op \in todo'[q] : op[1] = "del"
<1>1. SocketGoes /\ IInv /\ pc \in [Tasks -> TaskPcs]
  BY BaseGoes, Typed DEF Orderly
<1>2. PICK k \in Tasks : HooksRefuse(k) \/ Undone(k)
  BY <1>1 DEF SocketGoes
<1>3. rows' = rows /\ todo' = todo /\ pc' = [pc EXCEPT ![k] = "idle"] /\ Connecting(k)
  BY <1>2 DEF HooksRefuse, Undone, storeVars, Goto, Connecting, ConnectPcs
<1>4. \A q \in Tasks : pc'[q] \notin FramePcs
  BY <1>1, <1>3 DEF IInv, ConnectOK, Before, FramePcs
<1>5. CASE HooksRefuse(k)
  <2>1. applied = 0
    BY <1>5 DEF HooksRefuse, BaseOK, WorkOK
  <2>2. rows = {} /\ \A q \in Tasks : \A op \in todo[q] : op[1] = "del"
    BY <1>1, <2>1 DEF IInv, VerdictOK, Unwritten
  <2> QED
    BY <1>3, <1>4, <2>2
<1>6. CASE Undone(k)
  <2>1. swept /\ todo[k] = {}
    BY <1>6 DEF Undone, PhaseOK
  <2>2. \A q \in Tasks : pc[q] # "idle" => q = k
    BY <1>1, <1>3 DEF BaseOK, AloneOK, IInv, ConnectOK, Clean, Calm
  <2>3. \A q \in Tasks : todo[q] = {}
    BY <2>1, <2>2 DEF BaseOK, WorkOK
  <2>4. rows = {}
    BY <2>1, <2>3, EmptyWhenIdle
  <2> QED
    BY <1>3, <1>4, <2>3, <2>4
<1> QED
  BY <1>2, <1>5, <1>6

\* Nor does anything come back after it.
LEMMA StaysEmpty ==
    ASSUME BaseOK, PhaseOK, Clean, Clean', [Next]_vars, socket = "refused"
    PROVE  /\ rows' = {}
           /\ \A q \in Tasks : pc'[q] \notin FramePcs /\ \A op \in todo'[q] : op[1] = "del"
<1>1. /\ rows = {} /\ stray = {}
      /\ \A q \in Tasks :
           pc[q] \notin FramePcs /\ ~Connecting(q) /\ \A op \in todo[q] : op[1] = "del"
  BY DEF PhaseOK
<1>2. \A q \in Tasks : TaskGoes(q)
  BY BaseGoes DEF Orderly
<1>3. \A q \in Tasks : pc'[q] \notin FramePcs
  BY <1>1, <1>2 DEF TaskGoes
<1>4. todo \in [Tasks -> SUBSET (Put(Rows) \cup Del(Rows))] /\ IInv
  BY Typed DEF BaseOK
<1>5. RowsGo
  BY NextRows
<1>6. ASSUME NEW k \in Tasks, RowDone(k)
      PROVE  rows' = {} /\ \A q \in Tasks : \A op \in todo'[q] : op[1] = "del"
  <2>1. PICK op \in todo[k] : rows' = Landed({op}) /\ todo' = [todo EXCEPT ![k] = @ \ {op}]
    BY <1>6 DEF RowDone
  <2>2. rows' = {}
    BY <1>1, <2>1, DeletionsPutNothing
  <2> QED
    BY <1>1, <1>4, <2>1, <2>2
<1>7. ASSUME NEW k \in Tasks, Undo(k) \/ Query(k)
      PROVE  rows' = {} /\ \A q \in Tasks : \A op \in todo'[q] : op[1] = "del"
  <2>1. QueryRows(k) /\ rows' = rows
    BY <1>7 DEF Undo, Query, QueryRows
  <2>2. PICK ops \in SUBSET Del(Rows) : todo' = [todo EXCEPT ![k] = ops]
    BY <1>4, <2>1, QueryIs DEF IInv
  <2> QED
    BY <1>1, <1>4, <2>1, <2>2, DeletionsPutNothing
<1>8. ASSUME NEW k \in Tasks,
             RowFails(k) \/ AddMeta(k) \/ ApplyMembership(k)
             \/ \E x \in AppRooms : HandlerMembership(k, x)
      PROVE  FALSE
  <2>1. ~RowFails(k)
    BY DEF RowFails, Clean
  <2>2. pc[k] \notin {"add", "apply", "handler"}
    BY <1>1 DEF Connecting, ConnectPcs, FramePcs
  <2> QED
    BY <1>8, <2>1, <2>2 DEF AddMeta, ApplyMembership, HandlerMembership
<1>9. ASSUME NEW i \in Instances, Crash(i)
      PROVE  rows' = {} /\ \A q \in Tasks : \A op \in todo'[q] : op[1] = "del"
  BY <1>1, <1>9 DEF Crash
<1>10. CASE UNCHANGED <<rows, todo, swept, applied>>
  BY <1>1, <1>3, <1>10
<1>11. ~StrayLands
  BY <1>1 DEF StrayLands
<1> QED
  BY <1>3, <1>5, <1>6, <1>7, <1>8, <1>9, <1>10, <1>11 DEF RowsGo

LEMMA PhaseStep == ASSUME BaseOK, RowsOK, PhaseOK, [Next]_vars PROVE PhaseOK'
<1> SUFFICES ASSUME Clean' PROVE PhaseOK'
  BY DEF PhaseOK
<1>2. Clean /\ SocketGoes /\ HistGoes /\ (\A k \in Tasks : TaskGoes(k)) /\ IInv
  BY CleanStays, BaseGoes DEF Orderly
<1>3. stray' = {}
  BY <1>2 DEF HistGoes, PhaseOK
<1>4. \A k \in Tasks : Connecting(k)' => socket' = "connecting"
  BY <1>2, StillConnecting
<1>5. \A k \in Tasks : pc'[k] = "undoing" => swept'
  BY <1>2 DEF TaskGoes, HistGoes, PhaseOK
<1>6. ASSUME socket' = "refused"
      PROVE  /\ rows' = {}
             /\ \A q \in Tasks : pc'[q] \notin FramePcs /\ \A op \in todo'[q] : op[1] = "del"
  <2>1. socket \in {"connecting", "refused"}
    BY <1>2, <1>6 DEF SocketGoes
  <2> QED
    BY <1>2, <1>6, <2>1, RefusedEmpty, StaysEmpty
<1>7. ASSUME socket' = "closed", ~bye'
      PROVE  swept' \/ \E k \in Tasks : pc'[k] \in {"lookup", "farewell", "blind", "query"}
  <2>1. socket = "closed"
    BY <1>2, <1>7 DEF SocketGoes
  <2>2. CASE bye
    BY <1>2, <1>7, <2>2 DEF SocketGoes
  <2>3. CASE ~bye /\ swept
    BY <1>2, <2>3 DEF HistGoes
  <2>4. CASE ~bye /\ ~swept
    <3>1. PICK k \in Tasks : pc[k] \in {"lookup", "farewell", "blind", "query"}
      BY <1>2, <2>1, <2>4 DEF PhaseOK
    <3> QED
      BY <1>2, <3>1 DEF TaskGoes
  <2> QED
    BY <2>2, <2>3, <2>4
<1> QED
  BY <1>3, <1>4, <1>5, <1>6, <1>7 DEF PhaseOK, Connecting

LifeOK == BaseOK /\ RowsOK /\ PhaseOK

LEMMA LifeInit == Init => LifeOK
<1> SUFFICES ASSUME Init PROVE RowsOK /\ PhaseOK
  BY BaseInit DEF LifeOK
<1>1. \A k \in Tasks : pc[k] = "idle" /\ todo[k] = {}
  BY DEF Init
<1>2. rows = {} /\ socket = "new" /\ stray = {} /\ swept = FALSE
  BY DEF Init
<1>3. \A k \in Tasks : \A r : ~Puts(k, r) /\ ~Dels(k, r)
  BY <1>1 DEF Puts, Dels
<1>4. RowsOK
  BY <1>2, <1>3 DEF RowsOK, ApartOK, HalvesOK, MirrorOK, SweptOK
<1>5. PhaseOK
  BY <1>1, <1>2 DEF PhaseOK, Connecting, ConnectPcs
<1> QED
  BY <1>4, <1>5

LEMMA LifeStep == LifeOK /\ [Next]_vars => LifeOK'
  BY BaseStep, RowsStep, PhaseStep DEF LifeOK

\* When nothing runs for a connection that is gone, none of its rows are left, in
\* any room, unless one of the named failures or races happened: whatever the order
\* of $disconnect, kicks, 410s and frames, and however many of each (the removes of
\* DynamoConnectionStore against the writes of GatewayBridge).
THEOREM NoGhosts == Spec => []GhostsExplained
<1>1. LifeOK => GhostsExplained
  <2> SUFFICES ASSUME LifeOK, Quiet, socket \in {"closed", "refused"}, excuses = {}
               PROVE  rows = {}
    BY DEF GhostsExplained
  <2>1. Clean /\ BaseOK /\ RowsOK /\ PhaseOK /\ ~bye /\ \A k \in Tasks : pc[k] = "idle"
    BY DEF LifeOK, Clean, Quiet, AllIdle
  <2>2. \A k \in Tasks : todo[k] = {}
    BY <2>1 DEF BaseOK, WorkOK
  <2>3. CASE socket = "closed"
    <3>1. swept
      BY <2>1, <2>3 DEF PhaseOK
    <3> QED
      BY <2>1, <2>2, <3>1, EmptyWhenIdle
  <2>4. CASE socket = "refused"
    BY <2>1, <2>4 DEF PhaseOK
  <2> QED
    BY <2>3, <2>4
<1> QED
  BY <1>1, LifeInit, LifeStep, PTL DEF Spec

-----------------------------------------------------------------------------
(* The application hears of the end                                        *)

\* Until it has, a connection that was accepted has its META row, no remove has read
\* its rows, no cleanup goes on without its client, and after $disconnect one is at it.
HeardOK == Clean /\ hooks /\ socket \in {"open", "closed"} => farewells > 0 \/
    /\ Meta \in rows /\ ~swept
    /\ \A k \in Tasks : pc[k] \notin {"blind"} \cup SweepPcs
    /\ socket = "closed" /\ ~bye => \E k \in Tasks : pc[k] \in {"lookup", "farewell"}

\* Nothing but a remove deletes the META row.
LEMMA MetaStays ==
    ASSUME LifeOK, Clean, [Next]_vars, Meta \in rows, ~swept
    PROVE  Meta \in rows'
<1>1. RowsGo /\ BaseOK /\ SweptOK /\ stray = {}
  BY NextRows DEF LifeOK, RowsOK, PhaseOK
<1>2. ASSUME NEW k \in Tasks, RowDone(k) PROVE Meta \in rows'
  <2>1. PICK op \in todo[k] : rows' = Landed({op})
    BY <1>2 DEF RowDone
  <2>2. PICK row \in Rows : op = <<"put", row>> \/ op = <<"del", row>>
    BY <1>1, <2>1, OneOp DEF BaseOK, SidesOK
  <2>3. op # <<"del", Meta>>
    BY <1>1, <2>1 DEF SweptOK, Dels
  <2> QED
    BY <2>1, <2>2, <2>3, LandedOne
<1>4. RowsGo => rows' = rows \/ StrayLands \/ \E k \in Tasks : RowDone(k)
  BY DEF RowsGo, RowFails, Undo, Query, QueryRows, AddMeta, ApplyMembership, HandlerMembership,
     Crash, storeVars
<1>5. ~StrayLands
  BY <1>1 DEF StrayLands
<1> QED
  BY <1>1, <1>2, <1>4, <1>5

LEMMA HeardOnAccept ==
    ASSUME LifeOK, Clean, [Next]_vars, socket = "connecting", NEW k \in Tasks, Accepted(k)
    PROVE  Meta \in rows' /\ ~swept' /\ \A q \in Tasks : pc'[q] = "idle"
<1>1. BaseOK /\ IInv /\ pc \in [Tasks -> TaskPcs]
  BY Typed DEF LifeOK, BaseOK
<1>2. rows = WholeRows /\ ~swept /\ Connecting(k)
  BY <1>1, AcceptedRows DEF Clean, Calm
<1>3. \A q \in Tasks : pc[q] # "idle" => q = k
  BY <1>1, <1>2 DEF BaseOK, AloneOK, IInv, ConnectOK, Clean, Calm
<1>4. \A q \in Tasks : pc'[q] = "idle"
  BY <1>1, <1>3 DEF Accepted, Goto
<1>5. Meta \in WholeRows
  BY DEF WholeRows
<1>6. UNCHANGED <<rows, swept>> /\ Meta' = Meta
  BY DEF Accepted, storeVars, Meta
<1> QED
  BY <1>2, <1>4, <1>5, <1>6

\* Until then a cleanup finds the client, and tells the application.
LEMMA HeardGoes ==
    ASSUME LifeOK, Clean, Clean', hooks, socket \in {"open", "closed"}, [Next]_vars, farewells' = 0,
           Meta \in rows, ~swept, \A k \in Tasks : pc[k] \notin {"blind"} \cup SweepPcs,
           socket = "closed" /\ ~bye => \E k \in Tasks : pc[k] \in {"lookup", "farewell"}
    PROVE  /\ Meta \in rows' /\ ~swept'
           /\ \A k \in Tasks : pc'[k] \notin {"blind"} \cup SweepPcs
           /\ socket' = "closed" /\ ~bye' => \E k \in Tasks : pc'[k] \in {"lookup", "farewell"}
<1>1. SocketGoes /\ HistGoes /\ \A k \in Tasks : TaskGoes(k)
  BY BaseGoes DEF Orderly, LifeOK
<1>2. \A k \in Tasks : ~Connecting(k)
  BY DEF LifeOK, PhaseOK
<1>3. Meta \in rows'
  BY MetaStays
<1>4. ~swept'
  BY <1>1, <1>2 DEF HistGoes, SweepPcs, Connecting, ConnectPcs
<1>5. ASSUME NEW k \in Tasks PROVE pc'[k] \notin {"blind"} \cup SweepPcs
  <2>1. TaskGoes(k)
    BY <1>1
  <2>2. ~(0 > 0)
    OBVIOUS
  <2>3. pc[k] = "farewell" => pc'[k] = "farewell"
    BY <2>1, <2>2 DEF TaskGoes
  <2>4. pc'[k] # "blind"
    <3>1. CASE pc[k] \in CleanupPcs
      BY <2>1, <2>3, <3>1 DEF TaskGoes, CleanupPcs, SweepPcs
    <3>2. CASE pc[k] \notin CleanupPcs
      BY <2>1, <3>2 DEF TaskGoes, CleanupPcs
    <3> QED
      BY <3>1, <3>2
  <2>5. pc'[k] # "query"
    BY <2>1, <2>3 DEF TaskGoes, SweepPcs
  <2>6. pc'[k] \notin SweepPcs \ {"query"}
    BY <2>1 DEF TaskGoes
  <2> QED
    BY <2>4, <2>5, <2>6
<1>6. ASSUME socket' = "closed", ~bye' PROVE \E k \in Tasks : pc'[k] \in {"lookup", "farewell"}
  <2>1. socket = "closed"
    BY <1>1, <1>6 DEF SocketGoes
  <2>2. CASE bye
    BY <1>1, <1>5, <1>6, <2>2 DEF SocketGoes
  <2>3. CASE ~bye
    <3>1. PICK k \in Tasks : pc[k] \in {"lookup", "farewell"}
      BY <2>1, <2>3
    <3>2. TaskGoes(k) /\ pc'[k] # "blind" /\ ~(0 > 0)
      BY <1>1, <1>5
    <3> QED
      BY <3>1, <3>2 DEF TaskGoes
  <2> QED
    BY <2>2, <2>3
<1> QED
  BY <1>3, <1>4, <1>5, <1>6

LEMMA HeardStep == LifeOK /\ HeardOK /\ [Next]_vars => HeardOK'
<1> SUFFICES ASSUME LifeOK, HeardOK, [Next]_vars, Clean', hooks', socket' \in {"open", "closed"},
                    ~(farewells' > 0)
             PROVE  /\ Meta \in rows' /\ ~swept'
                    /\ \A k \in Tasks : pc'[k] \notin {"blind"} \cup SweepPcs
                    /\ socket' = "closed" /\ ~bye'
                         => \E k \in Tasks : pc'[k] \in {"lookup", "farewell"}
  <2>1. Meta' = Meta
    BY DEF Meta
  <2> QED
    BY <2>1 DEF HeardOK
<1>1. /\ Clean /\ SocketGoes /\ hooks /\ farewells \in Nat /\ farewells' \in Nat
      /\ farewells' >= farewells
  BY CleanStays, BaseGoes, Typed DEF Orderly, LifeOK, HistGoes, IInv, TypeOK, HistTypes
<1>2. farewells' = 0 /\ farewells = 0
  BY <1>1
<1>3. CASE socket \in {"open", "closed"}
  <2>1. /\ Meta \in rows /\ ~swept /\ \A k \in Tasks : pc[k] \notin {"blind"} \cup SweepPcs
        /\ socket = "closed" /\ ~bye => \E k \in Tasks : pc[k] \in {"lookup", "farewell"}
    BY <1>1, <1>2, <1>3 DEF HeardOK
  <2> QED
    BY <1>1, <1>2, <1>3, <2>1, HeardGoes
<1>4. CASE socket \notin {"open", "closed"}
  <2>1. socket = "connecting" /\ socket' = "open" /\ \E k \in Tasks : Accepted(k)
    BY <1>1, <1>4 DEF SocketGoes
  <2> QED
    BY <1>1, <2>1, HeardOnAccept DEF SweepPcs
<1> QED
  BY <1>3, <1>4

\* With connect hooks, the application hears of the end of a connection it accepted,
\* with the client in hand, unless one of the named failures happened: on whichever
\* container $disconnect, a 410 or a kick is served, and whichever comes first
\* (cleanup() of GatewayBridge, which asks the store for a client it has not cached).
THEOREM EndIsHeard == Spec => []FarewellSaid
<1>1. Init => HeardOK
  BY DEF Init, HeardOK
<1>2. LifeOK /\ HeardOK => FarewellSaid
  BY DEF LifeOK, HeardOK, FarewellSaid, Quiet, AllIdle, Clean
<1> QED
  BY <1>1, <1>2, LifeInit, LifeStep, HeardStep, PTL DEF Spec
=============================================================================
