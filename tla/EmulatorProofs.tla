-------------------------- MODULE EmulatorProofs --------------------------
(***************************************************************************)
(* What the emulator keeps of each connection, and of its instances, for   *)
(* any number of connections and of reloads.                               *)
(***************************************************************************)
EXTENDS Emulator, TLAPS

USE EmulatorAssumption

Early    == {"none", "deciding", "joining", "answered", "refused", "aborted"}
Upgrades == Early \cup {"open", "bye", "removing", "done"}
Serving  == {"reading", "serving"}
Cleaning == {"kicking", "kicked"}

Known(c) ==
    /\ c \in conns /\ (c \in global <=> proto[c] = "none")
    /\ c \in took => c \in rooms \cup subs

\* Which rows a connection has where its upgrade is, and which frame may be in
\* progress next to it.
ConnOK(c) ==
    /\ upgrade[c] \in Early => frame[c].pc = "none" /\ c \notin kicked /\ c \notin took
    /\ upgrade[c] \in {"none", "deciding", "refused"} => ~Rows(c)
    /\ upgrade[c] = "joining" => c \in conns /\ c \notin global \cup rooms \cup subs
    /\ upgrade[c] = "answered" => Known(c) /\ c \notin rooms \cup subs
    /\ upgrade[c] = "aborted" => Excused(c)
    /\ upgrade[c] = "open" /\ c \notin kicked => Known(c) /\ frame[c].pc \notin Cleaning
    /\ upgrade[c] \in {"bye", "removing", "done"} => frame[c].pc \notin Serving \/ Excused(c)
    /\ upgrade[c] = "removing" => c \notin subs \/ Excused(c)
    /\ upgrade[c] = "done" => ~Rows(c) \/ Excused(c)
    /\ c \in global => proto[c] = "none"
    /\ c \in offers => upgrade[c] # "none"
    /\ c \in offers /\ upgrade[c] # "refused" => proto[c] = "gql"

Overlapped == \E e \in excuses : e[1] = "overlap"

\* Reloads that do not overlap leave one instance, or one and the one they close.
OneByOne ==
    /\ \A q, r \in Instances :
         reloads[q].pc = "building" /\ reloads[r].pc = "building" => q = r
    /\ \A r \in Instances : reloads[r].pc = "building" => reloads[r].previous = current
    /\ \A r \in Instances \ {current} : Wired(r) =>
         \/ r \in closed
         \/ \E q \in Instances : reloads[q].pc = "closing" /\ reloads[q].previous = r

\* Which instances are built, and which is closed by whom.
AppOK ==
    /\ Wired(current) /\ \A r \in closed : Wired(r)
    /\ current \in closed => ending
    /\ \A r \in Instances : reloads[r].pc \in {"building", "closing"} => Wired(reloads[r].previous)
    /\ \A r \in Instances : reloads[r].pc = "closing" => reloads[r].previous # current
    /\ ~Overlapped => OneByOne

IInv == TypeOK /\ AppOK /\ \A c \in Conns : ConnOK(c)

\* The first application is one of the instances.
LEMMA Instance0 == 0 \in Instances
<1> QED
  BY DEF Instances

\* At first there is one application, and no connection.
LEMMA InitIInv == Init => IInv
<1> SUFFICES ASSUME Init PROVE IInv
  OBVIOUS
<1>1. TypeOK
  BY Instance0 DEF Init, TypeOK, NoFrame
<1>2. AppOK
  BY Instance0 DEF Init, AppOK, OneByOne, Wired, Overlapped
<1>3. \A c \in Conns : ConnOK(c)
  BY DEF Init, ConnOK, Early, Serving, Cleaning, Known, Rows, NoFrame
<1> QED
  BY <1>1, <1>2, <1>3 DEF IInv

-----------------------------------------------------------------------------
(* A connection's steps                                                    *)

\* What a step leaves a connection that is not its own.
Same(d) ==
    /\ upgrade'[d] = upgrade[d] /\ frame'[d] = frame[d] /\ proto'[d] = proto[d]
    /\ (d \in conns' <=> d \in conns) /\ (d \in global' <=> d \in global)
    /\ (d \in rooms' <=> d \in rooms) /\ (d \in subs' <=> d \in subs)
    /\ (d \in kicked' <=> d \in kicked) /\ (d \in took' <=> d \in took)
    /\ (d \in offers' <=> d \in offers)
    /\ Excused(d) => Excused(d)'

\* A connection whose variables stay as they are stays well.
LEMMA SameKeeps == ASSUME NEW d \in Conns, ConnOK(d), Same(d) PROVE ConnOK(d)'
<1> QED
  BY DEF Same, ConnOK, Known, Rows

\* What excuses left-over rows only accumulates.
LEMMA ExcuseIs ==
    ASSUME NEW what, NEW c, what # "overlap", <<what, c>> \in excuses'
    PROVE  Excused(c)'
<1>1. PICK e \in excuses' : e = <<what, c>>
  OBVIOUS
<1>2. e[1] = what /\ e[2] = c
  BY <1>1
<1> QED
  BY <1>2 DEF Excused

\* Excuses are never withdrawn.
LEMMA ExcusesStay == excuses \subseteq excuses' => \A d : Excused(d) => Excused(d)'
<1> QED
  BY DEF Excused

\* A step of one connection: its own rows and frame stay right, and no instance
\* is touched.
Keeps(c) == TypeOK' /\ ConnOK(c)' /\ (\A d \in Conns \ {c} : Same(d)) /\ AppOK'

\* The reload of the application is where it was.
LEMMA AppStays == AppOK /\ UNCHANGED <<appVars, excuses>> => AppOK'
<1> QED
  BY DEF AppOK, OneByOne, appVars, Wired, Overlapped

\* The steps of an upgrade.
LEMMA UpgradeSteps ==
    ASSUME IInv, NEW c \in Conns,
           \/ \E gql \in BOOLEAN : Upgrade(c, gql)
           \/ \E err \in Errors : HooksRefuse(c, err)
           \/ HooksAccept(c) \/ Accepted(c)
    PROVE  Keeps(c)
<1>1. TypeOK /\ ConnOK(c) /\ AppOK
  BY DEF IInv
<1>2. UNCHANGED <<appVars, excuses>>
  BY DEF Upgrade, HooksRefuse, HooksAccept, Accepted
<1>3. AppOK' /\ \A d : Excused(d) => Excused(d)'
  BY <1>1, <1>2, AppStays, ExcusesStay
<1>4. ASSUME NEW gql \in BOOLEAN, Upgrade(c, gql) PROVE Keeps(c)
  <2>1. Negotiate(c, current, gql) = IF gql THEN "gql" ELSE "none"
    BY <1>1 DEF Negotiate, AppOK
  <2>2. TypeOK'
    BY <1>1, <1>4, <2>1 DEF Upgrade, TypeOK, storeVars, appVars
  <2>3. ConnOK(c)'
    BY <1>1, <1>4, <2>1 DEF Upgrade, TypeOK, ConnOK, Early, Rows, Known, storeVars
  <2>4. \A d \in Conns \ {c} : Same(d)
    BY <1>1, <1>3, <1>4 DEF Upgrade, TypeOK, Same, storeVars
  <2> QED
    BY <1>3, <2>2, <2>3, <2>4 DEF Keeps
<1>5. ASSUME NEW err \in Errors, HooksRefuse(c, err) PROVE Keeps(c)
  <2>1. StatusOf(err) \in 400..599
    BY DEF StatusOf, Shapes
  <2>2. /\ status' = [status EXCEPT ![c] = StatusOf(err)]
        /\ upgrade' = [upgrade EXCEPT ![c] = "refused"] /\ client' = [client EXCEPT ![c] = "gone"]
    BY <1>5, <2>1 DEF HooksRefuse
  <2>3. TypeOK'
    BY <1>1, <1>5, <2>1, <2>2 DEF HooksRefuse, TypeOK, storeVars, appVars
  <2>4. ConnOK(c)'
    BY <1>1, <1>5, <2>2 DEF HooksRefuse, TypeOK, ConnOK, Early, Rows, Known, storeVars
  <2>5. \A d \in Conns \ {c} : Same(d)
    BY <1>1, <1>3, <1>5, <2>2 DEF HooksRefuse, TypeOK, Same, storeVars
  <2> QED
    BY <1>3, <2>3, <2>4, <2>5 DEF Keeps
<1>6. CASE HooksAccept(c)
  <2>1. TypeOK'
    BY <1>1, <1>6 DEF HooksAccept, TypeOK, appVars
  <2>2. ConnOK(c)'
    BY <1>1, <1>6 DEF HooksAccept, TypeOK, ConnOK, Early, Rows, Known
  <2>3. \A d \in Conns \ {c} : Same(d)
    BY <1>1, <1>3, <1>6 DEF HooksAccept, TypeOK, Same
  <2> QED
    BY <1>3, <2>1, <2>2, <2>3 DEF Keeps
<1>7. CASE Accepted(c)
  <2>1. TypeOK'
    BY <1>1, <1>7 DEF Accepted, TypeOK, appVars
  <2>2. ConnOK(c)'
    BY <1>1, <1>7 DEF Accepted, TypeOK, ConnOK, Early, Rows, Known
  <2>3. \A d \in Conns \ {c} : Same(d)
    BY <1>1, <1>3, <1>7 DEF Accepted, TypeOK, Same
  <2> QED
    BY <1>3, <2>1, <2>2, <2>3 DEF Keeps
<1> QED
  BY <1>4, <1>5, <1>6, <1>7

\* Frames come in, are read for, refused, and served.
LEMMA FrameSteps ==
    ASSUME IInv, NEW c \in Conns,
           FrameArrives(c) \/ Rehydrated(c) \/ RefuseUnknown(c) \/ HandlerJoins(c)
    PROVE  Keeps(c)
<1>1. TypeOK /\ ConnOK(c) /\ AppOK
  BY DEF IInv
<1>2. UNCHANGED <<appVars, excuses>>
  BY DEF FrameArrives, Rehydrated, RefuseUnknown, HandlerJoins
<1>3. AppOK' /\ \A d : Excused(d) => Excused(d)'
  BY <1>1, <1>2, AppStays, ExcusesStay
<1>4. CASE FrameArrives(c)
  <2>1. TypeOK'
    BY <1>1, <1>4 DEF FrameArrives, TypeOK, appVars, connVars, storeVars, NoFrame
  <2>2. ConnOK(c)'
    BY <1>1, <1>3, <1>4 DEF FrameArrives, TypeOK, ConnOK, Early, Serving, Cleaning, Rows, Known,
       connVars, storeVars, NoFrame
  <2>3. \A d \in Conns \ {c} : Same(d)
    BY <1>1, <1>3, <1>4 DEF FrameArrives, TypeOK, Same, connVars, storeVars, NoFrame
  <2> QED
    BY <1>3, <2>1, <2>2, <2>3 DEF Keeps
<1>5. CASE Rehydrated(c)
  <2>1. TypeOK'
    BY <1>1, <1>5 DEF Rehydrated, TypeOK, appVars, connVars, storeVars
  <2>2. ConnOK(c)'
    BY <1>1, <1>3, <1>5 DEF Rehydrated, TypeOK, ConnOK, Early, Serving, Cleaning, Rows, Known,
       connVars, storeVars
  <2>3. \A d \in Conns \ {c} : Same(d)
    BY <1>1, <1>3, <1>5 DEF Rehydrated, TypeOK, Same, connVars, storeVars
  <2> QED
    BY <1>3, <2>1, <2>2, <2>3 DEF Keeps
<1>6. CASE RefuseUnknown(c)
  <2>1. TypeOK'
    BY Instance0, <1>1, <1>6 DEF RefuseUnknown, TypeOK, appVars, connVars, storeVars, NoFrame, ServerCloses
  <2>2. ConnOK(c)'
    BY <1>1, <1>3, <1>6 DEF RefuseUnknown, TypeOK, ConnOK, Early, Serving, Cleaning, Rows, Known,
       connVars, storeVars, NoFrame, ServerCloses
  <2>3. \A d \in Conns \ {c} : Same(d)
    BY <1>1, <1>3, <1>6 DEF RefuseUnknown, TypeOK, Same, connVars, storeVars, NoFrame, ServerCloses
  <2> QED
    BY <1>3, <2>1, <2>2, <2>3 DEF Keeps
<1>7. CASE HandlerJoins(c)
  <2>1. TypeOK'
    BY Instance0, <1>1, <1>7 DEF HandlerJoins, TypeOK, appVars, connVars, storeVars, NoFrame
  <2>2. ConnOK(c)'
    BY <1>1, <1>3, <1>7 DEF HandlerJoins, TypeOK, ConnOK, Early, Serving, Cleaning, Rows, Known,
       connVars, storeVars, NoFrame
  <2>3. \A d \in Conns \ {c} : Same(d)
    BY <1>1, <1>3, <1>7 DEF HandlerJoins, TypeOK, Same, connVars, storeVars, NoFrame
  <2> QED
    BY <1>3, <2>1, <2>2, <2>3 DEF Keeps
<1> QED
  BY <1>4, <1>5, <1>6, <1>7

\* A kick cleans up, and closes.
LEMMA KickSteps ==
    ASSUME IInv, NEW c \in Conns,
           HandlerKicks(c) \/ KickCleans(c) \/ KickCloses(c)
    PROVE  Keeps(c)
<1>1. TypeOK /\ ConnOK(c) /\ AppOK
  BY DEF IInv
<1>2. UNCHANGED <<appVars, excuses>>
  BY DEF HandlerKicks, KickCleans, KickCloses
<1>3. AppOK' /\ \A d : Excused(d) => Excused(d)'
  BY <1>1, <1>2, AppStays, ExcusesStay
<1>4. CASE HandlerKicks(c)
  <2>1. TypeOK'
    BY <1>1, <1>4 DEF HandlerKicks, TypeOK, appVars, connVars, storeVars
  <2>2. ConnOK(c)'
    BY <1>1, <1>3, <1>4 DEF HandlerKicks, TypeOK, ConnOK, Early, Serving, Cleaning, Rows, Known,
       connVars, storeVars
  <2>3. \A d \in Conns \ {c} : Same(d)
    BY <1>1, <1>3, <1>4 DEF HandlerKicks, TypeOK, Same, connVars, storeVars
  <2> QED
    BY <1>3, <2>1, <2>2, <2>3 DEF Keeps
<1>5. CASE KickCleans(c)
  <2>1. TypeOK'
    BY <1>1, <1>5 DEF KickCleans, TypeOK, appVars, connVars, storeVars, ProtocolsClean
  <2>2. ConnOK(c)'
    BY <1>1, <1>3, <1>5 DEF KickCleans, TypeOK, ConnOK, Early, Serving, Cleaning, Rows, Known,
       connVars, storeVars, ProtocolsClean
  <2>3. \A d \in Conns \ {c} : Same(d)
    BY <1>1, <1>3, <1>5 DEF KickCleans, TypeOK, Same, connVars, storeVars, ProtocolsClean
  <2> QED
    BY <1>3, <2>1, <2>2, <2>3 DEF Keeps
<1>6. CASE KickCloses(c)
  <2>1. TypeOK'
    BY Instance0, <1>1, <1>6 DEF KickCloses, TypeOK, appVars, connVars, storeVars, NoFrame, ServerCloses, StoreCleans
  <2>2. ConnOK(c)'
    BY <1>1, <1>3, <1>6 DEF KickCloses, TypeOK, ConnOK, Early, Serving, Cleaning, Rows, Known,
       connVars, storeVars, NoFrame, ServerCloses, StoreCleans
  <2>3. \A d \in Conns \ {c} : Same(d)
    BY <1>1, <1>3, <1>6 DEF KickCloses, TypeOK, Same, connVars, storeVars, NoFrame, ServerCloses, StoreCleans
  <2> QED
    BY <1>3, <2>1, <2>2, <2>3 DEF Keeps
<1> QED
  BY <1>4, <1>5, <1>6

\* A client hangs up; a $disconnect cleans up.
LEMMA ByeSteps ==
    ASSUME IInv, NEW c \in Conns,
           HangUp(c) \/ ByeCleans(c) \/ ByeDone(c)
    PROVE  Keeps(c)
<1>1. TypeOK /\ ConnOK(c) /\ AppOK
  BY DEF IInv
<1>2. UNCHANGED <<appVars, excuses>>
  BY DEF HangUp, ByeCleans, ByeDone
<1>3. AppOK' /\ \A d : Excused(d) => Excused(d)'
  BY <1>1, <1>2, AppStays, ExcusesStay
<1>4. CASE HangUp(c)
  <2>1. TypeOK'
    BY <1>1, <1>4 DEF HangUp, TypeOK, appVars, connVars, storeVars
  <2>2. ConnOK(c)'
    BY <1>1, <1>3, <1>4 DEF HangUp, TypeOK, ConnOK, Early, Serving, Cleaning, Rows, Known,
       connVars, storeVars
  <2>3. \A d \in Conns \ {c} : Same(d)
    BY <1>1, <1>3, <1>4 DEF HangUp, TypeOK, Same, connVars, storeVars
  <2> QED
    BY <1>3, <2>1, <2>2, <2>3 DEF Keeps
<1>5. CASE ByeCleans(c)
  <2>1. TypeOK'
    BY <1>1, <1>5 DEF ByeCleans, TypeOK, appVars, connVars, storeVars, ProtocolsClean
  <2>2. ConnOK(c)'
    BY <1>1, <1>3, <1>5 DEF ByeCleans, TypeOK, ConnOK, Early, Serving, Cleaning, Rows, Known,
       connVars, storeVars, ProtocolsClean
  <2>3. \A d \in Conns \ {c} : Same(d)
    BY <1>1, <1>3, <1>5 DEF ByeCleans, TypeOK, Same, connVars, storeVars, ProtocolsClean
  <2> QED
    BY <1>3, <2>1, <2>2, <2>3 DEF Keeps
<1>6. CASE ByeDone(c)
  <2>1. TypeOK'
    BY <1>1, <1>6 DEF ByeDone, TypeOK, appVars, connVars, storeVars, StoreCleans
  <2>2. ConnOK(c)'
    BY <1>1, <1>3, <1>6 DEF ByeDone, TypeOK, ConnOK, Early, Serving, Cleaning, Rows, Known,
       connVars, storeVars, StoreCleans
  <2>3. \A d \in Conns \ {c} : Same(d)
    BY <1>1, <1>3, <1>6 DEF ByeDone, TypeOK, Same, connVars, storeVars, StoreCleans
  <2> QED
    BY <1>3, <2>1, <2>2, <2>3 DEF Keeps
<1> QED
  BY <1>4, <1>5, <1>6

\* The two steps that may leave an excuse.
LEMMA ExcusingSteps == ASSUME IInv, NEW c \in Conns, Finish(c) \/ SocketClosed(c) PROVE Keeps(c)
<1>1. TypeOK /\ ConnOK(c) /\ AppOK
  BY DEF IInv
<1>2. UNCHANGED appVars /\ excuses \subseteq excuses'
      /\ \A e \in excuses' \ excuses : e[1] # "overlap"
  BY DEF Finish, SocketClosed
<1>3. \A d : Excused(d) => Excused(d)'
  BY <1>2, ExcusesStay
<1>4. AppOK'
  <2>1. Overlapped' <=> Overlapped
    BY <1>2 DEF Overlapped
  <2> QED
    BY <1>1, <1>2, <2>1 DEF AppOK, OneByOne, appVars, Wired
<1>5. CASE Finish(c)
  <2>1. upgrade'[c] = "aborted" => Excused(c)'
    BY <1>1, <1>5, ExcuseIs DEF Finish, HungUp, TypeOK
  <2>2. /\ upgrade'[c] \in {"bye", "aborted", "open"} /\ upgrade[c] = "answered"
        /\ \A d \in Conns \ {c} : upgrade'[d] = upgrade[d]
        /\ UNCHANGED <<offers, proto, frame, storeVars, kicked, took>>
    BY <1>1, <1>5 DEF Finish, TypeOK
  <2>3. TypeOK'
    <3>1. excuses' \in {excuses, excuses \cup {<<"aborted", c>>}}
      BY <1>5 DEF Finish
    <3>2. client' \in [Conns -> {"none", "waiting", "open", "closing", "gone"}]
          /\ on' \in [Conns -> Instances]
      BY <1>1, <1>5 DEF Finish, TypeOK
    <3>3. UNCHANGED <<status, cached, appVars>>
      BY <1>5 DEF Finish
    <3>4. upgrade' \in [Conns -> Upgrades]
      <4>1. \E pc \in {"bye", "aborted", "open"} : upgrade' = [upgrade EXCEPT ![c] = pc]
        BY <1>5 DEF Finish
      <4> QED
        BY <1>1, <4>1 DEF TypeOK, Upgrades, Early
    <3> QED
      BY <1>1, <2>2, <3>1, <3>2, <3>3, <3>4 DEF TypeOK, storeVars, appVars, Upgrades, Early
  <2>4. ConnOK(c)'
    BY <1>1, <1>3, <2>1, <2>2 DEF TypeOK, ConnOK, Early, Serving, Cleaning, Rows, Known, storeVars
  <2>5. \A d \in Conns \ {c} : Same(d)
    BY <1>3, <2>2 DEF Same, storeVars
  <2> QED
    BY <1>4, <2>3, <2>4, <2>5 DEF Keeps
<1>6. CASE SocketClosed(c)
  <2>1. frame[c].pc \in Serving => Excused(c)'
    BY <1>6, ExcuseIs DEF SocketClosed, Serving
  <2>2. TypeOK'
    BY <1>1, <1>6 DEF SocketClosed, TypeOK, storeVars, appVars
  <2>3. ConnOK(c)'
    BY <1>1, <1>3, <1>6, <2>1 DEF SocketClosed, TypeOK, ConnOK, Early, Serving, Cleaning, Rows,
       Known, storeVars
  <2>4. \A d \in Conns \ {c} : Same(d)
    BY <1>1, <1>3, <1>6 DEF SocketClosed, TypeOK, Same, storeVars
  <2> QED
    BY <1>4, <2>2, <2>3, <2>4 DEF Keeps
<1> QED
  BY <1>5, <1>6

-----------------------------------------------------------------------------
(* The instances' steps                                                    *)

\* What no step of an instance touches.
RowsKept ==
    /\ UNCHANGED <<upgrade, on, offers, proto, status, frame, storeVars, cached, kicked, took>>
    /\ excuses \subseteq excuses'

\* A step that keeps every row keeps every connection well.
LEMMA RowsStay == ASSUME IInv, RowsKept PROVE \A c \in Conns : ConnOK(c)'
<1>1. \A c \in Conns : ConnOK(c) /\ Same(c)
  BY ExcusesStay DEF IInv, RowsKept, Same, storeVars
<1> QED
  BY <1>1, SameKeeps

\* A reload begins when none is under way.
LEMMA ReloadStarts == ASSUME IInv, NEW r \in Instances, Reload(r) PROVE IInv'
<1>1. TypeOK /\ AppOK /\ reloads[r].pc = "none" /\ r # current
  BY DEF IInv, AppOK, Wired, Reload
<1>2. /\ reloads' = [reloads EXCEPT ![r] = [pc |-> "building", previous |-> current]]
      /\ UNCHANGED <<connVars, frame, storeVars, cached, current, closed, ending, kicked, took>>
  BY DEF Reload, BridgeDuring
<1>3. /\ excuses \subseteq excuses'
      /\ (\E q \in Instances : reloads[q].pc = "building") => Overlapped'
      /\ Overlapped => Overlapped'
  <2>1. excuses' = IF \E q \in Instances : reloads[q].pc = "building"
                   THEN excuses \cup {<<"overlap", r>>} ELSE excuses
    BY DEF Reload
  <2>2. <<"overlap", r>> \in excuses' => Overlapped'
    <3> SUFFICES ASSUME NEW e \in excuses', e = <<"overlap", r>> PROVE e[1] = "overlap"
      BY DEF Overlapped
    <3> QED
      OBVIOUS
  <2> QED
    BY <2>1, <2>2 DEF Overlapped
<1>4. TypeOK'
  BY <1>1, <1>2 DEF Reload, TypeOK, connVars, storeVars
<1>5. /\ reloads'[r].pc = "building" /\ reloads'[r].previous = current
      /\ \A q \in Instances \ {r} : reloads'[q] = reloads[q]
      /\ \A q \in Instances : Wired(q) => Wired(q)' /\ q # r
      /\ \A q \in Instances : Wired(q)' => Wired(q)
  BY <1>1, <1>2 DEF TypeOK, Wired
<1>6. AppOK'
  BY <1>1, <1>2, <1>3, <1>5 DEF AppOK, OneByOne, TypeOK
<1> QED
  BY <1>2, <1>3, <1>4, <1>6, RowsStay DEF IInv, RowsKept, connVars, storeVars

\* The steps of a reload.
LEMMA ReloadSteps ==
    ASSUME IInv, NEW r \in Instances, ReloadFails(r) \/ ReloadSwaps(r) \/ ReloadCloses(r)
    PROVE  IInv'
<1>1. TypeOK /\ AppOK
  BY DEF IInv
<1>2. RowsKept /\ UNCHANGED <<client, ending, excuses>>
  BY DEF ReloadFails, ReloadSwaps, ReloadCloses, Shared, RowsKept, connVars, storeVars
<1>3. /\ \A c \in Conns : ConnOK(c)'
      /\ Overlapped' <=> Overlapped
  BY <1>2, RowsStay DEF Overlapped
<1>4. CASE ReloadFails(r)
  <2>1. TypeOK'
    BY <1>1, <1>2, <1>4 DEF ReloadFails, TypeOK, RowsKept, storeVars
  <2>2. AppOK'
    BY <1>1, <1>2, <1>3, <1>4 DEF ReloadFails, TypeOK, AppOK, OneByOne, Wired
  <2> QED
    BY <1>3, <2>1, <2>2 DEF IInv
<1>5. CASE ReloadSwaps(r)
  <2>1. TypeOK'
    BY <1>1, <1>2, <1>5 DEF ReloadSwaps, Previous, TypeOK, RowsKept, storeVars
  <2>2. /\ reloads[r].pc = "building" /\ current' = r /\ UNCHANGED closed
        /\ reloads'[r].pc = "closing" /\ reloads'[r].previous = reloads[r].previous
        /\ \A q \in Instances \ {r} : reloads'[q] = reloads[q]
    BY <1>1, <1>5 DEF ReloadSwaps, Previous, TypeOK
  <2>3. ~Wired(r) /\ Wired(r)' /\ \A q \in Instances \ {r} : Wired(q)' <=> Wired(q)
    BY <2>2 DEF Wired
  <2>4. /\ \A q \in Instances : reloads[q].previous \in Instances
        /\ r \in Instances /\ closed \subseteq Instances
    BY <1>1 DEF TypeOK
  <2>5. /\ \A q \in closed : Wired(q) /\ q # r
        /\ \A q \in Instances : reloads[q].pc \in {"building", "closing"}
             => Wired(reloads[q].previous) /\ reloads[q].previous # r
    BY <1>1, <2>3 DEF AppOK
  <2>6. ASSUME NEW q \in Instances, reloads'[q].pc \in {"building", "closing"}
        PROVE  Wired(reloads[q].previous)' /\ reloads'[q].previous # r
    <3>1. reloads'[q].previous = reloads[q].previous
      BY <2>2
    <3>2. reloads[q].pc \in {"building", "closing"}
      BY <2>2, <2>6
    <3> QED
      BY <2>3, <2>4, <2>5, <3>1, <3>2
  <2>7. Wired(current)' /\ (\A q \in closed' : Wired(q)') /\ current' \notin closed'
    BY <2>2, <2>3, <2>4, <2>5
  <2>8. ASSUME ~Overlapped PROVE OneByOne'
    <3>1. OneByOne
      BY <1>1, <2>8 DEF AppOK
    <3>2. \A q \in Instances : reloads'[q].pc # "building"
      BY <2>2, <3>1 DEF OneByOne
    <3>3. ASSUME NEW q \in Instances \ {r}, Wired(q)'
          PROVE  q \in closed \/ \E p \in Instances : reloads'[p].pc = "closing" /\ reloads'[p].previous = q
      <4>1. CASE q = current
        BY <2>2, <3>1, <4>1 DEF OneByOne
      <4>2. CASE q # current
        BY <2>2, <2>3, <3>1, <3>3, <4>2 DEF OneByOne
      <4> QED
        BY <4>1, <4>2
    <3> QED
      BY <2>2, <3>2, <3>3 DEF OneByOne
  <2>9. AppOK'
    BY <1>3, <2>2, <2>6, <2>7, <2>8 DEF AppOK
  <2> QED
    BY <1>3, <2>1, <2>9 DEF IInv
<1>6. CASE ReloadCloses(r)
  <2>1. TypeOK'
    BY <1>1, <1>2, <1>6 DEF ReloadCloses, TypeOK, RowsKept, storeVars
  <2>2. /\ reloads[r].pc = "closing" /\ UNCHANGED current
        /\ closed' = closed \cup {reloads[r].previous}
        /\ reloads'[r].pc = "done" /\ \A q \in Instances \ {r} : reloads'[q] = reloads[q]
    BY <1>1, <1>6 DEF ReloadCloses, TypeOK
  <2>3. \A q \in Instances : Wired(q)' <=> Wired(q)
    BY <2>2 DEF Wired
  <2>4. /\ \A q \in Instances : reloads[q].previous \in Instances
        /\ r \in Instances /\ closed \subseteq Instances /\ current \in Instances
    BY <1>1 DEF TypeOK
  <2>5. ASSUME NEW q \in Instances, reloads'[q].pc \in {"building", "closing"}
        PROVE  /\ Wired(reloads[q].previous)' /\ reloads'[q] = reloads[q]
               /\ reloads'[q].pc = "closing" => reloads'[q].previous # current
    <3>1. reloads'[q] = reloads[q]
      BY <2>2, <2>5
    <3>2. Wired(reloads[q].previous)
      BY <1>1, <2>5, <3>1 DEF AppOK
    <3> QED
      BY <1>1, <2>3, <2>4, <2>5, <3>1, <3>2 DEF AppOK
  <2>6. /\ Wired(current)'
        /\ current' \in closed' => current \in closed
        /\ \A q \in closed' : Wired(q)'
    <3>1. Wired(current) /\ \A q \in closed : Wired(q)
      BY <1>1 DEF AppOK
    <3>2. Wired(reloads[r].previous) /\ reloads[r].previous # current
      BY <1>1, <2>2 DEF AppOK
    <3> QED
      BY <2>2, <2>3, <2>4, <3>1, <3>2
  <2>7. ASSUME ~Overlapped PROVE OneByOne'
    <3>1. OneByOne
      BY <1>1, <2>7 DEF AppOK
    <3>2. \A q \in Instances : reloads'[q].pc = "building" => q # r /\ reloads'[q] = reloads[q]
      BY <2>2
    <3>3. ASSUME NEW q \in Instances \ {current}, Wired(q)'
          PROVE  q \in closed' \/ \E p \in Instances : reloads'[p].pc = "closing" /\ reloads'[p].previous = q
      <4>1. q \in closed \/ \E p \in Instances : reloads[p].pc = "closing" /\ reloads[p].previous = q
        BY <2>3, <3>1, <3>3 DEF OneByOne
      <4> QED
        BY <2>2, <4>1
    <3> QED
      BY <2>2, <3>1, <3>2, <3>3 DEF OneByOne
  <2>8. AppOK'
    <3>1. current' \in closed' => ending'
      BY <1>1, <1>2, <2>6 DEF AppOK
    <3>2. ASSUME NEW q \in Instances
          PROVE  /\ reloads'[q].pc \in {"building", "closing"} => Wired(reloads[q].previous)'
                 /\ reloads'[q].pc = "closing" => reloads'[q].previous # current'
      BY <2>2, <2>5
    <3>3. ~Overlapped' => OneByOne'
      BY <1>3, <2>7
    <3> QED
      BY <2>6, <3>1, <3>2, <3>3 DEF AppOK
  <2> QED
    BY <1>3, <2>1, <2>8 DEF IInv
<1> QED
  BY <1>4, <1>5, <1>6

\* The emulator stops.
LEMMA EndSteps == IInv /\ (Close \/ Ended) => IInv'
<1> SUFFICES ASSUME IInv, Close \/ Ended PROVE IInv'
  OBVIOUS
<1>1. TypeOK /\ AppOK
  BY DEF IInv
<1>2. RowsKept /\ UNCHANGED <<current, reloads, excuses>>
  BY DEF Close, Ended, RowsKept, connVars
<1>3. /\ \A c \in Conns : ConnOK(c)'
      /\ Overlapped' <=> Overlapped
  BY <1>2, RowsStay DEF Overlapped
<1>4. TypeOK'
  <2>1. client' \in [Conns -> {"none", "waiting", "open", "closing", "gone"}]
        /\ closed' \subseteq Instances /\ ending' \in BOOLEAN
    <3>1. CASE Close
      BY <1>1, <3>1 DEF Close, TypeOK
    <3>2. CASE Ended
      BY <1>1, <3>2 DEF Ended, TypeOK, connVars
    <3> QED
      BY <3>1, <3>2
  <2> QED
    BY <1>1, <1>2, <2>1 DEF TypeOK, RowsKept, storeVars
<1>5. AppOK'
  BY <1>1, <1>2, <1>3 DEF Close, Ended, TypeOK, AppOK, OneByOne, Wired
<1> QED
  BY <1>3, <1>4, <1>5 DEF IInv

-----------------------------------------------------------------------------
(* What follows                                                            *)

\* Every step of Next leaves the invariant as it is.
LEMMA NextKeeps == IInv /\ [Next]_vars => IInv'
<1> SUFFICES ASSUME IInv, [Next]_vars PROVE IInv'
  OBVIOUS
<1>1. ASSUME NEW c \in Conns, Keeps(c) PROVE IInv'
  BY <1>1, SameKeeps DEF Keeps, IInv
<1>2. ASSUME NEW c \in Conns, Step(c) PROVE IInv'
  BY <1>1, <1>2, UpgradeSteps, FrameSteps, KickSteps, ByeSteps, ExcusingSteps DEF Step
<1>3. ASSUME NEW c \in Conns,
             \/ \E gql \in BOOLEAN : Upgrade(c, gql)
             \/ \E err \in Errors : HooksRefuse(c, err)
             \/ FrameArrives(c) \/ HandlerKicks(c) \/ HangUp(c)
      PROVE  IInv'
  BY <1>1, <1>3, UpgradeSteps, FrameSteps, KickSteps, ByeSteps
<1>4. ASSUME NEW r \in Instances,
             Reload(r) \/ ReloadFails(r) \/ ReloadSwaps(r) \/ ReloadCloses(r)
      PROVE  IInv'
  BY <1>4, ReloadStarts, ReloadSteps
<1>5. CASE Close \/ Ended
  BY <1>5, EndSteps
<1>6. CASE UNCHANGED vars
  <2>1. TypeOK' /\ AppOK' /\ RowsKept
    BY <1>6, AppStays DEF vars, connVars, appVars, storeVars, IInv, TypeOK, RowsKept
  <2> QED
    BY <2>1, RowsStay DEF IInv
<1> QED
  BY <1>2, <1>3, <1>4, <1>5, <1>6 DEF Next

\* The invariant holds in every behaviour.
LEMMA Inductive == Spec => []IInv
<1> QED
  BY InitIInv, NextKeeps, PTL DEF Spec

\* The emulator is always in one of the states its module describes: no refusal
\* is ever answered with anything but a 4xx or 5xx.
THEOREM TypeCorrect == Spec => []TypeOK
<1>1. IInv => TypeOK
  BY DEF IInv
<1> QED
  BY <1>1, Inductive, PTL

\* A connection that is over has left nothing in the shared store, whatever its
\* client, its frames and the reloads did meanwhile.
THEOREM NoRowsAreLeft == Spec => []LeavesNoRows
<1>1. IInv => LeavesNoRows
  BY DEF IInv, ConnOK, LeavesNoRows
<1> QED
  BY <1>1, Inductive, PTL

\* An open socket is known to the store, with what it has joined, across reloads.
THEOREM OpenSocketsAreKnown == Spec => []OpenIsKnown
<1>1. IInv => OpenIsKnown
  BY DEF IInv, ConnOK, Known, OpenIsKnown
<1> QED
  BY <1>1, Inductive, PTL

\* Every instance that can become the current one negotiates GraphQL.
THEOREM GraphQLIsNegotiated == Spec => []GraphQLNegotiated
<1>1. IInv => GraphQLNegotiated
  <2> SUFFICES ASSUME IInv, NEW c \in offers, upgrade[c] \notin {"none", "refused"}
               PROVE  proto[c] = "gql" /\ c \notin global
    BY DEF GraphQLNegotiated
  <2>1. c \in Conns /\ ConnOK(c)
    BY DEF IInv, TypeOK
  <2> QED
    BY <2>1 DEF ConnOK
<1> QED
  BY <1>1, Inductive, PTL

\* However many reloads there are, the current instance is never closed under its
\* sockets, and those before it are once it is live.
THEOREM OneInstanceIsLeft == Spec => []OneInstance
<1>1. IInv => OneInstance
  BY DEF IInv, AppOK, OneByOne, OneInstance, Overlapped, Wired
<1> QED
  BY <1>1, Inductive, PTL
=============================================================================
