-------------------------- MODULE ContainerProofs --------------------------
(***************************************************************************)
(* That an answer waits for the sends made for it and for no others, that  *)
(* a frame goes to its protocol, and that none is registered twice, for    *)
(* any number of events and sends.                                         *)
(***************************************************************************)
EXTENDS Container, SequenceTheorems, FiniteSetTheorems, TLAPS

USE ContainerAssumption

\* The protocols a process has are those its boot has got to.
BootOK ==
    /\ boot \in {"cold", "booting"} => protocols = <<>>
    /\ boot = "adapted" => Len(protocols) = 1 /\ protocols[1] = "nest"
    /\ boot = "up" => Len(protocols) = 2 /\ protocols[1] = "nest" /\ protocols[2] = "gql"
    /\ boot = "failed" => Len(protocols) <= 1

\* What is served is of a known shape.
ServedOK == \A i \in Events : ev[i].pc \in {"running", "settling"} => ev[i].kind # "odd"

\* Where the sends come from, and who holds those still on their way: the scope
\* of the dispatch that made them has a frame made inside of it, and the handler
\* that awaits it is still running.
SendOK(s, n) ==
    /\ ev[s.by].pc \notin {"none", "waiting"}
    /\ s.what = "frame" /\ ~s.outside => Scoped(s.by)
    /\ s.what = "frame" /\ s.waited => ~s.outside
    /\ s.at = "flying" /\ s.what = "frame" /\ ~s.outside => n \in queue[s.by] \cup inflight[s.by]
    /\ s.at = "flying" /\ s.what # "frame" /\ s.waited => At(s.by, "running")
    /\ s.at = "flying" /\ At(s.by, "answered") => Unattended(s)

SendsOK == \A n \in DOMAIN sends : SendOK(sends[n], n)

IInv == TypeOK /\ BootOK /\ ServedOK /\ SendsOK /\ OwnSendsOnly

\* At first nothing flies and nobody handles anything.
LEMMA InitIInv == Init => IInv
<1> SUFFICES ASSUME Init PROVE IInv
  OBVIOUS
<1>1. protocols \in Seq({"nest", "gql"}) /\ Len(protocols) <= 2 /\ boot \in {"cold", "up"}
  BY DEF Init
<1>2. ev \in [Events -> EventRecords]
  BY DEF Init, EventRecords, Absent, Kinds
<1>3. TypeOK
  BY <1>1, <1>2 DEF Init, TypeOK
<1>4. BootOK /\ ServedOK
  BY DEF Init, BootOK, ServedOK, Absent
<1>5. SendsOK /\ OwnSendsOnly
  BY DEF Init, SendsOK, OwnSendsOnly
<1> QED
  BY <1>3, <1>4, <1>5 DEF IInv

-----------------------------------------------------------------------------
(* Making sends                                                            *)

New  == (Len(sends) + 1)..Len(sends')
Held(i) == IF Scoped(i) THEN New ELSE {}

Grows(i, waited) ==
    /\ sends' \in Seq(SendRecords) /\ Len(sends) <= Len(sends') /\ Len(sends') <= MaxSends
    /\ \A n \in 1..Len(sends) : sends'[n] = sends[n]
    /\ \A n \in New : /\ sends'[n].what = "frame" /\ sends'[n].by = i
                      /\ sends'[n].at = "flying" /\ sends'[n].waited = waited
                      /\ sends'[n].outside = Outside(i)
    /\ queue' = [q \in Events |-> queue[q] \cup (IF q = i THEN Held(i) ELSE {})]

\* Sends appends frames of dispatch i, and enqueues them in its scope.
LEMMA SendsGrow ==
    ASSUME TypeOK, NEW i \in Events, NEW to \in SUBSET Events, NEW waited \in BOOLEAN,
           Sends(i, to, waited)
    PROVE  Grows(i, waited)
<1> DEFINE N == Len(sends)
           C == Cardinality(to)
<1>1. PICK f \in Orders(to) :
        /\ N + C <= MaxSends
        /\ sends' = sends \o [n \in DOMAIN f |->
             [what |-> "frame", by |-> i, at |-> "flying", waited |-> waited,
              outside |-> Outside(i), to |-> f[n]]]
        /\ queue' = [q \in Events |-> queue[q] \cup
             {N + n : n \in {m \in DOMAIN f : i = q /\ Scoped(i)}}]
  BY DEF Sends, Queue, Context
<1>2. C \in Nat
  <2>1. NEvents \in Int /\ 1 \in Int
    OBVIOUS
  <2>2. IsFiniteSet(Events)
    BY <2>1, FS_Interval DEF Events
  <2> QED
    BY <2>2, FS_Subset, FS_CardinalityType
<1>3. f \in [1..C -> Events] /\ DOMAIN f = 1..C
  BY <1>1 DEF Orders
<1> DEFINE frames == [n \in 1..C |-> [what |-> "frame", by |-> i, at |-> "flying",
                        waited |-> waited, outside |-> Outside(i), to |-> f[n]]]
<1>4. frames \in Seq(SendRecords) /\ Len(frames) = C
  <2>1. Outside(i) \in BOOLEAN
    BY DEF Outside, At
  <2>2. \A n \in 1..C : frames[n] \in SendRecords
    BY <1>3, <2>1 DEF SendRecords
  <2> QED
    BY <1>2, <2>2
<1>5. sends' = sends \o frames
  BY <1>1, <1>3
<1>6. sends \in Seq(SendRecords) /\ N \in Nat
  BY DEF TypeOK
<1> HIDE DEF frames
<1>7. /\ sends' \in Seq(SendRecords) /\ Len(sends') = N + C
      /\ \A n \in 1..(N + C) : sends'[n] = IF n <= N THEN sends[n] ELSE frames[n - N]
  BY <1>4, <1>5, <1>6, ConcatProperties
<1>8. \A n \in New : n - N \in 1..C /\ sends'[n] = frames[n - N]
  BY <1>2, <1>6, <1>7 DEF New
<1>9. {N + n : n \in 1..C} = New
  <2>1. \A n \in New : n - N \in 1..C /\ N + (n - N) = n
    BY <1>2, <1>6, <1>7 DEF New
  <2>2. \A n \in 1..C : N + n \in New
    BY <1>2, <1>6, <1>7 DEF New
  <2> QED
    BY <2>1, <2>2
<1>10. queue' = [q \in Events |-> queue[q] \cup (IF q = i THEN Held(i) ELSE {})]
  <2>1. \A q \in Events : {N + n : n \in {m \in DOMAIN f : i = q /\ Scoped(i)}}
                          = IF q = i THEN Held(i) ELSE {}
    BY <1>3, <1>9 DEF Held
  <2> QED
    BY <1>1, <2>1
<1>11. Len(sends) <= Len(sends') /\ Len(sends') <= MaxSends
  BY <1>1, <1>2, <1>6, <1>7
<1>12. \A n \in 1..Len(sends) : sends'[n] = sends[n]
  BY <1>2, <1>6, <1>7
<1>13. \A n \in New : /\ sends'[n].what = "frame" /\ sends'[n].by = i
                      /\ sends'[n].at = "flying" /\ sends'[n].waited = waited
                      /\ sends'[n].outside = Outside(i)
  <2>1. \A m \in 1..C : /\ frames[m].what = "frame" /\ frames[m].by = i
                        /\ frames[m].at = "flying" /\ frames[m].waited = waited
                        /\ frames[m].outside = Outside(i)
    BY DEF frames
  <2> QED
    BY <2>1, <1>8
<1> QED
  BY <1>7, <1>10, <1>11, <1>12, <1>13 DEF Grows

\* Dispatches go on where they were.
SamePlaces == \A j \in Events : ev'[j].pc = ev[j].pc /\ ev'[j].kind = ev[j].kind

\* However many frames a dispatch makes, its scope has those it must await.
LEMMA SendsKeep ==
    ASSUME IInv, NEW i \in Events, NEW to \in SUBSET Events, NEW waited \in BOOLEAN,
           Sends(i, to, waited), SamePlaces, ev' \in [Events -> EventRecords],
           UNCHANGED <<mode, boot, protocols, inflight, streams>>,
           ~At(i, "none"), ~At(i, "waiting"), waited => ~Outside(i)
    PROVE  IInv'
<1>1. TypeOK
  BY DEF IInv
<1>2. /\ sends' \in Seq(SendRecords) /\ Len(sends) <= Len(sends') /\ Len(sends') <= MaxSends
      /\ \A n \in 1..Len(sends) : sends'[n] = sends[n]
      /\ \A n \in New : /\ sends'[n].what = "frame" /\ sends'[n].by = i
                        /\ sends'[n].at = "flying" /\ sends'[n].waited = waited
                        /\ sends'[n].outside = Outside(i)
      /\ queue' = [q \in Events |-> queue[q] \cup (IF q = i THEN Held(i) ELSE {})]
  <2>1. Grows(i, waited)
    BY <1>1, SendsGrow
  <2> QED
    BY <2>1 DEF Grows
<1>3. /\ sends \in Seq(SendRecords) /\ Len(sends) \in Nat /\ Len(sends') \in Nat
      /\ DOMAIN sends = 1..Len(sends) /\ DOMAIN sends' = 1..Len(sends')
  BY <1>1, <1>2 DEF TypeOK
<1>4. DOMAIN sends' = (DOMAIN sends) \cup New /\ (DOMAIN sends) \cap New = {}
  BY <1>2, <1>3 DEF New
<1>5. Held(i) \subseteq New
  BY DEF Held
<1> HIDE DEF New
<1>6. TypeOK'
  BY <1>1, <1>2, <1>4, <1>5 DEF TypeOK
<1>7. BootOK' /\ ServedOK'
  BY DEF IInv, BootOK, ServedOK, SamePlaces
<1>8. OwnSendsOnly'
  <2> SUFFICES ASSUME NEW j \in Events, NEW n \in DOMAIN sends', n \in queue'[j] \cup inflight'[j]
               PROVE  sends'[n].by = j
    BY DEF OwnSendsOnly
  <2>1. CASE n \in DOMAIN sends
    BY <2>1, <1>2, <1>3, <1>4, <1>5 DEF IInv, OwnSendsOnly
  <2>2. CASE n \in New
    <3>1. n \notin queue[j] \cup inflight[j]
      BY <2>2, <1>1, <1>4 DEF TypeOK
    <3> QED
      BY <3>1, <2>2, <1>2
  <2> QED
    BY <2>1, <2>2, <1>4
<1>9. ASSUME NEW n \in DOMAIN sends PROVE SendOK(sends[n], n)'
  <2>1. sends'[n] = sends[n] /\ sends[n] \in SendRecords /\ SendOK(sends[n], n)
    BY <1>2, <1>3 DEF IInv, SendsOK
  <2>3. sends[n].by \in Events
    BY <2>1 DEF SendRecords
  <2>2. queue[sends[n].by] \subseteq queue'[sends[n].by]
    BY <1>2, <2>3
  <2> QED
    BY <2>1, <2>2, <2>3 DEF SendOK, SamePlaces, At, Scoped, Unattended
<1>10. ASSUME NEW n \in New PROVE SendOK(sends[n], n)'
  <2>1. /\ sends'[n].what = "frame" /\ sends'[n].by = i /\ sends'[n].at = "flying"
        /\ sends'[n].waited = waited /\ sends'[n].outside = Outside(i)
    BY <1>2
  <2>2. ~Outside(i) => Scoped(i) /\ ~At(i, "answered") /\ n \in queue'[i]
    <3>1. ev[i].kind \in Kinds /\ ev[i].pc \in {"running", "settling", "answered"}
      BY <1>1 DEF TypeOK, EventRecords, At
    <3>2. ~Outside(i) => Scoped(i) /\ ~At(i, "answered")
      BY <3>1 DEF IInv, ServedOK, Outside, Scoped, At, Kinds
    <3> QED
      BY <3>2, <1>2 DEF Held
  <2> QED
    BY <2>1, <2>2 DEF SendOK, SamePlaces, At, Scoped, Unattended
<1>11. SendsOK'
  BY <1>4, <1>9, <1>10 DEF SendsOK
<1> QED
  BY <1>6, <1>7, <1>8, <1>11 DEF IInv

-----------------------------------------------------------------------------
(* Every other step                                                        *)

\* The boot changes nothing the sends are about.
LEMMA BootKeeps == IInv /\ (AdapterMade \/ SchemaMade \/ BootFails) => IInv'
<1> SUFFICES ASSUME IInv, AdapterMade \/ SchemaMade \/ BootFails PROVE IInv'
  OBVIOUS
<1>1. /\ UNCHANGED <<mode, ev, scopeVars, sends, streams>>
      /\ boot' \in {"adapted", "up", "failed"}
  BY DEF AdapterMade, SchemaMade, BootFails
<1>2. BootOK' /\ protocols' \in Seq({"nest", "gql"}) /\ Len(protocols') <= 2
  <2>4. ASSUME NEW p \in {"nest", "gql"}, Use(p)
        PROVE  /\ protocols' \in Seq({"nest", "gql"}) /\ Len(protocols') = Len(protocols) + 1
               /\ \A n \in 1..Len(protocols) : protocols'[n] = protocols[n]
               /\ protocols'[Len(protocols) + 1] = p
    BY <2>4, AppendProperties DEF IInv, TypeOK, Use
  <2>1. CASE AdapterMade
    <3>1. Len(protocols) = 0 /\ Use("nest") /\ boot' = "adapted"
      BY <2>1 DEF IInv, BootOK, AdapterMade
    <3>2. /\ protocols' \in Seq({"nest", "gql"})
          /\ Len(protocols') = 1 /\ protocols'[1] = "nest"
      BY <2>4, <3>1
    <3> QED
      BY <3>1, <3>2 DEF BootOK
  <2>2. CASE SchemaMade
    <3>1. Len(protocols) = 1 /\ protocols[1] = "nest" /\ Use("gql") /\ boot' = "up"
      BY <2>2 DEF IInv, BootOK, SchemaMade
    <3>2. /\ protocols' \in Seq({"nest", "gql"})
          /\ Len(protocols') = 2 /\ protocols'[1] = "nest" /\ protocols'[2] = "gql"
      BY <2>4, <3>1
    <3> QED
      BY <3>1, <3>2 DEF BootOK
  <2>3. CASE BootFails
    <3>1. Len(protocols) <= 1
      <4>1. CASE boot = "booting"
        <5>1. protocols = <<>>
          BY <4>1 DEF IInv, BootOK
        <5> QED
          BY <5>1
      <4>2. CASE boot = "adapted"
        <5>1. Len(protocols) = 1
          BY <4>2 DEF IInv, BootOK
        <5> QED
          BY <5>1
      <4> QED
        BY <4>1, <4>2, <2>3 DEF BootFails
    <3>2. boot' = "failed" /\ protocols' = protocols /\ protocols \in Seq({"nest", "gql"})
      BY <2>3 DEF BootFails, IInv, TypeOK
    <3>3. Len(protocols) <= 2
      BY DEF IInv, TypeOK
    <3> QED
      BY <3>1, <3>2, <3>3 DEF BootOK
  <2> QED
    BY <2>1, <2>2, <2>3
<1>3. TypeOK'
  BY <1>1, <1>2 DEF IInv, TypeOK, scopeVars
<1>4. ServedOK' /\ SendsOK' /\ OwnSendsOnly'
  BY <1>1 DEF IInv, ServedOK, SendsOK, SendOK, OwnSendsOnly, At, Scoped, Unattended, scopeVars
<1> QED
  BY <1>2, <1>3, <1>4 DEF IInv

\* Emits, acks, answers, pushes and the late sends of work left behind.
LEMMA SendersKeep ==
    ASSUME IInv, NEW i \in Events, Emit(i) \/ Answer(i) \/ Push(i) \/ Late(i)
    PROVE  IInv'
<1>1. ev \in [Events -> EventRecords] /\ streams \subseteq Events
  BY DEF IInv, TypeOK
<1>2. CASE Emit(i)
  BY <1>1, <1>2, SendsKeep DEF Emit, SamePlaces, At
<1>3. CASE Answer(i)
  BY <1>1, <1>3, SendsKeep DEF Answer, SamePlaces, At, Outside
<1>4. CASE Push(i)
  BY <1>1, <1>4, SendsKeep DEF Push, SamePlaces, At
<1>5. CASE Late(i)
  <2>1. ev' = [ev EXCEPT ![i].lingers = FALSE]
    BY <1>5 DEF Late
  <2>2. ev' \in [Events -> EventRecords] /\ SamePlaces
    BY <1>1, <2>1 DEF EventRecords, SamePlaces
  <2> QED
    BY <1>5, <2>2, SendsKeep DEF Late, At
<1> QED
  BY <1>2, <1>3, <1>4, <1>5

\* A frame of GraphQL's goes to GraphQL, and any other to Nest.
LEMMA ClaimantIs ==
    ASSUME TypeOK, BootOK, boot = "up", NEW kind
    PROVE  Claimant(kind) = IF kind = "gql" THEN "gql" ELSE "nest"
<1>1. DOMAIN protocols = {1, 2} /\ protocols[1] = "nest" /\ protocols[2] = "gql"
  BY DEF TypeOK, BootOK
<1> DEFINE takers == {n \in DOMAIN protocols : Claims(protocols[n], kind)}
           first(n) == n \in takers /\ \A m \in takers \ {n} : Ordered(n, m)
           chosen == CHOOSE n \in takers : \A m \in takers \ {n} : Ordered(n, m)
<1>2. takers = IF kind = "gql" THEN {1, 2} ELSE {1}
  BY <1>1 DEF Claims
<1>3. Ordered(2, 1) /\ ~Ordered(1, 2)
  BY <1>1 DEF Ordered, Fallback
<1>4. chosen = IF kind = "gql" THEN 2 ELSE 1
  BY <1>2, <1>3
<1> QED
  BY <1>1, <1>2, <1>4 DEF Claimant

\* An event comes in, and the boot it waits for ends: nothing was sent for it yet.
LEMMA BeginsKeep ==
    ASSUME IInv, NEW i \in Events,
           (\E kind \in Kinds : Arrive(i, kind)) \/ Begin(i) \/ Poisoned(i)
    PROVE  IInv'
<1>1. /\ ev[i].pc \in {"none", "waiting"} /\ ev[i] \in EventRecords
      /\ UNCHANGED <<mode, protocols, scopeVars, sends, streams>>
      /\ boot' = boot \/ (boot = "cold" /\ boot' = "booting")
      /\ \A j \in Events \ {i} : ev'[j] = ev[j]
  BY DEF IInv, TypeOK, Arrive, Begin, Poisoned, Ready, At
<1>2. ev' \in [Events -> EventRecords] /\ (ev'[i].pc = "running" => ev'[i].kind # "odd")
      /\ ev'[i].pc # "settling"
  <2>1. CASE \E kind \in Kinds : Arrive(i, kind)
    <3>1. PICK kind \in Kinds : ev' = [ev EXCEPT ![i] = [Absent EXCEPT !.pc = "waiting", !.kind = kind]]
      BY <2>1 DEF Arrive
    <3>2. [Absent EXCEPT !.pc = "waiting", !.kind = kind] \in EventRecords
      BY DEF Absent, EventRecords
    <3> QED
      BY <3>1, <3>2 DEF IInv, TypeOK, Absent
  <2>2. CASE Begin(i)
    <3>1. Claimant(ev[i].kind) \in {"nest", "gql"}
      BY <2>2, ClaimantIs DEF IInv, Begin, TypeOK
    <3>2. ev' = [ev EXCEPT ![i].pc = IF ev[i].kind = "odd" THEN "answered" ELSE "running",
                           ![i].claimed = IF ev[i].kind \in {"frame", "gql"}
                                          THEN Claimant(ev[i].kind) ELSE @]
      BY <2>2 DEF Begin
    <3> QED
      BY <1>1, <3>1, <3>2 DEF IInv, TypeOK, EventRecords
  <2>3. CASE Poisoned(i)
    BY <2>3 DEF IInv, TypeOK, Poisoned, EventRecords
  <2> QED
    BY <2>1, <2>2, <2>3
<1>3. TypeOK' /\ BootOK'
  BY <1>1, <1>2 DEF IInv, TypeOK, BootOK, scopeVars
<1>4. ServedOK'
  BY <1>1, <1>2 DEF IInv, ServedOK
<1>5. SendsOK' /\ OwnSendsOnly'
  <2>1. \A n \in DOMAIN sends : sends[n].by \in Events /\ sends[n].by # i
    <3> SUFFICES ASSUME NEW n \in DOMAIN sends
                 PROVE  sends[n].by \in Events /\ sends[n].by # i
      OBVIOUS
    <3>1. sends[n] \in SendRecords /\ SendOK(sends[n], n)
      BY DEF IInv, SendsOK, TypeOK
    <3> QED
      BY <1>1, <3>1 DEF SendOK, SendRecords
  <2> QED
    BY <1>1, <2>1 DEF IInv, SendsOK, SendOK, OwnSendsOnly, At, Scoped, Unattended, scopeVars
<1> QED
  BY <1>3, <1>4, <1>5 DEF IInv

\* A dispatch moves on to a place its sends allow.
LEMMA PlacesKeep ==
    ASSUME IInv, NEW i \in Events, ev[i].pc \in {"running", "settling"},
           ev' \in [Events -> EventRecords], ev'[i].pc \in {"settling", "answered"},
           ev'[i].kind = ev[i].kind, \A j \in Events \ {i} : ev'[j] = ev[j],
           UNCHANGED <<mode, boot, protocols, scopeVars, sends>>, streams' \subseteq Events,
           \A n \in DOMAIN sends : sends[n].by = i /\ sends[n].at = "flying" =>
             /\ sends[n].what # "frame" => ~sends[n].waited
             /\ ev'[i].pc = "answered" => Unattended(sends[n])
    PROVE  IInv'
<1>1. TypeOK' /\ BootOK'
  BY DEF IInv, TypeOK, BootOK, scopeVars
<1>2. ServedOK'
  BY DEF IInv, ServedOK
<1>3. ASSUME NEW n \in DOMAIN sends PROVE SendOK(sends[n], n)'
  <2>1. sends[n] \in SendRecords /\ SendOK(sends[n], n)
    BY DEF IInv, SendsOK, TypeOK
  <2>2. sends[n].by \in Events /\ sends[n].at \in {"flying", "landed", "lost"}
    BY <2>1 DEF SendRecords
  <2>3. CASE sends[n].by = i
    BY <2>1, <2>2, <2>3 DEF SendOK, At, Scoped, Unattended, scopeVars
  <2>4. CASE sends[n].by # i
    BY <2>1, <2>2, <2>4 DEF SendOK, At, Scoped, Unattended, scopeVars
  <2> QED
    BY <2>3, <2>4
<1>4. SendsOK' /\ OwnSendsOnly'
  BY <1>3 DEF IInv, SendsOK, OwnSendsOnly, scopeVars
<1> QED
  BY <1>1, <1>2, <1>4 DEF IInv

\* A handler returns when what it awaits has landed; its scope has the rest.
LEMMA ReturnKeeps ==
    ASSUME IInv, NEW i \in Events, NEW lingers \in BOOLEAN, NEW observable \in BOOLEAN,
           Return(i, lingers, observable)
    PROVE  IInv'
<1>1. /\ ev \in [Events -> EventRecords] /\ ev[i].pc = "running"
      /\ ev' = [ev EXCEPT ![i].pc = IF Scoped(i) THEN "settling" ELSE "answered",
                         ![i].lingers = lingers]
      /\ UNCHANGED <<mode, boot, protocols, scopeVars, sends>>
  BY DEF IInv, TypeOK, Return, At
<1>2. /\ ev' \in [Events -> EventRecords] /\ ev'[i].pc \in {"settling", "answered"}
      /\ ev'[i].kind = ev[i].kind /\ \A j \in Events \ {i} : ev'[j] = ev[j]
      /\ ev'[i].pc = "answered" => ~Scoped(i)
  <2> DEFINE after == [ev[i] EXCEPT !.pc = IF Scoped(i) THEN "settling" ELSE "answered",
                                    !.lingers = lingers]
  <2>1. after \in EventRecords /\ after.kind = ev[i].kind
        /\ after.pc = IF Scoped(i) THEN "settling" ELSE "answered"
    BY <1>1 DEF EventRecords
  <2>2. ev' = [ev EXCEPT ![i] = after]
    BY <1>1
  <2> QED
    BY <1>1, <2>1, <2>2
<1>3. streams' \subseteq Events
  BY DEF IInv, TypeOK, Return
<1>4. ASSUME NEW n \in DOMAIN sends, sends[n].by = i, sends[n].at = "flying"
      PROVE  ~sends[n].waited /\ (~Scoped(i) => Unattended(sends[n]))
  <2>1. sends[n] \in SendRecords /\ SendOK(sends[n], n)
    BY DEF IInv, SendsOK, TypeOK
  <2>2. ~sends[n].waited
    BY <1>4 DEF Return
  <2> QED
    BY <1>4, <2>1, <2>2 DEF SendOK, SendRecords, Unattended
<1> QED
  BY <1>1, <1>2, <1>3, <1>4, PlacesKeep

\* A dispatch answers when none of its own sends is still flying.
LEMMA SettleKeeps == ASSUME IInv, NEW i \in Events, Settle(i) PROVE IInv'
<1>1. /\ TypeOK /\ ev[i].pc = "settling" /\ \A n \in inflight[i] : sends[n].at # "flying"
      /\ UNCHANGED <<mode, boot, protocols, sends, streams>>
  BY DEF IInv, Settle, At
<1>2. CASE queue[i] # {}
  <2>1. /\ inflight' = [inflight EXCEPT ![i] = queue[i]] /\ queue' = [queue EXCEPT ![i] = {}]
        /\ UNCHANGED ev
    BY <1>2 DEF Settle, Again, Queue
  <2>2. TypeOK' /\ BootOK' /\ ServedOK' /\ OwnSendsOnly'
    BY <1>1, <2>1 DEF IInv, TypeOK, BootOK, ServedOK, OwnSendsOnly
  <2>3. ASSUME NEW n \in DOMAIN sends PROVE SendOK(sends[n], n)'
    <3>1. sends[n] \in SendRecords /\ SendOK(sends[n], n)
      BY DEF IInv, SendsOK, TypeOK
    <3>2. sends[n].by \in Events
      BY <3>1 DEF SendRecords
    <3>3. sends[n].at = "flying" /\ n \in queue[sends[n].by] \cup inflight[sends[n].by]
            => n \in queue'[sends[n].by] \cup inflight'[sends[n].by]
      BY <1>1, <2>1, <3>2 DEF TypeOK
    <3> QED
      BY <1>1, <2>1, <3>1, <3>3 DEF SendOK, At, Scoped, Unattended
  <2> QED
    BY <1>1, <2>2, <2>3 DEF IInv, SendsOK
<1>3. CASE queue[i] = {}
  <2>1. ev' = [ev EXCEPT ![i].pc = "answered"] /\ UNCHANGED scopeVars
    BY <1>3 DEF Settle, Again, Queue
  <2>2. /\ ev' \in [Events -> EventRecords] /\ ev'[i].pc = "answered" /\ ev'[i].kind = ev[i].kind
        /\ \A j \in Events \ {i} : ev'[j] = ev[j]
    BY <1>1, <2>1 DEF TypeOK, EventRecords
  <2>3. ASSUME NEW n \in DOMAIN sends, sends[n].by = i, sends[n].at = "flying"
        PROVE  Unattended(sends[n])
    <3>1. sends[n] \in SendRecords /\ SendOK(sends[n], n)
      BY DEF IInv, SendsOK, TypeOK
    <3> QED
      BY <1>1, <1>3, <2>3, <3>1 DEF SendOK, SendRecords, Unattended, At
  <2> QED
    BY <1>1, <2>1, <2>2, <2>3, PlacesKeep DEF TypeOK, Unattended
<1> QED
  BY <1>2, <1>3

\* A timeout is a return, of a dispatch that no longer waits for its sends.
LEMMA TimedOutKeeps == ASSUME IInv, NEW i \in Events, TimedOut(i) PROVE IInv'
<1>1. TypeOK /\ ev[i].pc = "running" /\ ev[i].kind = "connect"
  BY DEF IInv, TimedOut, At
<1>2. /\ ev' \in [Events -> EventRecords] /\ ev'[i].pc = "settling" /\ ev'[i].kind = "connect"
      /\ \A j \in Events \ {i} : ev'[j] = ev[j]
  <2> DEFINE after == [ev[i] EXCEPT !.pc = "settling", !.lingers = TRUE]
  <2>1. after \in EventRecords /\ after.kind = "connect" /\ after.pc = "settling"
    BY <1>1 DEF TypeOK, EventRecords
  <2>2. ev' = [ev EXCEPT ![i] = after]
    BY <1>1 DEF TimedOut, Scoped
  <2> QED
    BY <1>1, <2>1, <2>2 DEF TypeOK
<1>3. /\ sends' \in Seq(SendRecords) /\ Len(sends') = Len(sends) /\ DOMAIN sends' = DOMAIN sends
      /\ \A n \in DOMAIN sends :
           sends'[n] = IF sends[n].by = i THEN [sends[n] EXCEPT !.waited = FALSE] ELSE sends[n]
  <2>1. \A n \in DOMAIN sends : sends[n] \in SendRecords
                              /\ [sends[n] EXCEPT !.waited = FALSE] \in SendRecords
    <3> SUFFICES ASSUME NEW n \in DOMAIN sends
                 PROVE  sends[n] \in SendRecords /\ [sends[n] EXCEPT !.waited = FALSE] \in SendRecords
      OBVIOUS
    <3>1. sends[n] \in SendRecords
      BY <1>1 DEF TypeOK
    <3> QED
      BY <3>1 DEF SendRecords
  <2>2. Len(sends) \in Nat /\ DOMAIN sends = 1..Len(sends)
    BY <1>1 DEF TypeOK
  <2>3. sends' = [n \in 1..Len(sends) |->
                    IF sends[n].by = i THEN [sends[n] EXCEPT !.waited = FALSE] ELSE sends[n]]
    BY <2>2 DEF TimedOut
  <2>4. sends' \in [1..Len(sends) -> SendRecords]
    BY <2>1, <2>2, <2>3
  <2>5. sends' \in Seq(SendRecords) /\ Len(sends') = Len(sends) /\ DOMAIN sends' = DOMAIN sends
    BY <2>2, <2>3, <2>4
  <2> QED
    BY <2>2, <2>3, <2>5
<1>4. TypeOK' /\ BootOK' /\ ServedOK'
  BY <1>1, <1>2, <1>3 DEF TimedOut, IInv, TypeOK, BootOK, ServedOK, scopeVars
<1>5. ASSUME NEW n \in DOMAIN sends PROVE SendOK(sends[n], n)'
  <2>1. sends[n] \in SendRecords /\ SendOK(sends[n], n) /\ UNCHANGED scopeVars
    BY <1>1 DEF IInv, SendsOK, TypeOK, TimedOut
  <2>2. CASE sends[n].by = i
    <3>1. /\ sends'[n].by = i /\ sends'[n].what = sends[n].what /\ ~sends'[n].waited
          /\ sends'[n].at = sends[n].at /\ sends'[n].outside = sends[n].outside
      BY <1>3, <2>1, <2>2 DEF SendRecords
    <3> QED
      BY <1>1, <1>2, <2>1, <2>2, <3>1 DEF SendOK, At, Scoped, Unattended, scopeVars
  <2>3. CASE sends[n].by # i
    <3>1. sends'[n] = sends[n] /\ sends[n].by \in Events \ {i}
      BY <1>3, <2>1, <2>3 DEF SendRecords
    <3> QED
      BY <1>2, <2>1, <3>1 DEF SendOK, At, Scoped, Unattended, scopeVars
  <2> QED
    BY <2>2, <2>3
<1>6. OwnSendsOnly'
  <2>1. \A n \in DOMAIN sends : sends'[n].by = sends[n].by
    <3> SUFFICES ASSUME NEW n \in DOMAIN sends PROVE sends'[n].by = sends[n].by
      OBVIOUS
    <3>1. sends[n] \in SendRecords
      BY <1>1 DEF TypeOK
    <3> QED
      BY <1>3, <3>1 DEF SendRecords
  <2> QED
    BY <1>3, <2>1 DEF IInv, OwnSendsOnly, TimedOut, scopeVars
<1> QED
  BY <1>3, <1>4, <1>5, <1>6 DEF IInv, SendsOK

\* What becomes of one send: it lands, or it is lost to a freeze.
LEMMA EndsKeep ==
    ASSUME IInv, NEW n \in 1..MaxSends, NEW end \in {"landed", "lost"}, n \in DOMAIN sends,
           sends' = [sends EXCEPT ![n].at = end],
           streams' \subseteq Events, UNCHANGED <<mode, boot, protocols, ev, scopeVars>>
    PROVE  IInv'
<1>1. TypeOK /\ sends[n] \in SendRecords
  BY DEF IInv, TypeOK
<1> DEFINE over == [sends[n] EXCEPT !.at = end]
<1>2. /\ over \in SendRecords /\ over.by = sends[n].by /\ over.what = sends[n].what
      /\ over.waited = sends[n].waited /\ over.outside = sends[n].outside /\ over.at = end
  BY <1>1 DEF SendRecords
<1>3. sends' = [sends EXCEPT ![n] = over]
  OBVIOUS
<1> HIDE DEF over
<1>4. /\ sends' \in Seq(SendRecords) /\ Len(sends') = Len(sends) /\ DOMAIN sends' = DOMAIN sends
      /\ \A m \in DOMAIN sends : sends'[m] = IF m = n THEN over ELSE sends[m]
  <2>1. Len(sends) \in Nat /\ DOMAIN sends = 1..Len(sends) /\ sends \in Seq(SendRecords)
    BY <1>1 DEF TypeOK
  <2>2. /\ sends' \in Seq(SendRecords) /\ Len(sends') = Len(sends)
        /\ \A m \in 1..Len(sends) : sends'[m] = IF m = n THEN over ELSE sends[m]
    BY <1>2, <1>3, <2>1, ExceptSeq
  <2> QED
    BY <2>1, <2>2
<1>5. TypeOK' /\ BootOK' /\ ServedOK'
  BY <1>1, <1>4 DEF IInv, TypeOK, BootOK, ServedOK, scopeVars
<1>6. OwnSendsOnly'
  BY <1>2, <1>4 DEF IInv, OwnSendsOnly, scopeVars
<1>7. ASSUME NEW m \in DOMAIN sends PROVE SendOK(sends[m], m)'
  <2>1. SendOK(sends[m], m)
    BY DEF IInv, SendsOK
  <2> QED
    BY <1>2, <1>4, <2>1 DEF SendOK, At, Scoped, Unattended, scopeVars
<1> QED
  BY <1>4, <1>5, <1>6, <1>7 DEF IInv, SendsOK

\* One more send, after any number of them that stayed what they are but for
\* having landed.
LEMMA OneMore ==
    ASSUME IInv, NEW i \in Events, NEW new \in SendRecords, new.by = i, new.at = "flying",
           ev[i].pc \in {"running", "settling"}, new.waited => ev[i].pc = "running",
           new.what = "frame" => ~new.outside /\ ~new.waited /\ Scoped(i),
           NEW before \in Seq(SendRecords), Len(before) = Len(sends), Len(before) < MaxSends,
           \A n \in DOMAIN sends :
             /\ before[n].by = sends[n].by /\ before[n].what = sends[n].what
             /\ before[n].waited = sends[n].waited /\ before[n].outside = sends[n].outside
             /\ before[n].at \in {"landed", sends[n].at},
           sends' = Append(before, new),
           queue' = [q \in Events |-> queue[q] \cup (IF q = i /\ new.what = "frame"
                                                  THEN {Len(sends) + 1} ELSE {})],
           UNCHANGED <<mode, boot, protocols, ev, inflight, streams>>
    PROVE  IInv'
<1> DEFINE N == Len(sends) + 1
<1>1. TypeOK /\ Len(sends) \in Nat /\ DOMAIN sends = 1..Len(sends)
  BY DEF IInv, TypeOK
<1>2. /\ sends' \in Seq(SendRecords) /\ Len(sends') = N /\ sends'[N] = new
      /\ \A n \in 1..Len(sends) : sends'[n] = before[n]
  BY <1>1, AppendProperties
<1>3. DOMAIN sends' = 1..N /\ 1..N = (DOMAIN sends) \cup {N} /\ N \notin DOMAIN sends
  BY <1>1, <1>2
<1>4. /\ N \in DOMAIN sends' /\ DOMAIN sends \subseteq DOMAIN sends'
      /\ DOMAIN sends' = (DOMAIN sends) \cup {N}
      /\ queue' = [q \in Events |-> queue[q] \cup (IF q = i /\ new.what = "frame" THEN {N} ELSE {})]
      /\ sends'[N] = new /\ \A n \in DOMAIN sends : sends'[n] = before[n]
  BY <1>1, <1>2, <1>3
<1>5. N <= MaxSends
  BY <1>1
<1> HIDE DEF N
<1>6. TypeOK'
  BY <1>1, <1>2, <1>4, <1>5 DEF TypeOK
<1>7. BootOK' /\ ServedOK'
  BY DEF IInv, BootOK, ServedOK
<1>8. ASSUME NEW n \in DOMAIN sends PROVE SendOK(sends[n], n)'
  <2>1. SendOK(sends[n], n) /\ sends[n] \in SendRecords
    BY <1>1 DEF IInv, SendsOK, TypeOK
  <2>2. sends[n].by \in Events
    BY <2>1 DEF SendRecords
  <2>3. queue[sends[n].by] \subseteq queue'[sends[n].by]
    BY <1>4, <2>2
  <2>4. /\ sends'[n].by = sends[n].by /\ sends'[n].what = sends[n].what
        /\ sends'[n].waited = sends[n].waited /\ sends'[n].outside = sends[n].outside
        /\ sends'[n].at \in {"landed", sends[n].at}
    BY <1>4
  <2> QED
    BY <2>1, <2>3, <2>4 DEF SendOK, At, Scoped, Unattended
<1>9. ASSUME NEW n, n = N PROVE SendOK(sends[n], n)'
  <2>1. sends'[n] = new /\ new.what \in {"frame", "record", "raw"} /\ new.waited \in BOOLEAN
    BY <1>4, <1>9 DEF SendRecords
  <2>2. new.what = "frame" => n \in queue'[i]
    BY <1>4, <1>9
  <2>3. UNCHANGED <<ev, inflight>> /\ ev[i].pc \in {"running", "settling"}
    OBVIOUS
  <2> QED
    BY <2>1, <2>2, <2>3 DEF SendOK, At, Scoped, Unattended
<1>10. OwnSendsOnly'
  <2> SUFFICES ASSUME NEW j \in Events, NEW n \in DOMAIN sends', n \in queue'[j] \cup inflight'[j]
               PROVE  sends'[n].by = j
    BY DEF OwnSendsOnly
  <2>1. CASE n \in DOMAIN sends
    BY <2>1, <1>3, <1>4 DEF IInv, OwnSendsOnly
  <2>2. CASE n = N
    BY <2>2, <1>1, <1>3, <1>4 DEF TypeOK
  <2> QED
    BY <2>1, <2>2, <1>4
<1>11. SendsOK'
  BY <1>4, <1>8, <1>9 DEF SendsOK
<1> QED
  BY <1>6, <1>7, <1>10, <1>11 DEF IInv

\* A call outside of any scope is awaited by the handler that makes it, or by nobody.
LEMMA DirectKeeps ==
    ASSUME IInv, NEW i \in Events, NEW what \in {"record", "raw"}, NEW waited \in BOOLEAN,
           Direct(i, what, waited)
    PROVE  IInv'
<1> DEFINE new == [what |-> what, by |-> i, at |-> "flying", waited |-> waited,
                   outside |-> Outside(i), to |-> i]
<1>1. /\ new \in SendRecords /\ new.by = i /\ new.at = "flying" /\ new.what # "frame"
  BY DEF SendRecords, Outside, At
<1>2. /\ ev[i].pc = "running" /\ Len(sends) < MaxSends /\ sends' = Append(sends, new)
      /\ UNCHANGED <<mode, boot, protocols, ev, inflight, streams>>
  BY DEF Direct, At, scopeVars
<1>3. queue' = [q \in Events |-> queue[q] \cup (IF q = i /\ new.what = "frame"
                                             THEN {Len(sends) + 1} ELSE {})]
  <2>1. queue = [q \in Events |-> queue[q] \cup {}]
    BY DEF IInv, TypeOK
  <2> QED
    BY <1>1, <2>1 DEF Direct, scopeVars
<1>4. sends \in Seq(SendRecords)
  BY DEF IInv, TypeOK
<1> HIDE DEF new
<1> QED
  BY <1>1, <1>2, <1>3, <1>4, OneMore

\* Broadcasts, and the answers of GraphQL.
LEMMA BroadcastKeeps ==
    ASSUME IInv, NEW i \in Events, AnswerRaw(i) \/ \E waited \in BOOLEAN : Broadcast(i, waited)
    PROVE  IInv'
<1>1. CASE AnswerRaw(i)
  BY <1>1, DirectKeeps DEF AnswerRaw
<1>2. CASE \E waited \in BOOLEAN : Broadcast(i, waited)
  BY <1>2, DirectKeeps DEF Broadcast
<1> QED
  BY <1>1, <1>2

\* A send that lands may bring about another one, of the same dispatch.
LEMMA ReactKeeps == ASSUME IInv, NEW n \in 1..MaxSends, LandAndReact(n) PROVE IInv'
<1> DEFINE i == sends[n].by
           new == [sends[n] EXCEPT !.waited = FALSE, !.outside = FALSE, !.to = i]
           over == [sends[n] EXCEPT !.at = "landed"]
           landed == [sends EXCEPT ![n] = over]
<1>1. /\ TypeOK /\ n \in DOMAIN sends /\ sends[n] \in SendRecords /\ SendOK(sends[n], n)
      /\ sends[n].at = "flying" /\ sends[n].what = "frame" /\ ~Outside(i)
      /\ Len(sends) < MaxSends
  BY DEF IInv, SendsOK, TypeOK, LandAndReact, Flying
<1>2. i \in Events
  BY <1>1 DEF SendRecords
<1>3. /\ ev[i].pc \in {"running", "settling"} /\ Scoped(i)
  <2>1. ev[i] \in EventRecords /\ ev[i].pc \notin {"none", "waiting"}
    BY <1>1, <1>2 DEF TypeOK, SendOK
  <2>2. ev[i].pc \in {"running", "settling"}
    BY <1>1, <2>1 DEF EventRecords, Outside, At
  <2>3. ev[i].kind \in Kinds /\ ev[i].kind # "odd"
    BY <1>2, <2>1, <2>2 DEF EventRecords, IInv, ServedOK
  <2> QED
    BY <1>1, <2>2, <2>3 DEF Kinds, Outside, Scoped
<1>4. /\ new \in SendRecords /\ new.by = i /\ new.at = "flying" /\ new.what = "frame"
      /\ ~new.outside /\ ~new.waited
  BY <1>1, <1>2 DEF SendRecords
<1>5. /\ over \in SendRecords /\ over.by = sends[n].by /\ over.what = sends[n].what
      /\ over.waited = sends[n].waited /\ over.outside = sends[n].outside /\ over.at = "landed"
  BY <1>1 DEF SendRecords
<1>6. sends' = Append(landed, new)
  BY DEF LandAndReact
<1>7. queue' = [q \in Events |-> queue[q] \cup (IF q = i /\ new.what = "frame"
                                             THEN {Len(sends) + 1} ELSE {})]
  <2>1. queue' = [queue EXCEPT ![i] = queue[i] \cup {Len(sends) + 1}]
    BY <1>3 DEF LandAndReact, Queue
  <2> QED
    BY <1>1, <1>2, <1>4, <2>1 DEF TypeOK
<1>8. UNCHANGED <<mode, boot, protocols, ev, inflight, streams>>
  BY DEF LandAndReact
<1> HIDE DEF new, over
<1>9. /\ landed \in Seq(SendRecords) /\ Len(landed) = Len(sends)
      /\ \A m \in DOMAIN sends : landed[m] = IF m = n THEN over ELSE sends[m]
  <2>1. Len(sends) \in Nat /\ DOMAIN sends = 1..Len(sends) /\ sends \in Seq(SendRecords)
    BY <1>1 DEF TypeOK
  <2> QED
    BY <1>1, <1>5, <2>1, ExceptSeq
<1> HIDE DEF landed
<1>10. \A m \in DOMAIN sends :
         /\ landed[m].by = sends[m].by /\ landed[m].what = sends[m].what
         /\ landed[m].waited = sends[m].waited /\ landed[m].outside = sends[m].outside
         /\ landed[m].at \in {"landed", sends[m].at}
  BY <1>5, <1>9
<1> HIDE DEF i
<1> QED
  BY <1>1, <1>2, <1>3, <1>4, <1>6, <1>7, <1>8, <1>9, <1>10, OneMore

\* A send ends in the ordinary way, and its client's stream may end with it.
LEMMA LandKeeps == ASSUME IInv, NEW n \in 1..MaxSends, Land(n) PROVE IInv'
<1>1. /\ n \in DOMAIN sends /\ sends' = [sends EXCEPT ![n].at = "landed"]
      /\ streams' \in {streams, streams \ {sends[n].to}}
      /\ UNCHANGED <<mode, boot, protocols, ev, scopeVars>>
  BY DEF Land, Flying
<1>2. streams' \subseteq Events
  BY <1>1 DEF IInv, TypeOK
<1> QED
  BY <1>1, <1>2, EndsKeep

\* A send half way when the process is frozen ends there.
LEMMA FreezeKeeps == ASSUME IInv, NEW n \in 1..MaxSends, FrozenMid(n) PROVE IInv'
<1>1. /\ n \in DOMAIN sends /\ sends' = [sends EXCEPT ![n].at = "lost"]
      /\ UNCHANGED <<mode, boot, protocols, ev, scopeVars, streams>>
  BY DEF FrozenMid, Flying
<1>2. streams' \subseteq Events
  BY <1>1 DEF IInv, TypeOK
<1> QED
  BY <1>1, <1>2, EndsKeep

\* Every step of Next leaves the invariant as it is.
LEMMA NextKeeps == IInv /\ [Next]_vars => IInv'
<1> SUFFICES ASSUME IInv, [Next]_vars PROVE IInv'
  OBVIOUS
<1>1. CASE AdapterMade \/ SchemaMade \/ BootFails
  BY <1>1, BootKeeps
<1>2. CASE \E i \in Events : (\E kind \in Kinds : Arrive(i, kind)) \/ Begin(i) \/ Poisoned(i)
  BY <1>2, BeginsKeep
<1>3. CASE \E i \in Events : Emit(i) \/ Answer(i) \/ Push(i) \/ Late(i)
  BY <1>3, SendersKeep
<1>4. CASE \E i \in Events : AnswerRaw(i) \/ \E waited \in BOOLEAN : Broadcast(i, waited)
  BY <1>4, BroadcastKeeps
<1>5. CASE \E i \in Events : \E lingers, observable \in BOOLEAN : Return(i, lingers, observable)
  BY <1>5, ReturnKeeps
<1>6. CASE \E i \in Events : TimedOut(i)
  BY <1>6, TimedOutKeeps
<1>7. CASE \E i \in Events : Settle(i)
  BY <1>7, SettleKeeps
<1>8. CASE \E n \in 1..MaxSends : Land(n)
  BY <1>8, LandKeeps
<1>9. CASE \E n \in 1..MaxSends : LandAndReact(n)
  BY <1>9, ReactKeeps
<1>10. CASE \E n \in 1..MaxSends : FrozenMid(n)
  BY <1>10, FreezeKeeps
<1>11. CASE UNCHANGED vars
  BY <1>11 DEF vars, scopeVars, IInv, TypeOK, BootOK, ServedOK, SendsOK, SendOK, OwnSendsOnly,
               At, Scoped, Unattended
<1> QED
  BY <1>1, <1>2, <1>3, <1>4, <1>5, <1>6, <1>7, <1>8, <1>9, <1>10, <1>11 DEF Next

\* The invariant holds in every behaviour.
LEMMA Inductive == Spec => []IInv
<1> QED
  BY InitIInv, NextKeeps, PTL DEF Spec

-----------------------------------------------------------------------------
(* What follows                                                            *)

\* The process is always in one of the states its module describes.
THEOREM TypeCorrect == Spec => []TypeOK
<1>1. IInv => TypeOK
  BY DEF IInv
<1> QED
  BY <1>1, Inductive, PTL

\* However many sends a dispatch makes and others make for it, and whatever they
\* enqueue while they are awaited, an answer comes after all it must await.
THEOREM SendsAreSettled == Spec => []SendsSettled
<1>1. IInv => SendsSettled
  BY DEF IInv, SendsOK, SendOK, SendsSettled
<1> QED
  BY <1>1, Inductive, PTL

\* The scopes of requests served next to each other never hold each other's sends.
THEOREM OwnSends == Spec => []OwnSendsOnly
<1>1. IInv => OwnSendsOnly
  BY DEF IInv
<1> QED
  BY <1>1, Inductive, PTL

\* A boot that fails half way, and every event after it, register nothing twice.
THEOREM Registered == Spec => []RegisteredOnce
<1>1. IInv => RegisteredOnce
  <2> SUFFICES ASSUME IInv PROVE RegisteredOnce
    OBVIOUS
  <2>1. Len(protocols) \in {0, 1, 2} /\ DOMAIN protocols = 1..Len(protocols)
    <3>1. protocols \in Seq({"nest", "gql"}) /\ Len(protocols) <= 2
      BY DEF IInv, TypeOK
    <3>2. Len(protocols) \in Nat /\ DOMAIN protocols = 1..Len(protocols)
      BY <3>1
    <3> QED
      BY <3>1, <3>2
  <2>2. Len(protocols) = 2 => protocols[1] = "nest" /\ protocols[2] = "gql"
    <3>1. boot \in {"cold", "booting"} => Len(protocols) = 0
      <4>1. boot \in {"cold", "booting"} => protocols = <<>>
        BY DEF IInv, BootOK
      <4> QED
        BY <4>1
    <3> QED
      BY <2>1, <3>1 DEF IInv, BootOK, TypeOK
  <2> QED
    BY <2>1, <2>2 DEF RegisteredOnce
<1> QED
  BY <1>1, Inductive, PTL

\* Whenever an event comes, before, during or after the boot, its frame goes to
\* the protocol it was written for.
THEOREM Routed == Spec => []RoutedToOwner
<1>1. Init => RoutedToOwner
  BY DEF Init, RoutedToOwner, Absent
<1>2. IInv /\ RoutedToOwner /\ [Next]_vars => RoutedToOwner'
  <2> SUFFICES ASSUME IInv, RoutedToOwner, [Next]_vars PROVE RoutedToOwner'
    OBVIOUS
  <2> DEFINE Same(j) == ev'[j].claimed = ev[j].claimed /\ ev'[j].kind = ev[j].kind
  <2>1. ev \in [Events -> EventRecords]
    BY DEF IInv, TypeOK
  <2>2. ASSUME NEW i \in Events, \E kind \in Kinds : Arrive(i, kind)
        PROVE  RoutedToOwner'
    BY <2>1, <2>2 DEF Arrive, RoutedToOwner, Absent
  <2>3. ASSUME NEW i \in Events, Begin(i)
        PROVE  RoutedToOwner'
    <3> DEFINE kind == ev[i].kind
    <3>1. Claimant(kind) = IF kind = "gql" THEN "gql" ELSE "nest"
      BY <2>3, ClaimantIs DEF IInv, Begin
    <3>2. /\ ev'[i].kind = kind /\ \A j \in Events \ {i} : ev'[j] = ev[j]
          /\ ev'[i].claimed = IF kind \in {"frame", "gql"} THEN Claimant(kind) ELSE ev[i].claimed
      BY <2>1, <2>3 DEF Begin, EventRecords
    <3> QED
      BY <3>1, <3>2 DEF RoutedToOwner
  <2>4. ASSUME NEW i \in Events,
               \/ Poisoned(i) \/ TimedOut(i) \/ Late(i) \/ Settle(i)
               \/ \E lingers, observable \in BOOLEAN : Return(i, lingers, observable)
        PROVE  \A j \in Events : Same(j)
    <3>1. CASE Poisoned(i)
      BY <2>1, <3>1 DEF Poisoned, EventRecords
    <3>2. CASE TimedOut(i)
      BY <2>1, <3>2 DEF TimedOut, EventRecords
    <3>3. CASE Late(i)
      BY <2>1, <3>3 DEF Late, EventRecords
    <3>4. CASE Settle(i)
      BY <2>1, <3>4 DEF Settle, EventRecords
    <3>5. CASE \E lingers, observable \in BOOLEAN : Return(i, lingers, observable)
      BY <2>1, <3>5 DEF Return, EventRecords
    <3> QED
      BY <2>4, <3>1, <3>2, <3>3, <3>4, <3>5
  <2>5. ASSUME \/ AdapterMade \/ SchemaMade \/ BootFails \/ UNCHANGED vars
               \/ \E i \in Events : \/ Emit(i) \/ Answer(i) \/ AnswerRaw(i) \/ Push(i)
                                   \/ \E waited \in BOOLEAN : Broadcast(i, waited)
               \/ \E n \in 1..MaxSends : Land(n) \/ LandAndReact(n) \/ FrozenMid(n)
        PROVE  UNCHANGED ev
    BY <2>5 DEF AdapterMade, SchemaMade, BootFails, vars, Emit, Answer, AnswerRaw, Push, Broadcast,
                Direct, Land, LandAndReact, FrozenMid
  <2>6. (\A j \in Events : Same(j)) => RoutedToOwner'
    BY DEF RoutedToOwner
  <2>7. UNCHANGED ev => RoutedToOwner'
    BY DEF RoutedToOwner
  <2> HIDE DEF Same
  <2> QED
    BY <2>2, <2>3, <2>4, <2>5, <2>6, <2>7 DEF Next
<1> QED
  BY <1>1, <1>2, Inductive, PTL DEF Spec
=============================================================================
