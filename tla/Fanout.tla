------------------------------- MODULE Fanout -------------------------------
(***************************************************************************)
(* What durable fan-out promises its users, without tables, streams or     *)
(* invocations: a message published to a topic reaches every subscriber it *)
(* is owed to exactly once before the message is settled, except where a   *)
(* named failure waives the promise for a (message, subscriber) pair.      *)
(***************************************************************************)
EXTENDS Naturals

CONSTANTS Msgs, Subs

VARIABLES
    owed,      \* pairs <<m, c>>: c subscribed when m was published and stays
    got,       \* got[m][c]: frames of m that reached the socket of c
    waived,    \* pairs a failure took out of the promise
    settled    \* messages nothing will be attempted for any more

fvars == <<owed, got, waived, settled>>

Pairs == Msgs \X Subs

FInit ==
    /\ owed = {}
    /\ got = [m \in Msgs |-> [c \in Subs |-> 0]]
    /\ waived = {}
    /\ settled = Msgs      \* an unpublished message has nothing outstanding

\* A message becomes owed to the subscribers of its topic.
FPublish(m) ==
    /\ m \in settled
    /\ \A c \in Subs : got[m][c] = 0 /\ <<m, c>> \notin owed
    /\ settled' = settled \ {m}
    /\ \E S \in SUBSET Subs : owed' = owed \cup ({m} \X S)
    /\ UNCHANGED <<got, waived>>

\* One frame reaches one subscriber: the first one, unless waived before. The
\* step that makes a second frame possible (an answer that was lost) waives.
FDeliver(m, c) ==
    /\ m \notin settled
    /\ got[m][c] = 0 \/ <<m, c>> \in waived
    /\ got' = [got EXCEPT ![m][c] = @ + 1]
    /\ waived' \in {waived, waived \cup {<<m, c>>}}
    /\ UNCHANGED <<owed, settled>>

\* One subscriber leaves or its socket closes: nothing is owed to it any more.
FForget(c) ==
    /\ owed' \subseteq owed
    /\ \A p \in owed \ owed' : p[2] = c
    /\ UNCHANGED <<got, waived, settled>>

\* Messages are settled once every pair owed was served or waived, and waiving
\* may be what settles them (a record moved to the dead-letter queue).
FSettle ==
    /\ waived \subseteq waived' /\ waived' \subseteq Pairs
    /\ settled \subseteq settled' /\ settled' \subseteq Msgs
    /\ \A m \in settled' \ settled : \A c \in Subs :
         <<m, c>> \in owed => got[m][c] > 0 \/ <<m, c>> \in waived'
    /\ UNCHANGED <<owed, got>>

FNext ==
    \/ \E m \in Msgs : FPublish(m)
    \/ \E m \in Msgs, c \in Subs : FDeliver(m, c)
    \/ \E c \in Subs : FForget(c)
    \/ FSettle

\* The contract: the safety above, and every message is settled in the end.
FSpec == FInit /\ [][FNext]_fvars /\ \A m \in Msgs : []<>(m \in settled)
=============================================================================
