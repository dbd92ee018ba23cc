------------------------------ MODULE MCOutbox ------------------------------
(* Instances of Outbox for TLC. *)
EXTENDS Outbox, TLC

\* Every message to one topic, or each message to a topic of its own.
OneTopic == [m \in Msgs |-> CHOOSE t \in Topics : TRUE]
OneTopicEach == CHOOSE f \in [Msgs -> Topics] : \A m, n \in Msgs : f[m] = f[n] => m = n

\* Invocations are interchangeable, and so are topics together with their
\* messages (no liveness is checked with it).
TopicSwaps == {<<p, q>> \in Permutations(Msgs) \X Permutations(Topics) :
                 \A m \in Msgs : TopicOf[p[m]] = q[TopicOf[m]]}
Symmetry == Permutations(Runs) \cup {swap[1] @@ swap[2] : swap \in TopicSwaps}
=============================================================================
