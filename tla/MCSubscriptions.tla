-------------------------- MODULE MCSubscriptions --------------------------
(***************************************************************************)
(* Small instances of Subscriptions for TLC.                               *)
(***************************************************************************)
EXTENDS Subscriptions, TLC

CONSTANTS k1, k2, a, b

MCTasks  == {k1, k2}
MCTopics == {a, b}
MCRejected == {<<1, 2>>}
Symmetry == Permutations(MCTasks) \cup Permutations(MCTopics)

\* An excuse is for ever, so nothing after it can break a property.
Unexcused == excuses \subseteq {"lostBye", "overtaken"}
=============================================================================
