\* Two clients, two invocations at a time and three frames in all, over a
\* conversation and a post there are already and two items more; two items fill a
\* page, and one invocation may crash or read what is no longer the latest.
SPECIFICATION Spec
CONSTANTS
  Clients = {c1, c2}
  Tasks = {k1, k2}
  PageSize = 2
  Faults = {"crash", "stale"}
  MaxFaults = 1
  MaxFrames = 3
  MaxItems = 4
SYMMETRY Symmetry
INVARIANTS TypeOK CaughtUp SubscribedHears OnlyTheConversation DeletionsReach AckedIsAnnounced
CHECK_DEADLOCK FALSE
