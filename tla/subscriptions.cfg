\* One socket, two ids, two topics, one row a page: whatever the client does in
\* two frames, with one message and one failure, and what heals after it. No
\* symmetry: liveness. The system may stop: a socket's life ends.
SPECIFICATION FairSpec
CONSTANTS
  k1 = k1
  k2 = k2
  a = a
  b = b
  Tasks <- MCTasks
  Topics <- MCTopics
  NIds = 2
  PageSize = 1
  Rejected <- MCRejected
  Faults = {"row", "send", "crash", "drift", "lostBye"}
  MaxFaults = 1
  MaxStarts = 2
  MaxMessages = 1
CONSTRAINT Unexcused
INVARIANTS TypeOK RegistryMatchesClient Served
PROPERTY Heals
CHECK_DEADLOCK FALSE
