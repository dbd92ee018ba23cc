\* No failure at all: a client that subscribes twice under one id, to other
\* topics, leaves rows that no $disconnect deletes.
SPECIFICATION Spec
CONSTANTS
  k1 = k1
  k2 = k2
  a = a
  b = b
  Tasks <- MCTasks
  Topics <- MCTopics
  NIds = 1
  PageSize = 1
  Rejected <- MCRejected
  Faults = {}
  MaxFaults = 0
  MaxStarts = 2
  MaxMessages = 1
SYMMETRY Symmetry
INVARIANT DisconnectDeletes
CHECK_DEADLOCK FALSE
