\* Two events on one process, three sends, both ways to run; in lambda mode a
\* bootstrap may fail.
SPECIFICATION Spec
CONSTANTS
  Modes = {"lambda", "http"}
  NEvents = 2
  MaxSends = 3
  BootFaults = TRUE
INVARIANTS TypeOK SendsSettled OwnSendsOnly RoutedToOwner RegisteredOnce
CHECK_DEADLOCK FALSE
