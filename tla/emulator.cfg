\* One socket and two reloads, which may overlap or fail. Sockets share nothing
\* but the instances they are served on.
SPECIFICATION Spec
CONSTANTS
  Conns = {c1}
  Errors <- MCErrors
  Faults = {"reload", "handshake"}
  MaxReloads = 2
INVARIANTS TypeOK LeavesNoRows OpenIsKnown GraphQLNegotiated OneInstance
PROPERTY Forgotten
CHECK_DEADLOCK FALSE
