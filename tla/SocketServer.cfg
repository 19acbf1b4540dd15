\* Three clients for two places.  The daemon may end, so a state without a
\* successor is not an error.
CONSTANTS
  Conns = {c1, c2, c3}
  MaxConnections = 2
  ConTimeout = 1
  IdleTimeout = 1
  ShutdownTries = 2
  SelectFails = TRUE
  Nobody = Nobody
SPECIFICATION FairSpec
CHECK_DEADLOCK FALSE
INVARIANTS TypeOK ClientsCounted ConnectionLimit
PROPERTIES ShutdownCompletes ConnectionEnds
