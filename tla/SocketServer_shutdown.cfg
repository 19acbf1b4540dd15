\* One client and the patience of the real shutdown.
CONSTANTS
  Conns = {c1}
  MaxConnections = 1
  ConTimeout = 1
  IdleTimeout = 0
  ShutdownTries = 31
  SelectFails = FALSE
  Nobody = Nobody
SPECIFICATION Spec
CHECK_DEADLOCK FALSE
CONSTRAINT AgeBound
INVARIANT DaemonOutlivesHandlers
