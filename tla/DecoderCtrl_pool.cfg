\* Two clients and a purge.  The purge and a client can wait for each other
\* forever (see DecoderCtrl_purge.cfg): deadlock is not checked here.
CONSTANTS
  Clients = {c1, c2}
  Admins = {a1}
  Objects = {o0, o1, o2, o3}
  Root = o0
  Ids = {f1, f2}
  Fmts = {rgb}
  DefaultFmt = rgb
  NoFmt = NoFmt
  Requests <- Decode
  MaxObjects = 2
  EagerObjects = 4
  Timeout = 1
  None = None
SPECIFICATION Spec
SYMMETRY Symmetric
CHECK_DEADLOCK FALSE
INVARIANTS TypeOK PurgeExclusive PoolBound
