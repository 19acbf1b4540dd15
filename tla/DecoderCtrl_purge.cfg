\* One client and one purge.
CONSTANTS
  Clients = {c1}
  Admins = {a1}
  Objects = {o0, o1}
  Root = o0
  Ids = {f1}
  Fmts = {rgb}
  DefaultFmt = rgb
  NoFmt = NoFmt
  Requests <- EveryRequest
  MaxObjects = 1
  EagerObjects = 4
  Timeout = 2
  None = None
SPECIFICATION FairSpec
CHECK_DEADLOCK FALSE
PROPERTY PurgeCompletes
