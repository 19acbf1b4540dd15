\* Two clients that ask for different files.
CONSTANTS
  Clients = {c1, c2}
  Admins = {}
  Objects = {o0, o1, o2}
  Root = o0
  Ids = {f1, f2}
  Fmts = {rgb}
  DefaultFmt = rgb
  NoFmt = NoFmt
  Requests <- EveryRequest
  MaxObjects = 2
  EagerObjects = 4
  Timeout = 2
  None = None
SPECIFICATION Spec
CHECK_DEADLOCK FALSE
INVARIANT OpenMatchesId
