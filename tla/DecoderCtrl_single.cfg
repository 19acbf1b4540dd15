\* One client at a time, two concurrent purges.
CONSTANTS
  Clients = {c1}
  Admins = {a1, a2}
  Objects = {o0, o1, o2}
  Root = o0
  Ids = {f1, f2}
  Fmts = {rgb, yuv}
  DefaultFmt = rgb
  NoFmt = NoFmt
  Requests <- EveryRequest
  MaxObjects = 3
  EagerObjects = 2
  Timeout = 2
  None = None
SPECIFICATION Spec
SYMMETRY Symmetric
CHECK_DEADLOCK FALSE
INVARIANTS NoDanglingObject OpenMatchesId DecoderForRequest IndexSound
