\* Two requests for the same frame in the default configuration (no KEEPRAW).
CONSTANTS
  Threads = {t1, t2}
  Lines = {l1}
  Ids = {f1}
  Frames = {a}
  CacheSize = 1
  Timeout = 1
  KeepRaw = FALSE
  AllowClear = FALSE
  DecodeResults <- NeverFails
  None = None
  Black = Black
SPECIFICATION Spec
INVARIANT NoTouchFreed
