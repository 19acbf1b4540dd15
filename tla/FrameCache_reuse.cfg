\* One thread, one cache-line, decoder errors.
CONSTANTS
  Threads = {t1}
  Lines = {l1}
  Ids = {f1}
  Frames = {a, b}
  CacheSize = 1
  Timeout = 1
  KeepRaw = TRUE
  AllowClear = FALSE
  DecodeResults <- MayFail
  None = None
  Black = Black
SPECIFICATION Spec
INVARIANT ValidMatchesKey
