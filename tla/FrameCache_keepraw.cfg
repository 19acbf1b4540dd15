\* Steady operation with KEEPRAW: frames are only replaced, never freed.
CONSTANTS
  Threads = {t1, t2, t3}
  Lines = {l1, l2}
  Ids = {f1}
  Frames = {a, b}
  CacheSize = 2
  Timeout = 2
  KeepRaw = TRUE
  AllowClear = FALSE
  DecodeResults <- NeverFails
  None = None
  Black = Black
SPECIFICATION FairSpec
INVARIANTS ValidMatchesKey NoTouchFreed
PROPERTIES Answered ServesAsAsked
