\* Everything at once: replaced, failed, invalidated and cleared lines.  The
\* model stops where a thread follows a pointer to a freed line, so a state
\* without a successor is not an error here.
CONSTANTS
  Threads = {t1, t2, t3}
  Lines = {l1, l2, l3}
  Ids = {f1, f2}
  Frames = {a}
  CacheSize = 2
  Timeout = 2
  KeepRaw = FALSE
  AllowClear = TRUE
  DecodeResults <- MayFail
  None = None
  Black = Black
SPECIFICATION Spec
SYMMETRY Symmetric
CHECK_DEADLOCK FALSE
INVARIANTS TypeOK CacheBound RefcntExact ErrorsNotCached
PROPERTY ServedPinned
