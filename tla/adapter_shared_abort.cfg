\* The promise of a flight follows the signal of the call that started it.
SPECIFICATION Spec
CONSTANTS
  c1 = c1 c2 = c2
  Call = {c1, c2}
  k1 = k1
  Key = {k1}
  NoCall = NoCall
  Cached = TRUE  Ttl = 9  CacheMax = 2
  Concurrency = 2
  HasBreaker = FALSE  Pct = 0  ResetMs = 0
  MaxTries = 2  Backoff = 1  Jitter = FALSE
  MaxTime = 1
SYMMETRY CallSymmetry
PROPERTIES NoForeignAbort
