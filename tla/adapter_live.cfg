\* A cache of one entry with a short TTL in front of one slot; methods may hang until they are aborted.
SPECIFICATION FairSpec
CONSTANTS
  c1 = c1 c2 = c2 c3 = c3
  Call = {c1, c2, c3}
  k1 = k1 k2 = k2
  Key = {k1, k2}
  NoCall = NoCall
  Cached = TRUE  Ttl = 1  CacheMax = 1
  Concurrency = 1
  HasBreaker = TRUE  Pct = 50  ResetMs = 1
  MaxTries = 1  Backoff = 0  Jitter = FALSE
  MaxTime = 1
INVARIANTS CacheServesNoFailure
PROPERTIES EveryCallSettles
