\* Semaphore, breaker and retry without a cache, as for write-side integrations.
SPECIFICATION Spec
CONSTANTS
  c1 = c1 c2 = c2 c3 = c3 c4 = c4
  Call = {c1, c2, c3, c4}
  k1 = k1
  Key = {k1}
  NoCall = NoCall
  Cached = FALSE  Ttl = 0  CacheMax = 0
  Concurrency = 2
  HasBreaker = TRUE  Pct = 50  ResetMs = 1
  MaxTries = 2  Backoff = 1  Jitter = FALSE
  MaxTime = 1
SYMMETRY CallSymmetry
INVARIANTS TypeOK SlotsAccounted WaitersAreAlive HalfOpenHasProbe ClosedMeansHealthy
PROPERTIES NoRetryAfterAbort ImplementsSemaphore
