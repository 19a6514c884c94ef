\* Every decision is taken: a durable store, a crash, checks that pass, skip,
\* throw, postpone themselves, hang or fail, and stop() at any moment.  QuietAfter leaves the last
\* decision the time it may need before MaxTime.
SPECIFICATION FairSpec
CONSTANTS
  s1 = s1 s2 = s2
  Slot = {s1, s2}
  b1 = b1 b2 = b2
  Batch = {b1, b2}
  NoRecord = NoRecord  NoLease = NoLease  NoDeadline = NoDeadline  NoRegistry = NoRegistry
  Registries <- AllRegistered
  Delay = 1  Deadline = 3  After = {1}
  PollMs = 1  MinLease = 2  EvalTimeout = 1
  Limit = 2  MaxAttempts = 2
  Durable = TRUE  StoreLatency = FALSE  WriteLag = 0  StoreMayFail = FALSE
  Supersede = TRUE
  MaxTriggers = 1  QuietAfter = 1  MaxCrashes = 1  MaxStops = 1  MaxTime = 14
PROPERTIES EventuallyDecided StopResolves
