\* A key is triggered again while its check is in flight; in-memory store,
\* no failure, no crash, batches that fit into the lease.
SPECIFICATION Spec
CONSTANTS
  s1 = s1
  Slot = {s1}
  b1 = b1 b2 = b2
  Batch = {b1, b2}
  NoRecord = NoRecord  NoLease = NoLease  NoDeadline = NoDeadline  NoRegistry = NoRegistry
  Registries <- AllRegistered
  Delay = 1  Deadline = 3  After = {1}
  PollMs = 1  MinLease = 3  EvalTimeout = 1
  Limit = 2  MaxAttempts = 2
  Durable = FALSE  StoreLatency = FALSE  WriteLag = 0  StoreMayFail = FALSE
  Supersede = TRUE
  MaxTriggers = 2  QuietAfter = 4  MaxCrashes = 0  MaxStops = 0  MaxTime = 8
PROPERTIES RemovedByItsOwnBatch
