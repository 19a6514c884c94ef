\* One trigger at a time per key and batches that fit into the lease:
\* Cardinality(Slot) * EvalTimeout < MinLease.
SPECIFICATION Spec
CONSTANTS
  s1 = s1 s2 = s2
  Slot = {s1, s2}
  b1 = b1 b2 = b2 b3 = b3
  Batch = {b1, b2, b3}
  NoRecord = NoRecord  NoLease = NoLease  NoDeadline = NoDeadline  NoRegistry = NoRegistry
  Registries <- AllRegistered
  Delay = 1  Deadline = 3  After = {1}
  PollMs = 1  MinLease = 3  EvalTimeout = 1
  Limit = 2  MaxAttempts = 2
  Durable = TRUE  StoreLatency = FALSE  WriteLag = 0  StoreMayFail = FALSE
  Supersede = FALSE
  MaxTriggers = 2  QuietAfter = 5  MaxCrashes = 0  MaxStops = 1  MaxTime = 8
SYMMETRY Symmetric
INVARIANTS TypeOK OwnsWhatItHandles NotBeforeDelay AttemptsOnlyForPending
PROPERTIES RemovedByItsOwnBatch ImplementsDecisions
