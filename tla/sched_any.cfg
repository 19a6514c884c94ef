\* Everything that can happen to the worker over a durable store.
SPECIFICATION Spec
CONSTANTS
  s1 = s1 s2 = s2
  Slot = {s1, s2}
  b1 = b1 b2 = b2
  Batch = {b1, b2}
  NoRecord = NoRecord  NoLease = NoLease  NoDeadline = NoDeadline  NoRegistry = NoRegistry
  Registries <- SomeUnregistered
  Delay = 1  Deadline = 2  After = {1}
  PollMs = 1  MinLease = 1  EvalTimeout = 1
  Limit = 1  MaxAttempts = 2
  Durable = TRUE  StoreLatency = TRUE  WriteLag = 0  StoreMayFail = TRUE
  Supersede = TRUE
  MaxTriggers = 2  QuietAfter = 3  MaxCrashes = 1  MaxStops = 1  MaxTime = 3
SYMMETRY Symmetric
INVARIANTS NoLeaseWithoutRecord PostponedWithinDeadline StopCoversBatches
PROPERTIES NeverRevives GivenUpAfterItsAttempts
