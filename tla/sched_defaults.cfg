\* The default proportions, one unit being 5 s: poll 10 s, lease 30 s,
\* evaluation timeout 15 s; three keys come due in the same tick.
SPECIFICATION Spec
CONSTANTS
  s1 = s1 s2 = s2 s3 = s3
  Slot = {s1, s2, s3}
  b1 = b1 b2 = b2 b3 = b3 b4 = b4
  Batch = {b1, b2, b3, b4}
  NoRecord = NoRecord  NoLease = NoLease  NoDeadline = NoDeadline  NoRegistry = NoRegistry
  Registries <- AllRegistered
  Delay = 0  Deadline = NoDeadline  After = {1}
  PollMs = 2  MinLease = 6  EvalTimeout = 3
  Limit = 100  MaxAttempts = 10
  Durable = FALSE  StoreLatency = FALSE  WriteLag = 0  StoreMayFail = FALSE
  Supersede = FALSE
  MaxTriggers = 1  QuietAfter = 0  MaxCrashes = 0  MaxStops = 0  MaxTime = 12
SYMMETRY Symmetric
INVARIANTS ClaimsDisjoint
