\* Two evaluations on one key, two aggregated actions of which one is attached
\* twice, all three stores; events of the past and of the future of the clock.
SPECIFICATION Spec
CONSTANTS
  e1 = e1 e2 = e2
  Eval = {e1, e2}
  a1 = a1 a2 = a2
  Attached <- Twice
  Threshold = 2  Window = 1
  Backends = {"memory", "plain", "postgres"}
  AtOffsets <- PastAndFuture
  MaxPrunes = 1  MaxTime = 2
SYMMETRY EvalSymmetry
INVARIANTS TypeOK EntryPerAttachment ShownTheThreshold NoMissedThresholdInProcess OneNth
CHECK_DEADLOCK FALSE
